----------------------- MODULE CommitteeHandoffProofs -----------------------
(* Safety of a closing session for every committee, bound and drain length. *)
EXTENDS CommitteeHandoff, SimplexVotesProofs

\* Views are natural numbers.
LEMMA ViewsAreNaturals == MaxView \in Nat /\ Views \subseteq Nat /\ Views \subseteq 0..MaxView
BY ViewAssumption DEF Views

\* A proposal that is a seal carries a seal.
LEMMA SealPayload ==
    ASSUME NEW p \in Proposals, IsSeal(p)
    PROVE  p.payload \in Seals
<1>1. p.payload \in Frames \union Seals
  BY PayloadAssumption DEF Proposals
<1>2. p.payload \notin Frames
  BY DEF IsSeal, Frames
<1> QED
  BY <1>1, <1>2

\* Certified(u) is the notarized proposal of u, and it is the only one.
LEMMA CertifiedIs ==
    ASSUME VotesInv, NEW u \in Views, Notarized(u)
    PROVE  /\ Certified(u) \in Voted(u) /\ Certified(u) \in Proposals
           /\ Notarization(u, Certified(u))
           /\ \A p : Notarization(u, p) => p = Certified(u)
<1>1. Certified(u) \in Voted(u) /\ Notarization(u, Certified(u))
  BY DEF Notarized, Certified
<1>2. TypeOK /\ UniqueNotarization
  BY UniqueNotarizationFollows DEF VotesInv
<1>3. Certified(u) \in Proposals
  BY <1>1, <1>2, NotarizationIsVoted
<1>4. ASSUME NEW p, Notarization(u, p) PROVE p = Certified(u)
  BY <1>1, <1>2, <1>4, NotarizationIsVoted DEF UniqueNotarization
<1> QED
  BY <1>1, <1>3, <1>4

\* What a member would seal is a seal.
LEMMA SealOfType ==
    ASSUME NEW m \in Honest, NEW v \in Views, NEW u \in 0..MaxView, NEW b \in 0..MaxView
    PROVE  SealOf(m, v, u, b) \in Seals
BY HandoffAssumption DEF SealOf, Seals, Checkpoints

\* What a leader builds and what a voter accepts obey the same two rules: above
\* a seal its re-seal, and a first seal only of the committed tip.
Lawful(m, p) ==
    /\ SealAt(p.parent) =>
          /\ p.payload = SealOf(m, view[m], p.parent,
                                Certified(p.parent).payload.checkpoint.block)
          /\ Certified(p.parent).payload.checkpoint.roots = LocalRoots[m]
    /\ ~ SealAt(p.parent) /\ IsSeal(p) =>
          /\ p.payload = SealOf(m, view[m], p.parent, p.parent)
          /\ p.parent = tip[m]

\* A proposal is a vote that keeps the seal rules.
LEMMA ProposalLawful ==
    ASSUME VotesInv, NEW m \in Honest, Propose(m)
    PROVE  \E p \in Proposals : construct_notarize(m, p) /\ Lawful(m, p)
<1>1. PICK u \in 0..(view[m] - 1) : \E x \in propose_with_context(m, u) :
          construct_notarize(m, [parent |-> u, payload |-> x])
  BY DEF Propose
<1>2. PICK x \in propose_with_context(m, u) :
          construct_notarize(m, [parent |-> u, payload |-> x])
  BY <1>1
<1> DEFINE p == [parent |-> u, payload |-> x]
<1>3. view[m] \in Views /\ u \in 0..MaxView
  BY ViewsAreNaturals DEF VotesInv, TypeOK, Views
<1>4. SealAt(u) => u \in Views /\ Notarized(u) /\ IsSeal(Certified(u))
  BY <1>3, ViewsAreNaturals DEF SealAt, Views
<1>5. SealAt(u) => Certified(u).payload.checkpoint.block \in 0..MaxView
  BY <1>4, CertifiedIs, SealPayload DEF Seals, Checkpoints
<1>6. CASE SealAt(u) /\ reseal(m, u)
  <2>1. x = SealOf(m, view[m], u, Certified(u).payload.checkpoint.block)
    BY <1>2, <1>6 DEF propose_with_context
  <2>2. p \in Proposals
    BY <1>3, <1>5, <1>6, <2>1, SealOfType, PayloadAssumption DEF Proposals
  <2>3. Lawful(m, p)
    BY <1>6, <2>1 DEF Lawful, reseal
  <2> QED
    BY <1>2, <2>2, <2>3
<1>7. CASE ~ SealAt(u) /\ u = tip[m] /\ closing_request(m, u)
  <2>1. x = SealOf(m, view[m], u, u)
    BY <1>2, <1>7 DEF propose_with_context
  <2>2. p \in Proposals
    BY <1>3, <2>1, SealOfType, PayloadAssumption DEF Proposals
  <2>3. Lawful(m, p)
    BY <1>7, <2>1 DEF Lawful
  <2> QED
    BY <1>2, <2>2, <2>3
<1>8. CASE /\ ~ SealAt(u)
           /\ ~ (u = tip[m] /\ closing_request(m, u))
  <2>1. x \in Frames
    BY <1>2, <1>8 DEF propose_with_context
  <2>2. p \in Proposals
    BY <1>3, <2>1, PayloadAssumption DEF Proposals
  <2>3. Lawful(m, p)
    BY <1>8, <2>1 DEF Lawful, IsSeal, Frames
  <2> QED
    BY <1>2, <2>2, <2>3
<1>9. CASE SealAt(u) /\ ~ reseal(m, u)
  BY <1>2, <1>9 DEF propose_with_context
<1> QED
  BY <1>6, <1>7, <1>8, <1>9

\* So is a vote for an offered proposal.
LEMMA VoteLawful ==
    ASSUME VotesInv, NEW m \in Honest, NEW p \in Offered(m), Vote(m, p)
    PROVE  p \in Proposals /\ construct_notarize(m, p) /\ Lawful(m, p)
<1>1. p \in Proposals
  BY DEF Offered, VotesInv, TypeOK
<1>2. construct_notarize(m, p) /\ check(m, p)
  BY DEF Vote
<1>3. Lawful(m, p)
  <2>1. CASE SealAt(p.parent)
    BY <1>2, <2>1 DEF check, Lawful, reseal
  <2>2. CASE ~ SealAt(p.parent)
    BY <1>2, <2>2 DEF check, Lawful
  <2> QED
    BY <2>1, <2>2
<1> QED
  BY <1>1, <1>2, <1>3

\* The hand-off only restricts the votes: its steps are steps of the votes.
LEMMA SimplexStep == ASSUME VotesInv, [HandoffNext]_vars PROVE [Next]_votes
<1>1. CASE UNCHANGED vars
  BY <1>1 DEF vars
<1>2. ASSUME NEW m \in Honest, Propose(m) PROVE Next
  BY <1>2, ProposalLawful DEF Next
<1>3. ASSUME NEW m \in Honest, NEW p \in Offered(m), Vote(m, p) PROVE Next
  BY <1>3, VoteLawful DEF Next
<1>4. ASSUME NEW m \in Honest, Engine(m) PROVE Next
  BY <1>4 DEF Next, Engine
<1>5. ASSUME NEW m \in Honest, NEW b \in Views, Materialize(m, b) PROVE UNCHANGED votes
  BY <1>5 DEF Materialize
<1>6. ASSUME NEW m \in Honest, RefreshGlobalView(m) PROVE UNCHANGED votes
  BY <1>6 DEF RefreshGlobalView
<1> QED
  BY <1>1, <1>2, <1>3, <1>4, <1>5, <1>6 DEF HandoffNext

\* A vote that was not there before is a lawful one.
LEMMA NewVote ==
    ASSUME VotesInv, [HandoffNext]_vars, NEW m \in Honest, NEW w \in Views,
           NEW r \in notarized'[m][w], r \notin notarized[m][w]
    PROVE  w = view[m] /\ r \in Proposals /\ construct_notarize(m, r) /\ Lawful(m, r)
<1>1. \E n \in Honest : \E p \in Proposals : construct_notarize(n, p) /\ Lawful(n, p)
  <2>1. CASE UNCHANGED vars
    BY <2>1 DEF vars, votes
  <2>2. ASSUME NEW n \in Honest, Engine(n) PROVE FALSE
    BY <2>2 DEF Engine, EnterView, construct_nullify, construct_finalize
  <2>3. ASSUME NEW n \in Honest, NEW b \in Views, Materialize(n, b) PROVE FALSE
    BY <2>3 DEF Materialize, votes
  <2>4. ASSUME NEW n \in Honest, RefreshGlobalView(n) PROVE FALSE
    BY <2>4 DEF RefreshGlobalView, votes
  <2> QED
    BY <2>1, <2>2, <2>3, <2>4, ProposalLawful, VoteLawful DEF HandoffNext
<1>2. PICK n \in Honest, p \in Proposals : construct_notarize(n, p) /\ Lawful(n, p)
  BY <1>1
<1>3. n = m /\ w = view[m] /\ r = p
  BY <1>2 DEF construct_notarize, VotesInv, TypeOK
<1> QED
  BY <1>2, <1>3

\* The notarized block of a view was voted for under the rules.
LEMMA CertifiedRules ==
    ASSUME VotesInv, SealsLawful, NEW u \in Views, Notarized(u)
    PROVE  SealRules(u, Certified(u))
BY CertifiedIs DEF SealsLawful, Voted

\* A vote above the block of view u inherits what holds of that block.
LEMMA LawfulRules ==
    ASSUME VotesInv, SealsLawful, TipFinal, NEW m \in Honest, NEW p \in Proposals,
           construct_notarize(m, p), Lawful(m, p)
    PROVE  SealRules(view[m], p)
<1> DEFINE w == view[m]
           u == p.parent
           b == p.payload.checkpoint.block
<1>1. /\ w \in Views /\ w \in Nat /\ u \in Nat /\ u < w /\ MaxView \in Nat
      /\ u # 0 => u \in Views /\ Notarized(u)
      /\ \A x \in (u + 1)..(w - 1) : Nullification(x)
  <2>1. w \in Views /\ parent_payload(w, p) /\ u \in 0..MaxView
    BY DEF construct_notarize, VotesInv, TypeOK, Proposals
  <2> QED
    BY <2>1, ViewsAreNaturals DEF parent_payload, Views
<1>2. u # 0 => /\ Certified(u) \in Proposals
               /\ Notarization(u, Certified(u))
               /\ SealRules(u, Certified(u))
  BY <1>1, CertifiedIs, CertifiedRules
<1>3. SealAt(u) => u # 0 /\ IsSeal(Certified(u))
  BY DEF SealAt
<1>4. SealAt(u) => IsSeal(p) /\ SameCheckpoint(p, Certified(u))
  BY DEF Lawful, SealOf, IsSeal, SameCheckpoint
<1>5. ~ SealAt(u) /\ IsSeal(p) => b = u /\ u = tip[m]
  BY DEF Lawful, SealOf
<1>6. IsSeal(p) => b \in Nat
  BY SealPayload, ViewsAreNaturals DEF Seals, Checkpoints
<1>7. IsSeal(p) => verify_seal_with(w, p, TRUE)
  <2>1. CASE SealAt(u)
    BY <1>1, <1>3, <2>1 DEF Lawful, SealOf, verify_seal_with
  <2>2. CASE ~ SealAt(u)
    BY <1>1, <2>2 DEF Lawful, SealOf, verify_seal_with
  <2> QED
    BY <2>1, <2>2
<1>8. AboveSeals(w, p)
  <2> SUFFICES ASSUME NEW v \in 1..(w - 1), ~ Nullification(v)
               PROVE  \E q \in Proposals :
                          Notarization(v, q) /\ (IsSeal(q) => IsSeal(p) /\ SameCheckpoint(p, q))
    BY DEF AboveSeals
  <2>1. v \in Nat /\ v # 0 /\ v <= u
    BY <1>1
  <2>2. u # 0 /\ (IsSeal(Certified(u)) => SealAt(u))
    BY <1>1, <2>1 DEF SealAt
  <2>3. CASE v = u
    BY <1>2, <1>4, <2>2, <2>3
  <2>4. CASE v < u
    <3>1. v \in 1..(u - 1)
      BY <1>1, <2>1, <2>4
    <3>2. PICK q \in Proposals :
             /\ Notarization(v, q)
             /\ IsSeal(q) => IsSeal(Certified(u)) /\ SameCheckpoint(Certified(u), q)
      BY <1>2, <2>2, <3>1 DEF SealRules, AboveSeals
    <3>3. IsSeal(q) => IsSeal(p) /\ SameCheckpoint(p, q)
      BY <1>4, <2>2, <3>2 DEF SameCheckpoint
    <3> QED
      BY <3>2, <3>3
  <2> QED
    BY <1>1, <2>1, <2>3, <2>4
<1>9. OnlySealsSince(w, p)
  <2> SUFFICES ASSUME IsSeal(p), NEW x \in (b + 1)..(w - 1), ~ Nullification(x)
               PROVE  \E q \in Proposals : Notarization(x, q) /\ IsSeal(q)
    BY DEF OnlySealsSince
  <2>1. x \in Nat /\ x <= u /\ b < x
    BY <1>1, <1>6
  <2>2. SealAt(u)
    BY <1>1, <1>5, <2>1
  <2>3. CASE x = u
    BY <1>2, <1>3, <2>2, <2>3
  <2>4. CASE x < u
    <3>1. b = Certified(u).payload.checkpoint.block
      BY <1>4, <2>2 DEF SameCheckpoint
    <3>2. x \in (Certified(u).payload.checkpoint.block + 1)..(u - 1)
      BY <1>1, <1>6, <2>1, <2>4, <3>1
    <3> QED
      BY <1>2, <1>3, <2>2, <3>2 DEF SealRules, OnlySealsSince
  <2> QED
    BY <1>1, <2>1, <2>3, <2>4
<1>10. NamesFinalized(w, p)
  <2> SUFFICES ASSUME IsSeal(p), b # 0
               PROVE  \E q \in Proposals : Finalization(b, q) /\ ~ IsSeal(q)
    BY DEF NamesFinalized
  <2>1. CASE SealAt(u)
    <3>1. b = Certified(u).payload.checkpoint.block
      BY <1>4, <2>1 DEF SameCheckpoint
    <3> QED
      BY <1>2, <1>3, <2>1, <3>1 DEF SealRules, NamesFinalized
  <2>2. CASE ~ SealAt(u)
    <3>1. b = u /\ tip[m] = u /\ u # 0
      BY <1>5, <2>2
    <3>2. PICK x \in tip[m]..(view[m] - 1) : \E q \in Proposals :
             Finalization(x, q) /\ (x = tip[m] => ~ IsSeal(q))
      BY <3>1 DEF TipFinal
    <3>3. PICK q \in Proposals : Finalization(x, q) /\ (x = tip[m] => ~ IsSeal(q))
      BY <3>2
    <3>4. x \in Views /\ x \in Nat /\ x >= u /\ x <= w - 1
      BY <1>1, <3>1 DEF Views
    <3>5. ~ Nullification(x)
      <4>1. TypeOK /\ Notarization(x, q)
        BY <3>3, <3>4, FinalizationNotarized DEF VotesInv
      <4>2. q \in Voted(x)
        BY <3>4, <4>1, NotarizationIsVoted
      <4> QED
        BY <3>3, <3>4, <4>2, FinalizedNotNullifiedFollows DEF FinalizedNotNullified
    <3>6. x = u
      BY <1>1, <3>4, <3>5
    <3> QED
      BY <3>1, <3>3, <3>6
  <2> QED
    BY <2>1, <2>2
<1>11. Extends(p)
  <2> SUFFICES ASSUME u # 0
               PROVE  /\ IsSeal(Certified(u)) => IsSeal(p) /\ SameCheckpoint(p, Certified(u))
                      /\ IsSeal(p) /\ ~ IsSeal(Certified(u)) => b = u
    BY <1>2 DEF Extends
  <2> QED
    BY <1>1, <1>4, <1>5 DEF SealAt
<1> QED
  BY <1>7, <1>8, <1>9, <1>10, <1>11 DEF SealRules

\* What holds of a vote goes on holding: certificates stay.
LEMMA RulesStay ==
    ASSUME TypeOK, Cast, NEW w \in Views, NEW r \in Proposals, SealRules(w, r)
    PROVE  SealRules(w, r)'
<1>0. w \in Nat /\ MaxView \in Nat /\ 1..(w - 1) \subseteq Views
  BY ViewsAreNaturals DEF Views
<1>1. (IsSeal(r) => verify_seal_with(w, r, TRUE))'
  BY DEF SealRules, verify_seal_with, IsSeal
<1>5. Extends(r)'
  <2>1. r.parent # 0 => r.parent \in Views
    BY <1>0 DEF Proposals, Views
  <2> QED
    BY <2>1, CertificatesStay DEF SealRules, Extends, IsSeal, SameCheckpoint
<1>2. AboveSeals(w, r)'
  <2> SUFFICES ASSUME NEW v \in 1..(w - 1)
               PROVE  \/ Nullification(v)'
                      \/ \E q \in Proposals : /\ Notarization(v, q)'
                                              /\ IsSeal(q) => IsSeal(r) /\ SameCheckpoint(r, q)
    BY DEF AboveSeals, IsSeal, SameCheckpoint
  <2>1. v \in Views
    BY <1>0
  <2> QED
    BY <2>1, CertificatesStay DEF SealRules, AboveSeals
<1>3. OnlySealsSince(w, r)'
  <2> SUFFICES ASSUME IsSeal(r), NEW x \in (r.payload.checkpoint.block + 1)..(w - 1)
               PROVE  \/ Nullification(x)'
                      \/ \E q \in Proposals : Notarization(x, q)' /\ IsSeal(q)
    BY DEF OnlySealsSince, IsSeal
  <2>1. r.payload.checkpoint.block \in Nat
    BY SealPayload, ViewsAreNaturals DEF Seals, Checkpoints
  <2>2. x \in Views
    BY <1>0, <2>1
  <2> QED
    BY <2>2, CertificatesStay DEF SealRules, OnlySealsSince
<1>4. NamesFinalized(w, r)'
  <2> SUFFICES ASSUME IsSeal(r), r.payload.checkpoint.block # 0
               PROVE  \E q \in Proposals :
                         Finalization(r.payload.checkpoint.block, q)' /\ ~ IsSeal(q)
    BY DEF NamesFinalized, IsSeal
  <2>1. r.payload.checkpoint.block \in Views
    BY SealPayload, ViewsAreNaturals DEF Seals, Checkpoints, Views
  <2> QED
    BY <2>1, CertificatesStay DEF SealRules, NamesFinalized
<1> QED
  BY <1>1, <1>2, <1>3, <1>4, <1>5 DEF SealRules

\* Every step keeps the seals lawful.
LEMMA SealsLawfulPreserved ==
    ASSUME VotesInv, SealsLawful, TipFinal, [HandoffNext]_vars
    PROVE  SealsLawful'
<1>1. TypeOK /\ Cast /\ TypeOK'
  BY SimplexStep, VotesStay, TypePreserved DEF VotesInv
<1> SUFFICES ASSUME NEW m \in Honest, NEW w \in Views, NEW r \in notarized'[m][w]
             PROVE  SealRules(w, r)'
  BY DEF SealsLawful
<1>2. r \in Proposals
  BY <1>1 DEF TypeOK
<1>3. SealRules(w, r)
  <2>1. CASE r \in notarized[m][w]
    BY <2>1 DEF SealsLawful
  <2>2. CASE r \notin notarized[m][w]
    BY <2>2, NewVote, LawfulRules
  <2> QED
    BY <2>1, <2>2
<1> QED
  BY <1>1, <1>2, <1>3, RulesStay

\* Cursors and requests keep their types, and views only grow.
LEMMA HandoffTypePreserved ==
    ASSUME VotesInv, HandoffTypeOK, [HandoffNext]_vars
    PROVE  HandoffTypeOK' /\ \A m \in Honest : view'[m] >= view[m]
<1>1. TypeOK' /\ TypeOK
  BY SimplexStep, TypePreserved DEF VotesInv
<1>2. tip' \in [Honest -> 0..MaxView] /\ closing' \in [Honest -> BOOLEAN]
  <2> USE DEF HandoffTypeOK
  <2>1. ASSUME NEW m \in Honest, NEW b \in Views, Materialize(m, b)
        PROVE  tip' \in [Honest -> 0..MaxView] /\ closing' \in [Honest -> BOOLEAN]
    BY <2>1, ViewsAreNaturals DEF Materialize
  <2>2. ASSUME NEW m \in Honest, RefreshGlobalView(m)
        PROVE  tip' \in [Honest -> 0..MaxView] /\ closing' \in [Honest -> BOOLEAN]
    BY <2>2 DEF RefreshGlobalView
  <2> QED
    BY <2>1, <2>2 DEF HandoffNext, vars, Propose, Vote, Engine
<1>3. \A m \in Honest : view'[m] >= view[m]
  <2>1. \A m \in Honest : view[m] \in Nat
    BY <1>1, ViewsAreNaturals DEF TypeOK
  <2>2. ASSUME NEW n \in Honest, NEW v \in Views, EnterView(n, v)
        PROVE  \A m \in Honest : view'[m] >= view[m]
    BY <1>1, <2>1, <2>2, ViewsAreNaturals DEF EnterView, TypeOK
  <2>3. \/ view' = view
        \/ \E n \in Honest : \E v \in Views : EnterView(n, v)
    BY SimplexStep DEF Next, votes, construct_notarize, construct_nullify, construct_finalize
  <2> QED
    BY <2>1, <2>2, <2>3
<1> QED
  BY <1>1, <1>2, <1>3 DEF HandoffTypeOK

\* Every step keeps the tip final.
LEMMA TipFinalPreserved ==
    ASSUME VotesInv, HandoffTypeOK, TipFinal, [HandoffNext]_vars
    PROVE  TipFinal'
<1>1. TypeOK /\ Cast /\ TypeOK' /\ HandoffTypeOK'
  BY SimplexStep, VotesStay, TypePreserved, HandoffTypePreserved DEF VotesInv
<1> SUFFICES ASSUME NEW m \in Honest, NEW t, t = tip'[m], t # 0
             PROVE  \E w \in t..(view'[m] - 1) : \E p \in Proposals :
                       Finalization(w, p)' /\ (w = t => ~ IsSeal(p))
  BY DEF TipFinal, IsSeal
<1>2. t \in Nat /\ view[m] \in Views /\ view'[m] \in Views /\ view'[m] >= view[m]
  BY <1>1, ViewsAreNaturals, HandoffTypePreserved DEF TypeOK, HandoffTypeOK
<1>3. \E w \in t..(view[m] - 1) : \E p \in Proposals :
         Finalization(w, p) /\ (w = t => ~ IsSeal(p))
  <2>1. CASE t = tip[m]
    BY <2>1 DEF TipFinal
  <2>2. CASE t # tip[m]
    <3>1. PICK n \in Honest, b \in Views : Materialize(n, b)
      BY <2>2 DEF HandoffNext, vars, Propose, Vote, Engine, RefreshGlobalView
    <3>2. n = m /\ b = t
      BY <2>2, <3>1 DEF Materialize, HandoffTypeOK
    <3>3. PICK w \in t..(view[m] - 1) : \E p \in Voted(w) :
             Finalization(w, p) /\ t \in FramesOf(w)
      BY <3>1, <3>2 DEF Materialize
    <3>4. PICK p \in Voted(w) : Finalization(w, p) /\ ~ SealAt(t)
      BY <3>3 DEF FramesOf
    <3>5. w \in Views
      BY <1>2, ViewsAreNaturals DEF Views
    <3>6. Notarization(w, p)
      BY <3>4, <3>5, FinalizationNotarized
    <3>7. p \in Proposals
      BY <1>1, <3>5, <3>6, NotarizationIsVoted
    <3>8. w = t => ~ IsSeal(p)
      <4>1. w = t => Notarized(t) /\ p = Certified(t)
        BY <3>5, <3>6, CertifiedIs DEF Notarized
      <4> QED
        BY <3>4, <4>1 DEF SealAt
    <3> QED
      BY <3>4, <3>7, <3>8
  <2> QED
    BY <2>1, <2>2
<1>4. PICK w \in t..(view[m] - 1) : \E p \in Proposals :
         Finalization(w, p) /\ (w = t => ~ IsSeal(p))
  BY <1>3
<1>5. w \in Views /\ w \in t..(view'[m] - 1)
  BY <1>2, ViewsAreNaturals DEF Views
<1> QED
  BY <1>1, <1>4, <1>5, CertificatesStay

\* The initial state.
LEMMA HandoffInvInit == ASSUME HandoffInit PROVE HandoffInv
<1>1. VotesInv
  BY VotesInit DEF HandoffInit
<1>2. HandoffTypeOK
  BY <1>1, ViewsAreNaturals DEF HandoffInit, HandoffTypeOK, VotesInv
<1>3. SealsLawful
  BY DEF HandoffInit, Init, SealsLawful
<1>4. TipFinal
  BY DEF HandoffInit, TipFinal
<1> QED
  BY <1>1, <1>2, <1>3, <1>4 DEF HandoffInv

\* Every step of a closing session keeps the invariant.
LEMMA HandoffInvStep == ASSUME HandoffInv, [HandoffNext]_vars PROVE HandoffInv'
<1>1. VotesInv'
  BY SimplexStep, VotesStep DEF HandoffInv
<1> QED
  BY <1>1, HandoffTypePreserved, SealsLawfulPreserved, TipFinalPreserved DEF HandoffInv

\* What every seal vote asserts of the chain below it holds in every reachable
\* state (propose, verify and the seal checks of the application seam).
THEOREM HandoffInvariant == HandoffSpec => []HandoffInv
<1>1. HandoffInit => HandoffInv
  BY HandoffInvInit
<1>2. HandoffInv /\ [HandoffNext]_vars => HandoffInv'
  BY HandoffInvStep
<1> QED
  BY <1>1, <1>2, PTL DEF HandoffSpec

\* A proposal an honest member voted for keeps the seal rules.
LEMMA VotedRules ==
    ASSUME HandoffInv, NEW w \in Views, NEW r \in Voted(w)
    PROVE  SealRules(w, r) /\ r \in Proposals
BY DEF HandoffInv, SealsLawful, Voted, VotesInv, TypeOK

\* The invariant gives one terminal checkpoint.
LEMMA OneTerminalFollows == ASSUME HandoffInv PROVE OneTerminalCheckpoint
<1> SUFFICES ASSUME NEW v \in Views, NEW p \in Voted(v), Finalization(v, p), IsSeal(p),
                    NEW w \in (v + 1)..MaxView, NEW q \in Voted(w)
             PROVE  IsSeal(q) /\ SameCheckpoint(q, p)
  BY DEF OneTerminalCheckpoint, SameCheckpoint
<1>1. w \in Views /\ v \in 1..(w - 1)
  BY ViewsAreNaturals DEF Views
<1>2. VotesInv /\ FinalizedNotNullified /\ UniqueNotarization /\ TypeOK
  BY FinalizedNotNullifiedFollows, UniqueNotarizationFollows DEF HandoffInv, VotesInv
<1>3. ~ Nullification(v) /\ Notarization(v, p)
  BY <1>2, FinalizationNotarized DEF FinalizedNotNullified
<1>4. PICK s \in Proposals :
         Notarization(v, s) /\ (IsSeal(s) => IsSeal(q) /\ SameCheckpoint(q, s))
  BY <1>1, <1>3, VotedRules DEF SealRules, AboveSeals
<1>5. s = p
  BY <1>2, <1>3, <1>4, NotarizationIsVoted DEF UniqueNotarization
<1> QED
  BY <1>4, <1>5

\* It gives that a seal covers what is finalized.
LEMMA SealCoversFollows == ASSUME HandoffInv PROVE SealCoversFinalized
<1> SUFFICES ASSUME NEW v \in Views, NEW p \in Voted(v), IsSeal(p),
                    NEW x \in (p.payload.checkpoint.block + 1)..(v - 1),
                    NEW q \in Voted(x), Finalization(x, q)
             PROVE  IsSeal(q)
  BY DEF SealCoversFinalized
<1>1. p.payload.checkpoint.block \in Nat
  BY VotedRules, SealPayload, ViewsAreNaturals DEF Seals, Checkpoints
<1>2. x \in Views
  BY <1>1, ViewsAreNaturals DEF Views
<1>3. VotesInv /\ FinalizedNotNullified /\ UniqueNotarization /\ TypeOK
  BY FinalizedNotNullifiedFollows, UniqueNotarizationFollows DEF HandoffInv, VotesInv
<1>4. ~ Nullification(x) /\ Notarization(x, q)
  BY <1>2, <1>3, FinalizationNotarized DEF FinalizedNotNullified
<1>5. PICK s \in Proposals : Notarization(x, s) /\ IsSeal(s)
  BY <1>4, VotedRules DEF SealRules, OnlySealsSince
<1>6. s = q
  BY <1>2, <1>3, <1>4, <1>5, NotarizationIsVoted DEF UniqueNotarization
<1> QED
  BY <1>5, <1>6

\* It gives that the sealed frame is finalized.
LEMMA SealedFinalizedFollows == ASSUME HandoffInv PROVE SealedCheckpointFinalized
<1> SUFFICES ASSUME NEW v \in Views, NEW p \in Voted(v), IsSeal(p),
                    NEW b, b = p.payload.checkpoint.block, b # 0
             PROVE  \E q \in Voted(b) : Finalization(b, q) /\ ~ IsSeal(q)
  BY DEF SealedCheckpointFinalized
<1>1. b \in Views
  BY VotedRules, SealPayload, ViewsAreNaturals DEF Seals, Checkpoints, Views
<1>2. PICK q \in Proposals : Finalization(b, q) /\ ~ IsSeal(q)
  BY VotedRules DEF SealRules, NamesFinalized
<1>3. q \in Voted(b)
  BY <1>1, <1>2, FinalizationNotarized, NotarizationIsVoted DEF HandoffInv, VotesInv
<1> QED
  BY <1>2, <1>3

\* It gives what is accepted of a certified seal.
LEMMA SealVerifiesFollows == ASSUME HandoffInv PROVE CertifiedSealVerifies
<1> SUFFICES ASSUME NEW v \in Views, NEW p \in Voted(v), Notarization(v, p), IsSeal(p)
             PROVE  /\ verify_seal_with(v, p, TRUE)
                    /\ verify_seal_with(v, p, FALSE) <=> ~ BaseSealAt(p.parent)
  BY DEF CertifiedSealVerifies
<1>1. p \in Proposals /\ verify_seal_with(v, p, TRUE) /\ Extends(p)
  BY VotedRules DEF SealRules
<1>2. CASE p.parent = 0
  BY <1>1, <1>2 DEF verify_seal_with, BaseSealAt
<1>3. CASE p.parent # 0
  <2>1. PICK q \in Proposals :
           /\ Notarization(p.parent, q)
           /\ IsSeal(q) => SameCheckpoint(p, q)
           /\ ~ IsSeal(q) => p.payload.checkpoint.block = p.parent
    BY <1>1, <1>3 DEF Extends
  <2>2. p.parent \in Views
    BY <1>1, <1>3, ViewsAreNaturals DEF Proposals, Views
  <2>3. q \in Voted(p.parent)
    BY <2>1, <2>2, NotarizationIsVoted DEF HandoffInv, VotesInv
  <2>4. BaseSealAt(p.parent) <=> IsSeal(q) /\ q.payload.checkpoint.block = 0
    BY <1>3, <2>1, <2>2, <2>3, UniqueNotarizationFollows
       DEF BaseSealAt, UniqueNotarization, HandoffInv
  <2>5. BaseSealAt(p.parent) <=> p.payload.checkpoint.block = 0
    BY <1>3, <2>1, <2>4 DEF SameCheckpoint
  <2> QED
    BY <1>1, <1>3, <2>5 DEF verify_seal_with
<1> QED
  BY <1>2, <1>3

\* The hand-off implements the votes of SimplexVotes: their theorems hold of a
\* closing session.
THEOREM HandoffImplementsVotes == HandoffSpec => Spec
<1>1. HandoffInit => Init
  BY DEF HandoffInit
<1>2. HandoffInv /\ [HandoffNext]_vars => [Next]_votes
  BY SimplexStep DEF HandoffInv
<1> QED
  BY <1>1, <1>2, HandoffInvariant, PTL DEF HandoffSpec, Spec

\* Once a seal is finalized nothing but re-seals of its checkpoint is ever
\* notarized: the session has one terminal checkpoint.
THEOREM SessionEndsOnce == HandoffSpec => []OneTerminalCheckpoint
<1>1. HandoffInv => OneTerminalCheckpoint
  BY OneTerminalFollows
<1> QED
  BY <1>1, HandoffInvariant, PTL

\* The checkpoint a certified seal names includes every finalized data frame.
THEOREM NothingFinalizedIsLost == HandoffSpec => []SealCoversFinalized
<1>1. HandoffInv => SealCoversFinalized
  BY SealCoversFollows
<1> QED
  BY <1>1, HandoffInvariant, PTL

\* The frame a certified seal names has a finalization of its own.
THEOREM SealsFinalizedFrames == HandoffSpec => []SealedCheckpointFinalized
<1>1. HandoffInv => SealedCheckpointFinalized
  BY SealedFinalizedFollows
<1> QED
  BY <1>1, HandoffInvariant, PTL

\* From its recovery frame GLOBAL accepts every certified seal; before it, all but
\* those that extend a seal of the session base.
THEOREM CertifiedSealsVerify == HandoffSpec => []CertifiedSealVerifies
<1>1. HandoffInv => CertifiedSealVerifies
  BY SealVerifiesFollows
<1> QED
  BY <1>1, HandoffInvariant, PTL
=============================================================================
