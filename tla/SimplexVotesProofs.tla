------------------------- MODULE SimplexVotesProofs -------------------------
(* Safety of the votes for every committee, quorum system and bound. *)
EXTENDS SimplexVotes, TLAPS

\* Two certificates share an honest signer (QuorumAssumption).
LEMMA QuorumsMeet ==
    ASSUME NEW P \in Quorums, NEW Q \in Quorums
    PROVE  \E m \in Honest : m \in P \ Faulty /\ m \in Q \ Faulty
BY QuorumAssumption DEF Honest

\* A certificate is for a proposal an honest member voted for.
LEMMA NotarizationIsVoted ==
    ASSUME TypeOK, NEW v \in Views, NEW p, Notarization(v, p)
    PROVE  p \in Voted(v) /\ p \in Proposals
<1>1. PICK Q \in Quorums : \A m \in Q \ Faulty : p \in notarized[m][v]
  BY DEF Notarization
<1>2. PICK m \in Honest : m \in Q \ Faulty
  BY QuorumsMeet
<1>3. p \in notarized[m][v] /\ notarized[m][v] \in SUBSET Proposals
  BY <1>1, <1>2 DEF TypeOK
<1> QED
  BY <1>2, <1>3 DEF Voted

\* Votes stay cast: no step takes one back.
Cast ==
    /\ \A m \in Honest : \A v \in Views : notarized[m][v] \subseteq notarized'[m][v]
    /\ \A m \in Honest : nullified[m] \subseteq nullified'[m]
    /\ \A m \in Honest : \A v \in Views : finalized[m][v] \subseteq finalized'[m][v]

\* Votes once cast stay cast.
LEMMA VotesStay ==
    ASSUME TypeOK, [Next]_votes
    PROVE  Cast
<1>1. CASE UNCHANGED votes
  BY <1>1 DEF Cast, votes
<1>2. ASSUME NEW m \in Honest, NEW v \in Views, EnterView(m, v) PROVE Cast
  BY <1>2 DEF Cast, EnterView
<1>3. ASSUME NEW m \in Honest, NEW p \in Proposals, construct_notarize(m, p)
      PROVE  Cast
  BY <1>3 DEF Cast, construct_notarize, TypeOK
<1>4. ASSUME NEW m \in Honest, construct_nullify(m) PROVE Cast
  BY <1>4 DEF Cast, construct_nullify, TypeOK
<1>5. ASSUME NEW m \in Honest, NEW v \in Views, NEW p \in Voted(v),
             construct_finalize(m, v, p)
      PROVE  Cast
  BY <1>5 DEF Cast, construct_finalize, TypeOK
<1> QED
  BY <1>1, <1>2, <1>3, <1>4, <1>5 DEF Next

\* Certificates stay: what a quorum signed remains signed.
LEMMA CertificatesStay ==
    ASSUME TypeOK, Cast
    PROVE  /\ \A v \in Views : Nullification(v) => Nullification(v)'
           /\ \A v \in Views : \A p \in Proposals :
                Notarization(v, p) => Notarization(v, p)'
           /\ \A v \in Views : Notarized(v) => Notarized(v)'
           /\ \A v \in Views : \A p \in Proposals :
                Finalization(v, p) => Finalization(v, p)'
<1> USE QuorumAssumption DEF Cast
<1>1. ASSUME NEW v \in Views, Nullification(v) PROVE Nullification(v)'
  <2>1. PICK Q \in Quorums : \A m \in Q \ Faulty : v \in nullified[m]
    BY <1>1 DEF Nullification
  <2>2. \A m \in Q \ Faulty : v \in nullified'[m]
    BY <2>1 DEF Honest
  <2> QED
    BY <2>2 DEF Nullification
<1>2. ASSUME NEW v \in Views, NEW p \in Proposals, Notarization(v, p)
      PROVE  Notarization(v, p)'
  <2>1. PICK Q \in Quorums : \A m \in Q \ Faulty : p \in notarized[m][v]
    BY <1>2 DEF Notarization
  <2>2. \A m \in Q \ Faulty : p \in notarized'[m][v]
    BY <2>1 DEF Honest
  <2> QED
    BY <2>2 DEF Notarization
<1>3. ASSUME NEW v \in Views, Notarized(v) PROVE Notarized(v)'
  <2>1. PICK p \in Voted(v) : Notarization(v, p)
    BY <1>3 DEF Notarized
  <2>2. PICK m \in Honest : p \in notarized[m][v]
    BY DEF Voted
  <2>3. p \in Proposals
    BY <2>2 DEF TypeOK
  <2>4. p \in Voted(v)'
    BY <2>2 DEF Voted
  <2> QED
    BY <1>2, <2>1, <2>3, <2>4 DEF Notarized
<1>4. ASSUME NEW v \in Views, NEW p \in Proposals, Finalization(v, p)
      PROVE  Finalization(v, p)'
  <2>1. PICK Q \in Quorums : \A m \in Q \ Faulty : p \in finalized[m][v]
    BY <1>4 DEF Finalization
  <2>2. \A m \in Q \ Faulty : p \in finalized'[m][v]
    BY <2>1 DEF Honest
  <2> QED
    BY <2>2 DEF Finalization
<1> QED
  BY <1>1, <1>2, <1>3, <1>4

\* Hence an ancestry that was certified stays certified.
LEMMA ParentStays ==
    ASSUME TypeOK, Cast, NEW v \in Views, NEW p \in Proposals, parent_payload(v, p)
    PROVE  parent_payload(v, p)'
<1>1. p.parent \in 0..MaxView /\ MaxView \in Nat /\ v \in Nat
  BY ViewAssumption DEF Proposals, Views
<1>2. ASSUME NEW u \in (p.parent + 1)..(v - 1) PROVE Nullification(u)'
  <2>1. u \in Views
    BY <1>1, ViewAssumption DEF Views
  <2> QED
    BY <2>1, CertificatesStay DEF parent_payload
<1>3. p.parent # 0 => Notarized(p.parent)'
  <2>1. p.parent # 0 => p.parent \in Views
    BY <1>1 DEF Views
  <2> QED
    BY <2>1, CertificatesStay DEF parent_payload
<1> QED
  BY <1>2, <1>3 DEF parent_payload

\* The initial state satisfies the invariant: nobody has voted.
LEMMA VotesInit == ASSUME Init PROVE VotesInv
<1>0. 1 \in Views
  BY ViewAssumption DEF Views
<1>1. TypeOK
  BY <1>0 DEF Init, TypeOK
<1>2. OneNotarize /\ OneVerdict /\ FinalizeBacked /\ NotarizeBacked
  BY DEF Init, OneNotarize, OneVerdict, FinalizeBacked, NotarizeBacked
<1> QED
  BY <1>1, <1>2 DEF VotesInv

\* Every step keeps the types.
LEMMA TypePreserved ==
    ASSUME TypeOK, [Next]_votes
    PROVE  TypeOK'
<1> USE ViewAssumption DEF TypeOK
<1>1. CASE UNCHANGED votes
  BY <1>1 DEF votes
<1>2. ASSUME NEW m \in Honest, NEW v \in Views, EnterView(m, v) PROVE TypeOK'
  <2>1. v + 1 \in Views
    BY <1>2 DEF EnterView, Views
  <2> QED
    BY <1>2, <2>1 DEF EnterView
<1>3. ASSUME NEW m \in Honest, NEW p \in Proposals, construct_notarize(m, p)
      PROVE  TypeOK'
  BY <1>3 DEF construct_notarize
<1>4. ASSUME NEW m \in Honest, construct_nullify(m) PROVE TypeOK'
  BY <1>4 DEF construct_nullify
<1>5. ASSUME NEW m \in Honest, NEW v \in Views, NEW p \in Voted(v),
             construct_finalize(m, v, p)
      PROVE  TypeOK'
  <2>1. p \in Proposals
    BY DEF Voted
  <2> QED
    BY <1>5, <2>1 DEF construct_finalize
<1> QED
  BY <1>1, <1>2, <1>3, <1>4, <1>5 DEF Next

\* Every step keeps one notarize vote of a member per view.
LEMMA OneNotarizePreserved ==
    ASSUME TypeOK, OneNotarize, [Next]_votes
    PROVE  OneNotarize'
<1> USE DEF TypeOK, OneNotarize
<1>1. CASE UNCHANGED votes
  BY <1>1 DEF votes
<1>2. ASSUME NEW m \in Honest, NEW v \in Views, EnterView(m, v) PROVE OneNotarize'
  BY <1>2 DEF EnterView
<1>3. ASSUME NEW m \in Honest, NEW p \in Proposals, construct_notarize(m, p)
      PROVE  OneNotarize'
  BY <1>3 DEF construct_notarize
<1>4. ASSUME NEW m \in Honest, construct_nullify(m) PROVE OneNotarize'
  BY <1>4 DEF construct_nullify
<1>5. ASSUME NEW m \in Honest, NEW v \in Views, NEW p \in Voted(v),
             construct_finalize(m, v, p)
      PROVE  OneNotarize'
  BY <1>5 DEF construct_finalize
<1> QED
  BY <1>1, <1>2, <1>3, <1>4, <1>5 DEF Next

\* Every step keeps one verdict of a member per view.
LEMMA OneVerdictPreserved ==
    ASSUME TypeOK, OneVerdict, [Next]_votes
    PROVE  OneVerdict'
<1> USE DEF TypeOK, OneVerdict
<1>1. CASE UNCHANGED votes
  BY <1>1 DEF votes
<1>2. ASSUME NEW m \in Honest, NEW v \in Views, EnterView(m, v) PROVE OneVerdict'
  BY <1>2 DEF EnterView
<1>3. ASSUME NEW m \in Honest, NEW p \in Proposals, construct_notarize(m, p)
      PROVE  OneVerdict'
  BY <1>3 DEF construct_notarize
<1>4. ASSUME NEW m \in Honest, construct_nullify(m) PROVE OneVerdict'
  BY <1>4 DEF construct_nullify
<1>5. ASSUME NEW m \in Honest, NEW v \in Views, NEW p \in Voted(v),
             construct_finalize(m, v, p)
      PROVE  OneVerdict'
  BY <1>5 DEF construct_finalize
<1> QED
  BY <1>1, <1>2, <1>3, <1>4, <1>5 DEF Next

\* Every step keeps notarize votes backed by certificates.
LEMMA NotarizeBackedPreserved ==
    ASSUME TypeOK, NotarizeBacked, Cast, TypeOK', [Next]_votes
    PROVE  NotarizeBacked'
<1> SUFFICES ASSUME NEW m \in Honest, NEW v \in Views, NEW p \in Proposals,
                    p \in notarized'[m][v]
             PROVE  parent_payload(v, p)'
  BY DEF NotarizeBacked, TypeOK
<1>1. CASE p \in notarized[m][v]
  BY <1>1, ParentStays DEF NotarizeBacked
<1>2. CASE p \notin notarized[m][v]
  <2>1. PICK n \in Honest, q \in Proposals : construct_notarize(n, q)
    BY <1>2 DEF Next, votes, EnterView, construct_nullify, construct_finalize
  <2>2. n = m /\ v = view[m] /\ q = p
    BY <1>2, <2>1 DEF construct_notarize, TypeOK
  <2>3. parent_payload(v, p)
    BY <2>1, <2>2 DEF construct_notarize
  <2> QED
    BY <2>3, ParentStays
<1> QED
  BY <1>1, <1>2

\* Every step keeps finalize votes backed by a notarization.
LEMMA FinalizeBackedPreserved ==
    ASSUME TypeOK, FinalizeBacked, Cast, TypeOK', [Next]_votes
    PROVE  FinalizeBacked'
<1> SUFFICES ASSUME NEW m \in Honest, NEW v \in Views, NEW p \in Proposals,
                    p \in finalized'[m][v]
             PROVE  Notarization(v, p)'
  BY DEF FinalizeBacked, TypeOK
<1>1. CASE p \in finalized[m][v]
  BY <1>1, CertificatesStay DEF FinalizeBacked
<1>2. CASE p \notin finalized[m][v]
  <2>1. PICK n \in Honest, u \in Views : \E q \in Voted(u) : construct_finalize(n, u, q)
    BY <1>2 DEF Next, votes, EnterView, construct_nullify, construct_notarize
  <2>2. PICK q \in Voted(u) : construct_finalize(n, u, q)
    BY <2>1
  <2>3. n = m /\ u = v /\ q = p
    BY <1>2, <2>2 DEF construct_finalize, TypeOK
  <2>4. Notarization(v, p)
    BY <2>2, <2>3 DEF construct_finalize
  <2> QED
    BY <2>4, CertificatesStay
<1> QED
  BY <1>1, <1>2

\* Every step keeps the invariant.
LEMMA VotesStep == ASSUME VotesInv, [Next]_votes PROVE VotesInv'
<1>1. TypeOK /\ TypeOK' /\ Cast
  BY TypePreserved, VotesStay DEF VotesInv
<1> QED
  BY <1>1, OneNotarizePreserved, OneVerdictPreserved, NotarizeBackedPreserved, FinalizeBackedPreserved
     DEF VotesInv

\* The invariant gives one notarization per view.
LEMMA UniqueNotarizationFollows == ASSUME VotesInv PROVE UniqueNotarization
<1> SUFFICES ASSUME NEW v \in Views, NEW p \in Voted(v), NEW q \in Voted(v),
                    Notarization(v, p), Notarization(v, q)
             PROVE  p = q
  BY DEF UniqueNotarization
<1>1. PICK P \in Quorums : \A m \in P \ Faulty : p \in notarized[m][v]
  BY DEF Notarization
<1>2. PICK Q \in Quorums : \A m \in Q \ Faulty : q \in notarized[m][v]
  BY DEF Notarization
<1> QED
  BY <1>1, <1>2, QuorumsMeet DEF VotesInv, OneNotarize

\* It gives that a finalized view is not nullified.
LEMMA FinalizedNotNullifiedFollows == ASSUME VotesInv PROVE FinalizedNotNullified
<1> SUFFICES ASSUME NEW v \in Views, NEW p \in Voted(v),
                    Finalization(v, p), Nullification(v)
             PROVE  FALSE
  BY DEF FinalizedNotNullified
<1>1. PICK P \in Quorums : \A m \in P \ Faulty : p \in finalized[m][v]
  BY DEF Finalization
<1>2. PICK Q \in Quorums : \A m \in Q \ Faulty : v \in nullified[m]
  BY DEF Nullification
<1>3. PICK m \in Honest : p \in finalized[m][v] /\ v \in nullified[m]
  BY <1>1, <1>2, QuorumsMeet
<1> QED
  BY <1>3 DEF VotesInv, OneVerdict

\* A finalized proposal is notarized.
LEMMA FinalizationNotarized ==
    ASSUME VotesInv, NEW v \in Views, NEW p, Finalization(v, p)
    PROVE  Notarization(v, p)
<1>1. PICK Q \in Quorums : \A m \in Q \ Faulty : p \in finalized[m][v]
  BY DEF Finalization
<1>2. PICK m \in Honest : m \in Q \ Faulty
  BY QuorumsMeet
<1> QED
  BY <1>1, <1>2 DEF VotesInv, FinalizeBacked

\* It gives that a finalized block is not skipped.
LEMMA FinalizedNotSkippedFollows == ASSUME VotesInv PROVE FinalizedNotSkipped
<1> SUFFICES ASSUME NEW v \in Views, NEW p \in Voted(v), Finalization(v, p)
             PROVE  /\ Notarization(v, p)
                    /\ \A w \in (v + 1)..MaxView : \A q \in Voted(w) :
                          Notarization(w, q) => q.parent >= v
  BY DEF FinalizedNotSkipped
<1>2. Notarization(v, p)
  BY FinalizationNotarized
<1>3. ASSUME NEW w \in (v + 1)..MaxView, NEW q \in Voted(w), q.parent < v
      PROVE  FALSE
  <2>1. w \in Views /\ v \in Nat /\ MaxView \in Nat
    BY ViewAssumption DEF Views
  <2>2. PICK m \in Honest : q \in notarized[m][w]
    BY DEF Voted
  <2>3. parent_payload(w, q) /\ q \in Proposals
    BY <2>1, <2>2 DEF VotesInv, NotarizeBacked, TypeOK
  <2>4. q.parent \in Nat
    BY <2>3, ViewAssumption DEF Proposals
  <2>5. v \in (q.parent + 1)..(w - 1)
    BY <1>3, <2>1, <2>4
  <2>6. Nullification(v)
    BY <2>3, <2>5 DEF parent_payload
  <2> QED
    BY <2>6, FinalizedNotNullifiedFollows DEF FinalizedNotNullified
<1>4. ASSUME NEW w \in (v + 1)..MaxView, NEW q \in Voted(w)
      PROVE  q.parent >= v
  <2>1. w \in Views /\ v \in Nat
    BY ViewAssumption DEF Views
  <2>2. q \in Proposals
    BY <2>1 DEF Voted, VotesInv, TypeOK
  <2>3. q.parent \in Nat
    BY <2>2, ViewAssumption DEF Proposals
  <2> QED
    BY <1>3, <2>1, <2>3
<1> QED
  BY <1>2, <1>4

\* The votes of every run keep the invariant, whatever the committee, the
\* quorum system, the faulty members and the number of views.
THEOREM VotesInvariant == Spec => []VotesInv
<1>1. Init => VotesInv
  BY VotesInit
<1>2. VotesInv /\ [Next]_votes => VotesInv'
  BY VotesStep
<1> QED
  BY <1>1, <1>2, PTL DEF Spec

\* Round::add_notarization's assumption: two notarizations of a view agree.
THEOREM NotarizationsAgree == Spec => []UniqueNotarization
<1>1. VotesInv => UniqueNotarization
  BY UniqueNotarizationFollows
<1> QED
  BY <1>1, VotesInvariant, PTL

\* What the leader's fallback rests on: a finalized view is never nullified.
THEOREM FinalizedIsNotNullified == Spec => []FinalizedNotNullified
<1>1. VotesInv => FinalizedNotNullified
  BY FinalizedNotNullifiedFollows
<1> QED
  BY <1>1, VotesInvariant, PTL

\* A finalized block stays below every later certificate.
THEOREM FinalizedIsNotSkipped == Spec => []FinalizedNotSkipped
<1>1. VotesInv => FinalizedNotSkipped
  BY FinalizedNotSkippedFollows
<1> QED
  BY <1>1, VotesInvariant, PTL
=============================================================================
