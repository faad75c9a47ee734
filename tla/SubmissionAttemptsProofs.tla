---------------------- MODULE SubmissionAttemptsProofs ----------------------
(***************************************************************************)
(* Proofs about the reservations of a prover's shard operations            *)
(* (SubmissionAttempts), for every set of filters, kinds and guards, every *)
(* retry and rejoin window and every epoch length.                         *)
(*                                                                         *)
(* What makes the fences inductive is a correspondence between the map and *)
(* what was published.  A reservation that is no longer in flight stands   *)
(* for a publication at the same frame, and a publication of the cycle's   *)
(* epoch is either past its fence or still has its reservation.            *)
(***************************************************************************)
EXTENDS SubmissionAttempts, TLAPS

-----------------------------------------------------------------------------
(* The inductive invariant.                                                *)

\* The clocks, the histories and what one reservation is.
ClocksHold ==
    /\ frame \in Nat /\ cycle \in Nat /\ cycle <= frame
    /\ scope \in Scopes
    /\ sent \subseteq Sent
    /\ \A s \in sent : s.epoch <= EpochOf(cycle)
    /\ DOMAIN confirms \subseteq Epoch \X Filter
    /\ \A c \in DOMAIN confirms : confirms[c] \in Nat

\* A reservation in flight was begun by this cycle or before it, and is
\* not yet fenced.
AttemptsHold ==
    /\ DOMAIN attempts \subseteq Key
    /\ attempts \in [DOMAIN attempts -> Attempt]
    /\ \A k \in DOMAIN attempts :
          attempts[k].inFlight =>
              /\ ~attempts[k].forEpoch
              /\ attempts[k].frame <= cycle
              /\ k.epoch <= EpochOf(cycle)

\* A live guard: its keys are of one epoch and one kind, all in flight, and
\* what it published of them was published after they were reserved.
GuardShape(G) ==
    /\ G = [keys |-> G.keys, published |-> G.published, epochFenced |-> G.epochFenced]
    /\ G.keys \subseteq Key
    /\ DOMAIN G.published \subseteq Filter
    /\ \A f \in DOMAIN G.published : G.published[f] \in Nat
    /\ G.epochFenced \subseteq Filter
    /\ \A k1, k2 \in G.keys : k1.epoch = k2.epoch /\ k1.kind = k2.kind

GuardOwns(G) ==
    \A k \in G.keys :
        /\ k \in DOMAIN attempts /\ attempts[k].inFlight
        /\ k.filter \in DOMAIN G.published => G.published[k.filter] >= attempts[k].frame

GuardsHold ==
    /\ DOMAIN guards \subseteq Guard
    /\ \A g \in DOMAIN guards : GuardShape(guards[g]) /\ GuardOwns(guards[g])

\* One reservation in flight per filter, and one guard for each.
Exclusive ==
    /\ \A k1, k2 \in DOMAIN attempts :
          attempts[k1].inFlight /\ attempts[k2].inFlight /\ k1.filter = k2.filter => k1 = k2
    /\ \A g1, g2 \in DOMAIN guards : guards[g1].keys \cap guards[g2].keys # {} => g1 = g2
    /\ \A k \in DOMAIN attempts :
          attempts[k].inFlight => \E g \in DOMAIN guards : k \in guards[g].keys

\* The publication a settled reservation stands for.
Matches(s, k, a) ==
    /\ s.epoch = k.epoch /\ s.filter = k.filter /\ s.kind = k.kind
    /\ s.frame = a.frame /\ s.forEpoch = a.forEpoch

\* Every reservation that is not in flight, of the cycle's epoch or the one
\* before, stands for a publication.
SettledWasSent ==
    \A k \in DOMAIN attempts :
        ~attempts[k].inFlight /\ k.epoch + 1 >= EpochOf(cycle) =>
            \E s \in sent : Matches(s, k, attempts[k])

\* A publication whose fence is over.
Expired(s) == cycle >= s.frame + RetryFrames /\ ~s.forEpoch

KeyOf(s) == [epoch |-> s.epoch, filter |-> s.filter, kind |-> s.kind]

\* Every publication of this epoch inside its fence has its reservation.
FencedIsReserved ==
    \A s \in sent :
        s.epoch = EpochOf(cycle) =>
            \/ Expired(s)
            \/ /\ KeyOf(s) \in DOMAIN attempts
               /\ ~attempts[KeyOf(s)].inFlight
               /\ Matches(s, KeyOf(s), attempts[KeyOf(s)])

IInv ==
    /\ ClocksHold
    /\ AttemptsHold
    /\ GuardsHold
    /\ Exclusive
    /\ SettledWasSent
    /\ FencedIsReserved
    /\ ConfirmRemembered

-----------------------------------------------------------------------------
(* Operators                                                               *)

\* An epoch is a number, and later frames are in later or equal epochs.
LEMMA EpochType == \A f \in Nat : EpochOf(f) \in Nat
  BY SubmissionAssumption DEF EpochOf

\* A later frame is of the same or a later epoch.
LEMMA EpochMonotone == \A f1, f2 \in Nat : f1 <= f2 => EpochOf(f1) <= EpochOf(f2)
  BY SubmissionAssumption DEF EpochOf

\* A reservation that does not hold its filter is settled, and of another
\* epoch or past its fence.
LEMMA NotOwned ==
  ASSUME NEW a \in Attempt, NEW e1 \in Epoch, NEW e2 \in Epoch, NEW f \in Nat,
         ~Owns(a, e1, e2, f)
  PROVE  /\ ~a.inFlight
         /\ e1 = e2 => ~a.forEpoch /\ f >= a.frame + RetryFrames
  BY SubmissionAssumption DEF Attempt, Epoch, Owns, SaturatingSub

\* A settled reservation of this epoch that owns its filter but does not
\* hold off a kind is of another kind and past its retry window.
LEMMA NotHeldOff ==
  ASSUME NEW a \in Attempt, NEW e1 \in Epoch, NEW f \in Nat, NEW k1, NEW k2,
         Owns(a, e1, e1, f), ~HoldsOff(a, k1, k2, e1, e1, f)
  PROVE  k1 # k2 /\ f >= a.frame + RetryFrames /\ ~a.inFlight
  BY SubmissionAssumption DEF Attempt, Epoch, Owns, HoldsOff, SaturatingSub

\* The entries after an insert.
LEMMA InsertedAt ==
  ASSUME NEW m, NEW new
  PROVE  /\ DOMAIN Inserted(m, new) = DOMAIN m \cup DOMAIN new
         /\ \A x \in DOMAIN new : Inserted(m, new)[x] = new[x]
         /\ \A x \in DOMAIN m : x \notin DOMAIN new => Inserted(m, new)[x] = m[x]
  BY DEF Inserted

\* The entries after a retain.
LEMMA RestrictAt ==
  ASSUME NEW m, NEW S
  PROVE  /\ DOMAIN Restrict(m, S) = S
         /\ \A x \in S : Restrict(m, S)[x] = m[x]
  BY DEF Restrict

-----------------------------------------------------------------------------
(* The invariant holds initially and every action keeps it.                *)

\* The initial state.
LEMMA InitInv == Init => IInv
  <1> SUFFICES ASSUME Init PROVE IInv
    OBVIOUS
  <1>1. /\ frame = 0 /\ cycle = 0 /\ scope \in Scopes /\ sent = {}
        /\ DOMAIN attempts = {} /\ DOMAIN guards = {} /\ DOMAIN confirms = {}
    BY DEF Init
  <1>2. attempts \in [DOMAIN attempts -> Attempt]
    BY DEF Init
  <1> QED
    BY <1>1, <1>2 DEF IInv, ClocksHold, AttemptsHold, GuardsHold, Exclusive,
          SettledWasSent, FencedIsReserved, ConfirmRemembered

\* A new frame keeps the invariant.
LEMMA TickInv == IInv /\ Tick => IInv'
  <1> SUFFICES ASSUME IInv, Tick PROVE IInv'
    OBVIOUS
  <1>1. frame' \in Nat /\ frame <= frame' /\ cycle <= frame' /\ frame \in Nat /\ cycle \in Nat
    BY DEF IInv, ClocksHold, Tick
  <1>2. EpochOf(frame) <= EpochOf(frame') /\ EpochOf(frame) \in Nat /\ EpochOf(frame') \in Nat
    BY <1>1, EpochType, EpochMonotone
  <1>3. UNCHANGED <<cycle, attempts, guards, confirms, sent, scope>>
    BY DEF Tick
  <1>4. ClocksHold'
    BY <1>1, <1>3 DEF IInv, ClocksHold
  <1>5. (AttemptsHold /\ GuardsHold /\ Exclusive /\ SettledWasSent /\ FencedIsReserved)'
    BY <1>3 DEF IInv, AttemptsHold, GuardsHold, GuardOwns, Exclusive, SettledWasSent,
          FencedIsReserved, Expired
  <1>6. ConfirmRemembered'
    <2> SUFFICES ASSUME NEW s \in sent, s.kind = "Confirm", EpochOf(frame') <= s.epoch + 1
                 PROVE  /\ <<s.epoch, s.filter>> \in DOMAIN confirms
                        /\ confirms[<<s.epoch, s.filter>>] >= s.frame
      BY <1>3 DEF ConfirmRemembered
    <2>1. s.epoch \in Nat
      BY DEF IInv, ClocksHold, Sent, Epoch
    <2> QED
      BY <2>1, <1>2 DEF IInv, ConfirmRemembered
  <1> QED
    BY <1>4, <1>5, <1>6 DEF IInv

\* The epoch moves on: what an older publication fenced, or a settled
\* reservation of an older epoch, no longer matters.
LEMMA NextCycleInv == IInv /\ NextCycle => IInv'
  <1> SUFFICES ASSUME IInv, NextCycle PROVE IInv'
    OBVIOUS
  <1>1. /\ frame \in Nat /\ cycle \in Nat /\ cycle' = frame /\ cycle <= cycle'
        /\ UNCHANGED <<frame, attempts, guards, confirms, scope>>
        /\ sent' = {s \in sent : s.epoch + 1 >= EpochOf(cycle')}
    BY DEF IInv, ClocksHold, NextCycle
  <1>2. EpochOf(cycle) <= EpochOf(cycle') /\ EpochOf(cycle) \in Nat /\ EpochOf(cycle') \in Nat
    BY <1>1, EpochType, EpochMonotone
  <1>3. \A s \in sent : s.epoch \in Nat /\ s.frame \in Nat
    BY DEF IInv, ClocksHold, Sent, Epoch
  <1>4. ClocksHold'
    BY <1>1, <1>2, <1>3 DEF IInv, ClocksHold
  <1>5. AttemptsHold'
    <2> SUFFICES ASSUME NEW k \in DOMAIN attempts, attempts[k].inFlight
                 PROVE  /\ ~attempts[k].forEpoch
                        /\ attempts[k].frame <= cycle'
                        /\ k.epoch <= EpochOf(cycle')
      BY <1>1 DEF IInv, AttemptsHold
    <2>1. attempts[k].frame \in Nat /\ k.epoch \in Nat
      BY DEF IInv, AttemptsHold, Attempt, Key, Epoch
    <2> QED
      BY <1>1, <1>2, <2>1 DEF IInv, AttemptsHold
  <1>6. GuardsHold' /\ Exclusive'
    BY <1>1 DEF IInv, GuardsHold, GuardOwns, Exclusive
  <1>7. SettledWasSent'
    <2> SUFFICES ASSUME NEW k \in DOMAIN attempts, ~attempts[k].inFlight,
                        k.epoch + 1 >= EpochOf(cycle')
                 PROVE  \E s \in sent' : Matches(s, k, attempts[k])
      BY <1>1 DEF SettledWasSent
    <2>1. k.epoch \in Nat
      BY DEF IInv, AttemptsHold, Key, Epoch
    <2>2. PICK s \in sent : Matches(s, k, attempts[k])
      BY <1>2, <2>1 DEF IInv, SettledWasSent
    <2> QED
      BY <1>1, <2>2 DEF Matches
  <1>8. FencedIsReserved'
    <2> SUFFICES ASSUME NEW s \in sent, s.epoch = EpochOf(cycle')
                 PROVE  \/ cycle' >= s.frame + RetryFrames /\ ~s.forEpoch
                        \/ /\ KeyOf(s) \in DOMAIN attempts
                           /\ ~attempts[KeyOf(s)].inFlight
                           /\ Matches(s, KeyOf(s), attempts[KeyOf(s)])
      BY <1>1 DEF FencedIsReserved, Expired
    <2>1. s.epoch <= EpochOf(cycle)
      BY DEF IInv, ClocksHold
    <2>2. s.epoch = EpochOf(cycle)
      BY <1>2, <1>3, <2>1
    <2> QED
      BY <1>1, <1>3, <2>2, SubmissionAssumption DEF IInv, FencedIsReserved, Expired
  <1>9. ConfirmRemembered'
    BY <1>1 DEF IInv, ConfirmRemembered
  <1> QED
    BY <1>4, <1>5, <1>6, <1>7, <1>8, <1>9 DEF IInv

\* What a guard publishes: entries of its own keys at the node's frame,
\* which is not before the cycle that reserved them.
LEMMA PublishedInv ==
  ASSUME IInv, NEW g \in DOMAIN guards, NEW G, NEW filters \in SUBSET Filter,
         NEW fenced \in SUBSET Filter,
         G = [keys |-> guards[g].keys,
              published |-> Inserted(guards[g].published,
                                     [f \in OwnedBy(g, filters) |-> frame]),
              epochFenced |-> fenced],
         guards' = [guards EXCEPT ![g] = G],
         UNCHANGED <<frame, cycle, attempts, confirms, sent, scope>>
  PROVE  IInv'
  <1> DEFINE new == [f \in OwnedBy(g, filters) |-> frame]
             pub == guards[g].published
  <1>1. GuardShape(guards[g]) /\ GuardOwns(guards[g])
    BY DEF IInv, GuardsHold
  <1>2. frame \in Nat /\ cycle \in Nat /\ cycle <= frame
    BY DEF IInv, ClocksHold
  <1>3. DOMAIN new \subseteq Filter /\ \A f \in DOMAIN new : new[f] = frame
    BY <1>1 DEF OwnedBy, GuardShape, Key
  <1>4. /\ DOMAIN Inserted(pub, new) = DOMAIN pub \cup DOMAIN new
        /\ \A f \in DOMAIN new : Inserted(pub, new)[f] = new[f]
        /\ \A f \in DOMAIN pub : f \notin DOMAIN new => Inserted(pub, new)[f] = pub[f]
    BY InsertedAt
  <1> HIDE DEF new, pub
  <1>5. GuardShape(G)
    BY <1>1, <1>2, <1>3, <1>4 DEF GuardShape, new, pub
  <1>6. GuardOwns(G)
    <2> SUFFICES ASSUME NEW k \in guards[g].keys
                 PROVE  /\ k \in DOMAIN attempts /\ attempts[k].inFlight
                        /\ k.filter \in DOMAIN Inserted(pub, new) =>
                              Inserted(pub, new)[k.filter] >= attempts[k].frame
      BY DEF GuardOwns, new, pub
    <2>1. k \in DOMAIN attempts /\ attempts[k].inFlight
      BY <1>1 DEF GuardOwns
    <2>2. attempts[k].frame <= cycle /\ attempts[k].frame \in Nat
      BY <2>1 DEF IInv, AttemptsHold, Attempt
    <2>3. k.filter \in DOMAIN pub => pub[k.filter] >= attempts[k].frame
      BY <1>1 DEF GuardOwns, pub
    <2> QED
      BY <1>2, <1>3, <1>4, <2>1, <2>2, <2>3
  <1>7. /\ DOMAIN guards' = DOMAIN guards
        /\ guards'[g] = G
        /\ \A h \in DOMAIN guards : h # g => guards'[h] = guards[h]
    OBVIOUS
  <1>8. \A h \in DOMAIN guards : guards'[h].keys = guards[h].keys
    BY <1>7
  <1>9. GuardsHold'
    BY <1>5, <1>6, <1>7 DEF IInv, GuardsHold, GuardOwns
  <1>10. Exclusive'
    BY <1>7, <1>8 DEF IInv, Exclusive
  <1> QED
    BY <1>9, <1>10 DEF IInv, ClocksHold, AttemptsHold, SettledWasSent, FencedIsReserved,
          Expired, ConfirmRemembered

\* A guard with one field replaced, and two.
LEMMA GuardWith ==
  ASSUME NEW R, GuardShape(R), NEW new
  PROVE  /\ [R EXCEPT !.keys = new] =
              [keys |-> new, published |-> R.published, epochFenced |-> R.epochFenced]
         /\ [R EXCEPT !.published = new] =
              [keys |-> R.keys, published |-> new, epochFenced |-> R.epochFenced]
         /\ \A fenced : [R EXCEPT !.published = new, !.epochFenced = fenced] =
              [keys |-> R.keys, published |-> new, epochFenced |-> fenced]
  <1>1. PICK a, b, c : R = [keys |-> a, published |-> b, epochFenced |-> c]
    BY DEF GuardShape
  <1>2. [R EXCEPT !.keys = new] = [keys |-> new, published |-> b, epochFenced |-> c]
    BY <1>1
  <1>3. [R EXCEPT !.published = new] = [keys |-> a, published |-> new, epochFenced |-> c]
    BY <1>1
  <1>4. ASSUME NEW fenced
        PROVE  [R EXCEPT !.published = new, !.epochFenced = fenced] =
                 [keys |-> a, published |-> new, epochFenced |-> fenced]
    <2> DEFINE S == [keys |-> a, published |-> new, epochFenced |-> c]
    <2>1. [S EXCEPT !.epochFenced = fenced] =
            [keys |-> a, published |-> new, epochFenced |-> fenced]
      OBVIOUS
    <2> QED
      BY <1>3, <2>1
  <1>5. R.keys = a /\ R.published = b /\ R.epochFenced = c
    BY <1>1
  <1> QED
    BY <1>2, <1>3, <1>4, <1>5

\* A fence keeps it.
LEMMA FenceInv ==
  ASSUME IInv, NEW g \in Guard, NEW filters \in SUBSET Filter, Fence(g, filters)
  PROVE  IInv'
  <1> DEFINE G == [keys |-> guards[g].keys,
                   published |-> Inserted(guards[g].published,
                                          [f \in OwnedBy(g, filters) |-> frame]),
                   epochFenced |-> guards[g].epochFenced]
  <1>1. g \in DOMAIN guards
    BY DEF Fence
  <1>2. GuardShape(guards[g])
    BY <1>1 DEF IInv, GuardsHold
  <1>3. guards[g].epochFenced \in SUBSET Filter
    BY <1>2 DEF GuardShape
  <1>4. guards' = [guards EXCEPT ![g] = [guards[g] EXCEPT !.published =
                                  Inserted(guards[g].published, [f \in OwnedBy(g, filters) |-> frame])]]
    BY DEF Fence
  <1>6. guards' = [guards EXCEPT ![g] = G]
    BY <1>1, <1>2, <1>4, GuardWith
  <1>5. UNCHANGED <<frame, cycle, attempts, confirms, sent, scope>>
    BY DEF Fence
  <1> QED
    BY <1>1, <1>3, <1>5, <1>6, PublishedInv

\* A fence for the epoch keeps it.
LEMMA FenceForEpochInv ==
  ASSUME IInv, NEW g \in Guard, NEW filters \in SUBSET Filter, FenceForEpoch(g, filters)
  PROVE  IInv'
  <1> DEFINE new == Inserted(guards[g].published, [f \in OwnedBy(g, filters) |-> frame])
             fenced == guards[g].epochFenced \cup (filters \cap DOMAIN new)
             G == [keys |-> guards[g].keys, published |-> new, epochFenced |-> fenced]
  <1>1. g \in DOMAIN guards
    BY DEF FenceForEpoch
  <1>2. GuardShape(guards[g])
    BY <1>1 DEF IInv, GuardsHold
  <1>3. fenced \in SUBSET Filter
    BY <1>2 DEF GuardShape
  <1>4. guards' = [guards EXCEPT ![g].published = new,
                                 ![g].epochFenced = @ \cup (filters \cap DOMAIN new)]
    BY DEF FenceForEpoch
  <1>5. guards' = [guards EXCEPT ![g] = G]
    <2> DEFINE R1 == [keys |-> guards[g].keys, published |-> new,
                      epochFenced |-> guards[g].epochFenced]
               guards1 == [guards EXCEPT ![g] = R1]
    <2> HIDE DEF new
    <2>1. [guards EXCEPT ![g].published = new] = guards1
      BY <1>1, <1>2, GuardWith
    <2>2. guards' = [guards1 EXCEPT ![g].epochFenced = @ \cup (filters \cap DOMAIN new)]
      BY <1>4, <2>1
    <2>3. guards1[g] = R1
      BY <1>1
    <2>4. [R1 EXCEPT !.epochFenced = fenced] = G
      <3>1. \A a, b, c, d : [[keys |-> a, published |-> b, epochFenced |-> c]
                                EXCEPT !.epochFenced = d] =
                            [keys |-> a, published |-> b, epochFenced |-> d]
        OBVIOUS
      <3> HIDE DEF fenced
      <3> QED
        BY <3>1
    <2>5. guards' = [guards1 EXCEPT ![g] = G]
      BY <2>2, <2>3, <2>4
    <2> QED
      BY <2>5
  <1>6. UNCHANGED <<frame, cycle, attempts, confirms, sent, scope>>
    BY DEF FenceForEpoch
  <1> QED
    BY <1>1, <1>3, <1>5, <1>6, PublishedInv

\* What is released was in flight, so no publication loses its reservation.
LEMMA ReleaseInv ==
  ASSUME IInv, NEW g \in Guard, NEW filters \in SUBSET Filter, Release(g, filters)
  PROVE  IInv'
  <1> DEFINE released == {k \in guards[g].keys : k.filter \in filters}
             G == [keys |-> guards[g].keys \ released, published |-> guards[g].published,
                   epochFenced |-> guards[g].epochFenced]
  <1>1. g \in DOMAIN guards
    BY DEF Release
  <1>2. GuardShape(guards[g]) /\ GuardOwns(guards[g])
    BY <1>1 DEF IInv, GuardsHold
  <1>3. attempts' = Restrict(attempts, DOMAIN attempts \ released)
    BY DEF Release
  <1>4. guards' = [guards EXCEPT ![g].keys = @ \ released]
    BY DEF Release
  <1>5. UNCHANGED <<frame, cycle, confirms, sent, scope>>
    BY DEF Release
  <1>6. released \subseteq guards[g].keys
    OBVIOUS
  <1> HIDE DEF released
  <1>7. guards' = [guards EXCEPT ![g] = G]
    BY <1>1, <1>2, <1>4, GuardWith
  <1>8. /\ DOMAIN attempts' = DOMAIN attempts \ released
        /\ \A k \in DOMAIN attempts' : attempts'[k] = attempts[k]
    BY <1>3, RestrictAt
  <1>9. \A k \in released : k \in DOMAIN attempts /\ attempts[k].inFlight
    BY <1>2, <1>6 DEF GuardOwns
  <1>10. /\ DOMAIN guards' = DOMAIN guards
         /\ guards'[g] = G
         /\ \A h \in DOMAIN guards : h # g => guards'[h] = guards[h]
    <2> HIDE DEF G
    <2> QED
      BY <1>1, <1>7
  <1>11. \A h \in DOMAIN guards : guards'[h].keys = guards[h].keys \ released
    <2> SUFFICES ASSUME NEW h \in DOMAIN guards, h # g
                 PROVE  guards[h].keys \cap released = {}
      BY <1>10
    <2> QED
      BY <1>1, <1>6 DEF IInv, Exclusive
  <1>12. attempts' \in [DOMAIN attempts' -> Attempt]
    BY <1>3, <1>8 DEF IInv, AttemptsHold, Restrict
  <1>13. AttemptsHold'
    BY <1>5, <1>8, <1>12 DEF IInv, AttemptsHold
  <1>14. GuardsHold'
    <2> SUFFICES ASSUME NEW h \in DOMAIN guards
                 PROVE  (GuardShape(guards[h]) /\ GuardOwns(guards[h]))'
      BY <1>10 DEF IInv, GuardsHold
    <2>1. GuardShape(guards[h]) /\ GuardOwns(guards[h])
      BY DEF IInv, GuardsHold
    <2>2. GuardShape(guards[h])'
      BY <1>2, <1>10, <2>1 DEF GuardShape
    <2>3. guards'[h].published = guards[h].published
      BY <1>10
    <2> QED
      BY <1>8, <1>11, <2>1, <2>2, <2>3 DEF GuardOwns
  <1>15. Exclusive'
    <2>1. \A k1, k2 \in DOMAIN attempts' :
              attempts'[k1].inFlight /\ attempts'[k2].inFlight /\ k1.filter = k2.filter => k1 = k2
      BY <1>8 DEF IInv, Exclusive
    <2>2. \A g1, g2 \in DOMAIN guards' :
              guards'[g1].keys \cap guards'[g2].keys # {} => g1 = g2
      BY <1>10, <1>11 DEF IInv, Exclusive
    <2>3. ASSUME NEW k \in DOMAIN attempts', attempts'[k].inFlight
          PROVE  \E h \in DOMAIN guards' : k \in guards'[h].keys
      BY <1>8, <1>10, <1>11, <2>3 DEF IInv, Exclusive
    <2> QED
      BY <2>1, <2>2, <2>3 DEF Exclusive
  <1>16. SettledWasSent' /\ FencedIsReserved'
    BY <1>5, <1>8, <1>9 DEF IInv, SettledWasSent, FencedIsReserved, Expired
  <1>17. ClocksHold' /\ ConfirmRemembered'
    BY <1>5 DEF IInv, ClocksHold, ConfirmRemembered
  <1> QED
    BY <1>13, <1>14, <1>15, <1>16, <1>17 DEF IInv

\* A refused join loses its reservation and its publication together.
LEMMA ReleasePublishedJoinsInv ==
  ASSUME IInv, NEW filter, NEW joined, ReleasePublishedJoins(filter, joined)
  PROVE  IInv'
  <1> DEFINE window == joined .. (joined + RejoinWindow - 1)
             refused == {k \in DOMAIN attempts :
                            /\ k.kind = "Join" /\ k.filter = filter
                            /\ ~attempts[k].inFlight
                            /\ attempts[k].frame \in window}
  <1>1. attempts' = Restrict(attempts, DOMAIN attempts \ refused)
    BY DEF ReleasePublishedJoins
  <1>2. sent' = {s \in sent : ~(s.kind = "Join" /\ s.filter = filter /\ s.frame \in window)}
    BY DEF ReleasePublishedJoins
  <1>3. UNCHANGED <<frame, cycle, guards, confirms, scope>>
    BY DEF ReleasePublishedJoins
  <1>4. \A k \in DOMAIN attempts :
           k \in refused <=> /\ k.kind = "Join" /\ k.filter = filter
                             /\ ~attempts[k].inFlight
                             /\ attempts[k].frame \in window
    OBVIOUS
  <1> HIDE DEF window, refused
  <1>5. /\ DOMAIN attempts' = DOMAIN attempts \ refused
        /\ \A k \in DOMAIN attempts' : attempts'[k] = attempts[k]
    BY <1>1, RestrictAt
  <1>6. attempts' \in [DOMAIN attempts' -> Attempt]
    BY <1>1, <1>5 DEF IInv, AttemptsHold, Restrict
  <1>7. AttemptsHold'
    BY <1>3, <1>5, <1>6 DEF IInv, AttemptsHold
  <1>8. GuardsHold'
    BY <1>3, <1>4, <1>5 DEF IInv, GuardsHold, GuardOwns
  <1>9. Exclusive'
    BY <1>3, <1>5 DEF IInv, Exclusive
  <1>10. SettledWasSent'
    <2> SUFFICES ASSUME NEW k \in DOMAIN attempts', ~attempts[k].inFlight,
                        k.epoch + 1 >= EpochOf(cycle)
                 PROVE  \E s \in sent' : Matches(s, k, attempts[k])
      BY <1>3, <1>5 DEF SettledWasSent
    <2>1. PICK s \in sent : Matches(s, k, attempts[k])
      BY <1>5 DEF IInv, SettledWasSent
    <2> QED
      BY <1>2, <1>4, <1>5, <2>1 DEF Matches
  <1>11. FencedIsReserved'
    <2> SUFFICES ASSUME NEW s \in sent', s.epoch = EpochOf(cycle), ~Expired(s)
                 PROVE  /\ KeyOf(s) \in DOMAIN attempts'
                        /\ ~attempts[KeyOf(s)].inFlight
                        /\ Matches(s, KeyOf(s), attempts[KeyOf(s)])
      BY <1>3, <1>5 DEF FencedIsReserved, Expired
    <2>1. /\ KeyOf(s) \in DOMAIN attempts
          /\ ~attempts[KeyOf(s)].inFlight
          /\ Matches(s, KeyOf(s), attempts[KeyOf(s)])
      BY <1>2 DEF IInv, FencedIsReserved
    <2> QED
      BY <1>2, <1>4, <1>5, <2>1 DEF Matches
  <1>12. ClocksHold'
    BY <1>2, <1>3 DEF IInv, ClocksHold
  <1>13. ConfirmRemembered'
    BY <1>2, <1>3 DEF IInv, ConfirmRemembered
  <1> QED
    BY <1>7, <1>8, <1>9, <1>10, <1>11, <1>12, <1>13 DEF IInv

-----------------------------------------------------------------------------
(* begin_free                                                              *)

\* The reservations begin_free keeps, and the ones it makes.
Kept == {k \in DOMAIN attempts : Owns(attempts[k], k.epoch, EpochOf(cycle), cycle)}

Made(filters, kind) ==
    {[epoch |-> EpochOf(cycle), filter |-> f, kind |-> kind] :
         f \in {f \in filters : ~HeldOff(Restrict(attempts, Kept), f, kind, cycle)}}

\* Forgetting what does not own its filter loses nothing in flight, and no
\* publication inside its fence.
LEMMA KeptHolds ==
  ASSUME IInv
  PROVE  /\ \A k \in DOMAIN attempts : attempts[k].inFlight => k \in Kept
         /\ \A s \in sent : s.epoch = EpochOf(cycle) =>
              Expired(s) \/ (/\ KeyOf(s) \in Kept
                             /\ ~attempts[KeyOf(s)].inFlight
                             /\ Matches(s, KeyOf(s), attempts[KeyOf(s)]))
  <1>1. \A k \in DOMAIN attempts : attempts[k].inFlight => k \in Kept
    BY DEF Kept, Owns
  <1>2. ASSUME NEW s \in sent, s.epoch = EpochOf(cycle), ~Expired(s)
        PROVE  /\ KeyOf(s) \in Kept
               /\ ~attempts[KeyOf(s)].inFlight
               /\ Matches(s, KeyOf(s), attempts[KeyOf(s)])
    <2> DEFINE k == KeyOf(s)
    <2>1. /\ k \in DOMAIN attempts
          /\ ~attempts[k].inFlight
          /\ Matches(s, k, attempts[k])
      BY <1>2 DEF IInv, FencedIsReserved
    <2>2. k.epoch = EpochOf(cycle) /\ attempts[k] \in Attempt /\ cycle \in Nat
      BY <1>2, <2>1 DEF KeyOf, IInv, AttemptsHold, ClocksHold
    <2>3. ASSUME ~Owns(attempts[k], k.epoch, EpochOf(cycle), cycle) PROVE FALSE
      <3>1. EpochOf(cycle) \in Epoch /\ k.epoch \in Epoch
        BY <2>2, EpochType DEF Epoch
      <3>2. ~attempts[k].forEpoch /\ cycle >= attempts[k].frame + RetryFrames
        BY <2>2, <2>3, <3>1, NotOwned
      <3> QED
        BY <1>2, <2>1, <3>2 DEF Expired, Matches
    <2> QED
      BY <2>1, <2>3 DEF Kept
  <1> QED
    BY <1>1, <1>2

\* What begin_free reserves: keys of this epoch and kind, of filters that
\* nothing in flight is about, and never the key of a kept reservation.
LEMMA MadeHolds ==
  ASSUME IInv, NEW filters \in SUBSET Filter, NEW kind \in Kind,
         NEW m \in Made(filters, kind)
  PROVE  /\ m \in Key /\ m.filter \in filters
         /\ m.epoch = EpochOf(cycle) /\ m.kind = kind
         /\ \A k \in Kept : k.filter = m.filter =>
                ~HoldsOff(attempts[k], k.kind, kind, k.epoch, EpochOf(cycle), cycle)
         /\ \A k \in DOMAIN attempts : attempts[k].inFlight => k.filter # m.filter
         /\ m \notin Kept
  <1>1. PICK f \in filters : /\ ~HeldOff(Restrict(attempts, Kept), f, kind, cycle)
                             /\ m = [epoch |-> EpochOf(cycle), filter |-> f, kind |-> kind]
    BY DEF Made
  <1>2. cycle \in Nat /\ EpochOf(cycle) \in Nat
    BY EpochType DEF IInv, ClocksHold
  <1>3. /\ m \in Key /\ m.filter \in filters /\ m.filter = f
        /\ m.epoch = EpochOf(cycle) /\ m.kind = kind
    BY <1>1, <1>2 DEF Key, Epoch
  <1>4. \A k \in Kept : k.filter = m.filter =>
            ~HoldsOff(attempts[k], k.kind, kind, k.epoch, EpochOf(cycle), cycle)
    BY <1>1, <1>3, RestrictAt DEF HeldOff
  <1>5. ASSUME NEW k \in DOMAIN attempts, attempts[k].inFlight, k.filter = m.filter
        PROVE  FALSE
    <2>1. k \in Kept
      BY <1>5 DEF Kept, Owns
    <2> QED
      BY <1>4, <1>5, <2>1 DEF HoldsOff, Owns
  <1>6. m \notin Kept
    BY <1>3, <1>4 DEF HoldsOff, Kept
  <1> QED
    BY <1>3, <1>4, <1>5, <1>6

\* Reserving the free filters keeps it.
LEMMA BeginFreeInv ==
  ASSUME IInv, NEW g \in Guard, NEW filters \in SUBSET Filter, NEW kind \in Kind,
         BeginFree(g, filters, kind)
  PROVE  IInv'
  <1> DEFINE made == Made(filters, kind)
             begun == [k \in made |-> [frame |-> cycle, inFlight |-> TRUE, forEpoch |-> FALSE]]
             G == [keys |-> made, published |-> << >>, epochFenced |-> {}]
  <1>1. /\ g \notin DOMAIN guards
        /\ attempts' = Inserted(Restrict(attempts, Kept), begun)
        /\ guards' = IF made = {} THEN guards ELSE Inserted(guards, [h \in {g} |-> G])
        /\ UNCHANGED <<frame, cycle, confirms, sent, scope>>
    BY DEF BeginFree, Made, Kept
  <1>2. cycle \in Nat /\ EpochOf(cycle) \in Nat
    BY EpochType DEF IInv, ClocksHold
  <1>3. \A m \in made :
           /\ m \in Key /\ m.filter \in filters
           /\ m.epoch = EpochOf(cycle) /\ m.kind = kind
           /\ \A k \in DOMAIN attempts : attempts[k].inFlight => k.filter # m.filter
           /\ m \notin Kept
    BY MadeHolds
  <1>4. \A m \in made : begun[m].frame = cycle /\ begun[m].inFlight /\ ~begun[m].forEpoch
    OBVIOUS
  <1>5. \A m \in made : begun[m] \in Attempt
    BY <1>2 DEF Attempt
  <1>6. DOMAIN begun = made
    OBVIOUS
  <1>7. G.keys = made /\ GuardShape(G) /\ DOMAIN G.published = {}
    BY <1>3 DEF GuardShape
  <1> HIDE DEF made, begun, G
  <1>8. /\ DOMAIN attempts' = Kept \cup made
        /\ \A m \in made : attempts'[m] = begun[m]
        /\ \A k \in Kept : attempts'[k] = attempts[k]
    <2> DEFINE old == Restrict(attempts, Kept)
    <2>1. DOMAIN old = Kept /\ \A k \in Kept : old[k] = attempts[k]
      BY RestrictAt
    <2>2. attempts' = Inserted(old, begun)
      BY <1>1
    <2> HIDE DEF old
    <2>3. /\ DOMAIN attempts' = DOMAIN old \cup DOMAIN begun
          /\ \A x \in DOMAIN begun : attempts'[x] = begun[x]
          /\ \A x \in DOMAIN old : x \notin DOMAIN begun => attempts'[x] = old[x]
      BY <2>2 DEF Inserted
    <2> QED
      BY <1>3, <1>6, <2>1, <2>3
  <1>9. Kept \subseteq DOMAIN attempts
    BY DEF Kept
  <1>10. \A k \in DOMAIN attempts : attempts[k].inFlight => k \in Kept
    BY KeptHolds
  <1>11. AttemptsHold'
    <2>1. \A k \in DOMAIN attempts' : attempts'[k] \in Attempt /\ k \in Key
      BY <1>3, <1>5, <1>8, <1>9 DEF IInv, AttemptsHold
    <2>2. attempts' \in [DOMAIN attempts' -> Attempt]
      BY <1>1, <2>1 DEF Inserted
    <2>3. \A k \in DOMAIN attempts' : attempts'[k].inFlight =>
              /\ ~attempts'[k].forEpoch
              /\ attempts'[k].frame <= cycle
              /\ k.epoch <= EpochOf(cycle)
      BY <1>2, <1>3, <1>4, <1>8, <1>9 DEF IInv, AttemptsHold
    <2> QED
      BY <1>1, <2>1, <2>2, <2>3 DEF AttemptsHold
  <1>12. /\ DOMAIN guards' \subseteq DOMAIN guards \cup {g}
         /\ \A h \in DOMAIN guards : h \in DOMAIN guards' /\ guards'[h] = guards[h]
         /\ g \in DOMAIN guards' => guards'[g] = G
         /\ made # {} => g \in DOMAIN guards'
    <2> DEFINE one == [h \in {g} |-> G]
    <2>1. DOMAIN one = {g} /\ one[g] = G
      OBVIOUS
    <2> HIDE DEF one
    <2>2. CASE made = {}
      BY <1>1, <2>2
    <2>3. CASE made # {}
      <3>1. guards' = Inserted(guards, one)
        BY <1>1, <2>3 DEF one
      <3>2. /\ DOMAIN guards' = DOMAIN guards \cup DOMAIN one
            /\ \A x \in DOMAIN one : guards'[x] = one[x]
            /\ \A x \in DOMAIN guards : x \notin DOMAIN one => guards'[x] = guards[x]
        BY <3>1 DEF Inserted
      <3> QED
        BY <1>1, <2>1, <3>2
    <2> QED
      BY <2>2, <2>3
  <1>13. \A h \in DOMAIN guards : guards[h].keys \subseteq Kept
    BY <1>10 DEF IInv, GuardsHold, GuardOwns
  <1>14. GuardsHold'
    <2>1. DOMAIN guards' \subseteq Guard
      BY <1>12 DEF IInv, GuardsHold
    <2>2. ASSUME NEW h \in DOMAIN guards
          PROVE  (GuardShape(guards[h]) /\ GuardOwns(guards[h]))'
      BY <1>8, <1>12, <1>13 DEF IInv, GuardsHold, GuardOwns, GuardShape
    <2>3. ASSUME g \in DOMAIN guards'
          PROVE  (GuardShape(guards[g]) /\ GuardOwns(guards[g]))'
      BY <1>4, <1>7, <1>8, <1>12, <2>3 DEF GuardOwns, GuardShape
    <2> QED
      BY <1>12, <2>1, <2>2, <2>3 DEF GuardsHold
  <1>15. Exclusive'
    <2>1. \A k1, k2 \in DOMAIN attempts' :
              attempts'[k1].inFlight /\ attempts'[k2].inFlight /\ k1.filter = k2.filter => k1 = k2
      <3>1. \A k1, k2 \in Kept : attempts[k1].inFlight /\ attempts[k2].inFlight
                                    /\ k1.filter = k2.filter => k1 = k2
        BY <1>9 DEF IInv, Exclusive
      <3>2. \A m1, m2 \in made : m1.filter = m2.filter => m1 = m2
        BY <1>3 DEF Key
      <3> QED
        BY <1>3, <1>8, <1>9, <3>1, <3>2
    <2>2. \A g1, g2 \in DOMAIN guards' :
              guards'[g1].keys \cap guards'[g2].keys # {} => g1 = g2
      <3>1. \A g1, g2 \in DOMAIN guards : guards[g1].keys \cap guards[g2].keys # {} => g1 = g2
        BY DEF IInv, Exclusive
      <3>2. \A h \in DOMAIN guards : guards[h].keys \cap made = {}
        BY <1>3, <1>13
      <3> QED
        BY <1>7, <1>12, <3>1, <3>2
    <2>3. ASSUME NEW k \in DOMAIN attempts', attempts'[k].inFlight
          PROVE  \E h \in DOMAIN guards' : k \in guards'[h].keys
      <3>1. CASE k \in made
        BY <1>7, <1>12, <3>1
      <3>2. CASE k \in Kept
        <4>1. \E h \in DOMAIN guards : k \in guards[h].keys
          BY <1>8, <1>9, <2>3, <3>2 DEF IInv, Exclusive
        <4> QED
          BY <1>12, <4>1
      <3> QED
        BY <1>8, <3>1, <3>2
    <2> QED
      BY <2>1, <2>2, <2>3 DEF Exclusive
  <1>16. SettledWasSent'
    BY <1>1, <1>4, <1>8, <1>9 DEF IInv, SettledWasSent
  <1>17. FencedIsReserved'
    <2> SUFFICES ASSUME NEW s \in sent, s.epoch = EpochOf(cycle), ~Expired(s)
                 PROVE  /\ KeyOf(s) \in DOMAIN attempts'
                        /\ ~attempts'[KeyOf(s)].inFlight
                        /\ Matches(s, KeyOf(s), attempts'[KeyOf(s)])
      BY <1>1 DEF FencedIsReserved, Expired
    <2> QED
      BY <1>8, KeptHolds
  <1>18. ClocksHold' /\ ConfirmRemembered'
    BY <1>1 DEF IInv, ClocksHold, ConfirmRemembered
  <1> QED
    BY <1>11, <1>14, <1>15, <1>16, <1>17, <1>18 DEF IInv

-----------------------------------------------------------------------------
(* Drop                                                                    *)

Done(g) == {k \in guards[g].keys : k.filter \in DOMAIN guards[g].published}

SentOf(g, k) ==
    [epoch |-> k.epoch, filter |-> k.filter, kind |-> k.kind,
     frame |-> guards[g].published[k.filter],
     forEpoch |-> k.filter \in guards[g].epochFenced]

\* What the guard leaves in the map: every published key, settled at the
\* frame it was published, and what other guards and publications hold.
LEMMA SettledAt ==
  ASSUME IInv, NEW g \in DOMAIN guards, NEW A, A = SettledAttempts(g)
  PROVE  /\ DOMAIN A = DOMAIN attempts \ (guards[g].keys \ Done(g))
         /\ \A k \in DOMAIN A : k \notin guards[g].keys => A[k] = attempts[k]
         /\ Done(g) \subseteq DOMAIN A
         /\ \A k \in Done(g) :
               /\ A[k] \in Attempt /\ ~A[k].inFlight
               /\ Matches(SentOf(g, k), k, A[k])
         /\ A \in [DOMAIN A -> Attempt]
  <1> DEFINE G == guards[g]
             lost == {k \in G.keys : k.filter \notin DOMAIN G.published}
             settled(k) == [frame |-> MaxOf(attempts[k].frame, G.published[k.filter]),
                            inFlight |-> FALSE,
                            forEpoch |-> attempts[k].forEpoch \/ k.filter \in G.epochFenced]
  <1>1. GuardShape(G) /\ GuardOwns(G)
    BY DEF IInv, GuardsHold
  <1>2. A = [k \in DOMAIN attempts \ lost |-> IF k \in G.keys THEN settled(k) ELSE attempts[k]]
    BY DEF SettledAttempts
  <1>3. lost = guards[g].keys \ Done(g) /\ Done(g) \subseteq G.keys
    BY DEF Done
  <1>4. Done(g) \subseteq DOMAIN attempts
    BY <1>1, <1>3 DEF GuardOwns
  <1>5. ASSUME NEW k \in Done(g)
        PROVE  /\ settled(k) \in Attempt /\ ~settled(k).inFlight
               /\ Matches(SentOf(g, k), k, settled(k))
    <2>1. k \in G.keys /\ k \in DOMAIN attempts /\ k.filter \in DOMAIN G.published
      BY <1>4 DEF Done
    <2>2. attempts[k].inFlight /\ G.published[k.filter] >= attempts[k].frame
      BY <1>1, <2>1 DEF GuardOwns
    <2>3. attempts[k] \in Attempt /\ ~attempts[k].forEpoch
      BY <2>1, <2>2 DEF IInv, AttemptsHold
    <2>4. G.published[k.filter] \in Nat
      BY <1>1, <2>1 DEF GuardShape
    <2>5. attempts[k].frame \in Nat /\ attempts[k].forEpoch = FALSE
      BY <2>3 DEF Attempt
    <2>6. MaxOf(attempts[k].frame, G.published[k.filter]) = G.published[k.filter]
      BY <2>2, <2>4, <2>5 DEF MaxOf
    <2>7. settled(k) = [frame |-> G.published[k.filter], inFlight |-> FALSE,
                        forEpoch |-> k.filter \in G.epochFenced]
      <3>1. (attempts[k].forEpoch \/ k.filter \in G.epochFenced) = (k.filter \in G.epochFenced)
        BY <2>5
      <3> QED
        BY <2>6, <3>1, Zenon
    <2> QED
      BY <2>4, <2>7 DEF Attempt, Matches, SentOf
  <1> HIDE DEF lost, settled, G
  <1>6. DOMAIN A = DOMAIN attempts \ lost
    BY <1>2
  <1>7. \A k \in DOMAIN A : k \notin G.keys => A[k] = attempts[k]
    BY <1>2, <1>6
  <1>8. Done(g) \subseteq DOMAIN A
    BY <1>3, <1>4, <1>6
  <1>9. \A k \in Done(g) : A[k] = settled(k)
    BY <1>2, <1>3, <1>6, <1>8
  <1>10. \A k \in DOMAIN A : A[k] \in Attempt
    <2> SUFFICES ASSUME NEW k \in DOMAIN A PROVE A[k] \in Attempt
      OBVIOUS
    <2>1. CASE k \in Done(g)
      BY <1>5, <1>9, <2>1
    <2>2. CASE k \notin Done(g)
      <3>1. k \notin G.keys /\ k \in DOMAIN attempts
        BY <1>3, <1>6, <2>2 DEF G
      <3> QED
        BY <1>7, <3>1 DEF IInv, AttemptsHold
    <2> QED
      BY <2>1, <2>2
  <1>11. A \in [DOMAIN A -> Attempt]
    BY <1>2, <1>10
  <1> QED
    BY <1>3, <1>5, <1>6, <1>7, <1>8, <1>9, <1>11 DEF G

\* A confirm is remembered from the drop of its guard, and the drop of a
\* later one forgets only confirms two epochs old.
LEMMA DropConfirms ==
  ASSUME IInv, NEW g, Drop(g)
  PROVE  /\ DOMAIN confirms' \subseteq Epoch \X Filter
         /\ \A c \in DOMAIN confirms' : confirms'[c] \in Nat
         /\ ConfirmRemembered'
  <1> DEFINE G == guards[g]
             confirmed == {k \in Done(g) : k.kind = "Confirm"}
             epoch == (CHOOSE k \in confirmed : TRUE).epoch
             pub == [c \in {<<epoch, k.filter>> : k \in confirmed} |-> G.published[c[2]]]
  <1>1. /\ g \in DOMAIN guards
        /\ confirms' = IF confirmed = {} THEN confirms ELSE Remembered(epoch, pub)
        /\ sent' = sent \cup {SentOf(g, k) : k \in Done(g)}
        /\ UNCHANGED <<frame, cycle>>
    BY DEF Drop, Done, SentOf
  <1>2. GuardShape(G) /\ GuardOwns(G)
    BY <1>1 DEF IInv, GuardsHold
  <1>3. /\ DOMAIN confirms \subseteq Epoch \X Filter
        /\ \A c \in DOMAIN confirms : confirms[c] \in Nat
        /\ sent \subseteq Sent
        /\ frame \in Nat /\ cycle \in Nat /\ cycle <= frame
    BY DEF IInv, ClocksHold
  <1>4. /\ EpochOf(cycle) \in Nat /\ EpochOf(frame) \in Nat
        /\ EpochOf(cycle) <= EpochOf(frame)
    BY <1>3, EpochType, EpochMonotone
  <1>5. CASE confirmed = {}
    <2>1. \A k \in Done(g) : SentOf(g, k).kind # "Confirm"
      BY <1>5 DEF SentOf
    <2>2. confirms' = confirms /\ frame' = frame
      BY <1>1, <1>5
    <2>3. \A s \in sent' : s.kind = "Confirm" => s \in sent
      BY <1>1, <2>1
    <2> QED
      BY <1>3, <2>2, <2>3 DEF IInv, ConfirmRemembered
  <1>6. CASE confirmed # {}
    <2>1. PICK k0 \in confirmed : epoch = k0.epoch
      BY <1>6
    <2> HIDE DEF epoch
    <2>2. \A k \in Done(g) : k \in G.keys /\ k \in Key /\ k.filter \in DOMAIN G.published
      BY <1>2 DEF Done, GuardShape
    <2>3. k0 \in Done(g) /\ k0.kind = "Confirm"
      BY <2>1
    <2>4. \A k \in Done(g) : k.epoch = epoch /\ k.kind = "Confirm"
      BY <1>2, <2>1, <2>2, <2>3 DEF GuardShape
    <2>5. epoch \in Nat /\ epoch <= EpochOf(cycle)
      BY <1>2, <2>1, <2>2, <2>3 DEF GuardOwns, IInv, AttemptsHold, Key, Epoch
    <2>6. confirmed = Done(g)
      BY <2>4
    <2>7. DOMAIN pub = {<<epoch, k.filter>> : k \in Done(g)}
      BY <2>6
    <2>8. \A k \in Done(g) : pub[<<epoch, k.filter>>] = G.published[k.filter]
      BY <2>6
    <2>9. DOMAIN pub \subseteq Epoch \X Filter /\ \A c \in DOMAIN pub : pub[c] \in Nat
      <3>1. \A k \in Done(g) : k.filter \in Filter /\ G.published[k.filter] \in Nat
        BY <1>2, <2>2 DEF Key, GuardShape
      <3> HIDE DEF pub
      <3> QED
        BY <2>5, <2>7, <2>8, <3>1 DEF Epoch
    <2>10. confirms' = Remembered(epoch, pub)
      BY <1>1, <1>6
    <2> DEFINE kept == {c \in DOMAIN confirms : c[1] + 1 >= epoch}
    <2> HIDE DEF pub, confirmed, G
    <2>11. confirms' = [c \in DOMAIN pub \cup kept |->
                          IF c \in DOMAIN pub /\ c \in kept THEN MaxOf(pub[c], confirms[c])
                          ELSE IF c \in kept THEN confirms[c] ELSE pub[c]]
      BY <2>10 DEF Remembered
    <2>12. /\ DOMAIN confirms' = DOMAIN pub \cup kept
           /\ \A c \in DOMAIN pub : confirms'[c] \in Nat /\ confirms'[c] >= pub[c]
           /\ \A c \in kept : confirms'[c] \in Nat /\ confirms'[c] >= confirms[c]
      <3>1. \A c \in kept : c \in DOMAIN confirms /\ confirms[c] \in Nat
        BY <1>3
      <3> HIDE DEF kept
      <3> QED
        BY <2>9, <2>11, <3>1 DEF MaxOf
    <2>13. /\ DOMAIN confirms' \subseteq Epoch \X Filter
           /\ \A c \in DOMAIN confirms' : confirms'[c] \in Nat
      BY <1>3, <2>9, <2>12
    <2>14. ASSUME NEW s \in sent', s.kind = "Confirm", EpochOf(frame) <= s.epoch + 1
           PROVE  /\ <<s.epoch, s.filter>> \in DOMAIN confirms'
                  /\ confirms'[<<s.epoch, s.filter>>] >= s.frame
      <3> DEFINE c == <<s.epoch, s.filter>>
      <3>1. CASE s \in sent
        <4>1. s.epoch \in Nat /\ s.frame \in Nat
          BY <1>3, <3>1 DEF Sent, Epoch
        <4>2. c \in DOMAIN confirms /\ confirms[c] >= s.frame
          BY <2>14, <3>1 DEF IInv, ConfirmRemembered
        <4>3. c \in kept
          BY <1>4, <2>5, <2>14, <4>1, <4>2
        <4>4. confirms[c] \in Nat
          BY <1>3, <4>2
        <4> HIDE DEF kept, c
        <4>5. confirms'[c] >= s.frame /\ c \in DOMAIN confirms'
          BY <2>12, <4>1, <4>2, <4>3, <4>4
        <4> QED
          BY <4>5 DEF c
      <3>2. CASE s \notin sent
        <4>1. PICK k \in Done(g) : s = SentOf(g, k)
          BY <1>1, <3>2
        <4>2. s.epoch = epoch /\ s.filter = k.filter /\ s.frame = G.published[k.filter]
          BY <2>4, <4>1 DEF SentOf, G
        <4>3. c \in DOMAIN pub /\ pub[c] = s.frame
          BY <2>7, <2>8, <4>2
        <4> HIDE DEF kept, c
        <4>4. confirms'[c] >= s.frame /\ c \in DOMAIN confirms'
          BY <2>12, <4>3
        <4> QED
          BY <4>4 DEF c
      <3> QED
        BY <3>1, <3>2
    <2> QED
      BY <1>1, <2>13, <2>14 DEF ConfirmRemembered
  <1> QED
    BY <1>5, <1>6

\* Dropping a guard keeps it.
LEMMA DropInv ==
  ASSUME IInv, NEW g, Drop(g)
  PROVE  IInv'
  <1>1. /\ g \in DOMAIN guards
        /\ attempts' = SettledAttempts(g)
        /\ sent' = sent \cup {SentOf(g, k) : k \in Done(g)}
        /\ guards' = Restrict(guards, DOMAIN guards \ {g})
        /\ UNCHANGED <<frame, cycle, scope>>
    BY DEF Drop, Done, SentOf
  <1>2. /\ DOMAIN attempts' = DOMAIN attempts \ (guards[g].keys \ Done(g))
        /\ \A k \in DOMAIN attempts' : k \notin guards[g].keys => attempts'[k] = attempts[k]
        /\ Done(g) \subseteq DOMAIN attempts'
        /\ \A k \in Done(g) :
              /\ attempts'[k] \in Attempt /\ ~attempts'[k].inFlight
              /\ Matches(SentOf(g, k), k, attempts'[k])
        /\ attempts' \in [DOMAIN attempts' -> Attempt]
    BY <1>1, SettledAt
  <1>3. /\ DOMAIN guards' = DOMAIN guards \ {g}
        /\ \A h \in DOMAIN guards' : guards'[h] = guards[h]
    BY <1>1, RestrictAt
  <1>4. GuardShape(guards[g]) /\ GuardOwns(guards[g])
    BY <1>1 DEF IInv, GuardsHold
  <1>5. \A k \in DOMAIN attempts' :
            k \in DOMAIN attempts /\ (k \in guards[g].keys <=> k \in Done(g))
    BY <1>2 DEF Done
  <1>6. \A k \in DOMAIN attempts' : attempts'[k].inFlight =>
            k \notin guards[g].keys /\ attempts'[k] = attempts[k]
    BY <1>2, <1>5
  <1>7. AttemptsHold'
    BY <1>1, <1>2, <1>5, <1>6 DEF IInv, AttemptsHold
  <1>8. \A h \in DOMAIN guards' : guards[h].keys \cap guards[g].keys = {}
    BY <1>1, <1>3 DEF IInv, Exclusive
  <1>9. GuardsHold'
    <2>1. ASSUME NEW h \in DOMAIN guards'
          PROVE  (GuardShape(guards[h]) /\ GuardOwns(guards[h]))'
      <3>1. GuardShape(guards[h]) /\ GuardOwns(guards[h])
        BY <1>3 DEF IInv, GuardsHold
      <3>2. GuardOwns(guards[h])'
        BY <1>2, <1>3, <1>8, <3>1 DEF GuardOwns
      <3>3. GuardShape(guards[h])'
        BY <1>3, <3>1 DEF GuardShape
      <3> QED
        BY <3>2, <3>3
    <2> QED
      BY <1>3, <2>1 DEF IInv, GuardsHold
  <1>10. Exclusive'
    <2>1. \A k1, k2 \in DOMAIN attempts' :
              attempts'[k1].inFlight /\ attempts'[k2].inFlight /\ k1.filter = k2.filter => k1 = k2
      BY <1>5, <1>6 DEF IInv, Exclusive
    <2>2. \A g1, g2 \in DOMAIN guards' :
              guards'[g1].keys \cap guards'[g2].keys # {} => g1 = g2
      BY <1>3 DEF IInv, Exclusive
    <2>3. ASSUME NEW k \in DOMAIN attempts', attempts'[k].inFlight
          PROVE  \E h \in DOMAIN guards' : k \in guards'[h].keys
      <3>1. PICK h \in DOMAIN guards : k \in guards[h].keys
        BY <1>5, <1>6, <2>3 DEF IInv, Exclusive
      <3> QED
        BY <1>3, <1>6, <2>3, <3>1
    <2> QED
      BY <2>1, <2>2, <2>3 DEF Exclusive
  <1>11. SettledWasSent'
    <2> SUFFICES ASSUME NEW k \in DOMAIN attempts', ~attempts'[k].inFlight,
                        k.epoch + 1 >= EpochOf(cycle)
                 PROVE  \E s \in sent' : Matches(s, k, attempts'[k])
      BY <1>1 DEF SettledWasSent
    <2>1. CASE k \in Done(g)
      BY <1>1, <1>2, <2>1
    <2>2. CASE k \notin Done(g)
      <3>1. k \in DOMAIN attempts /\ attempts'[k] = attempts[k]
        BY <1>2, <1>5, <2>2
      <3>2. PICK s \in sent : Matches(s, k, attempts[k])
        BY <3>1 DEF IInv, SettledWasSent
      <3> QED
        BY <1>1, <3>1, <3>2
    <2> QED
      BY <2>1, <2>2
  <1>12. \A k \in Done(g) : SentOf(g, k) \in Sent /\ KeyOf(SentOf(g, k)) = k
                              /\ SentOf(g, k).epoch <= EpochOf(cycle)
    <2> SUFFICES ASSUME NEW k \in Done(g)
                 PROVE  SentOf(g, k) \in Sent /\ KeyOf(SentOf(g, k)) = k
                          /\ SentOf(g, k).epoch <= EpochOf(cycle)
      OBVIOUS
    <2>1. k \in guards[g].keys /\ k.filter \in DOMAIN guards[g].published
      BY DEF Done
    <2>2. k \in Key /\ guards[g].published[k.filter] \in Nat
      BY <1>4, <2>1 DEF GuardShape
    <2>3. k \in DOMAIN attempts /\ attempts[k].inFlight
      BY <1>4, <2>1 DEF GuardOwns
    <2>4. k.epoch <= EpochOf(cycle)
      BY <2>3 DEF IInv, AttemptsHold
    <2>5. (k.filter \in guards[g].epochFenced) \in BOOLEAN
      OBVIOUS
    <2>6. SentOf(g, k) \in Sent
      BY <2>2, <2>5 DEF SentOf, Sent, Key
    <2> QED
      BY <2>2, <2>4, <2>6 DEF SentOf, KeyOf, Key
  <1>13. FencedIsReserved'
    <2> SUFFICES ASSUME NEW s \in sent', s.epoch = EpochOf(cycle), ~Expired(s)
                 PROVE  /\ KeyOf(s) \in DOMAIN attempts'
                        /\ ~attempts'[KeyOf(s)].inFlight
                        /\ Matches(s, KeyOf(s), attempts'[KeyOf(s)])
      BY <1>1 DEF FencedIsReserved, Expired
    <2>1. CASE s \in sent
      <3>1. /\ KeyOf(s) \in DOMAIN attempts
            /\ ~attempts[KeyOf(s)].inFlight
            /\ Matches(s, KeyOf(s), attempts[KeyOf(s)])
        BY <2>1 DEF IInv, FencedIsReserved
      <3>2. KeyOf(s) \notin guards[g].keys
        BY <1>4, <3>1 DEF GuardOwns
      <3> QED
        BY <1>2, <3>1, <3>2
    <2>2. CASE s \notin sent
      <3>1. PICK k \in Done(g) : s = SentOf(g, k)
        BY <1>1, <2>2
      <3>2. KeyOf(s) = k
        BY <1>12, <3>1
      <3> QED
        BY <1>2, <3>1, <3>2
    <2> QED
      BY <2>1, <2>2
  <1>14. sent' \subseteq Sent /\ \A s \in sent' : s.epoch <= EpochOf(cycle)
    BY <1>1, <1>12 DEF IInv, ClocksHold
  <1>15. ClocksHold' /\ ConfirmRemembered'
    BY <1>1, <1>14, DropConfirms DEF IInv, ClocksHold
  <1> QED
    BY <1>7, <1>9, <1>10, <1>11, <1>13, <1>15 DEF IInv

-----------------------------------------------------------------------------
(* The theorems.                                                           *)

\* The parts of the cycle's scope.
LEMMA ScopeParts ==
  ASSUME scope \in Scopes
  PROVE  scope.filters \subseteq Filter /\ scope.kinds \subseteq Kind /\ scope.guards \subseteq Guard
  BY SubmissionAssumption

\* Every step, and stuttering.
LEMMA NextInv == IInv /\ [Next]_vars => IInv'
  <1> SUFFICES ASSUME IInv, [Next]_vars PROVE IInv'
    OBVIOUS
  <1>1. scope.filters \subseteq Filter /\ scope.kinds \subseteq Kind /\ scope.guards \subseteq Guard
    BY ScopeParts DEF IInv, ClocksHold
  <1>2. CASE Tick
    BY <1>2, TickInv
  <1>3. CASE NextCycle
    BY <1>3, NextCycleInv
  <1>4. CASE \E g \in scope.guards, fs \in SUBSET scope.filters, kind \in scope.kinds :
                BeginFree(g, fs, kind)
    BY <1>1, <1>4, BeginFreeInv
  <1>5. CASE \E g \in scope.guards, fs \in SUBSET scope.filters :
                Release(g, fs) \/ Fence(g, fs) \/ FenceForEpoch(g, fs)
    BY <1>1, <1>5, ReleaseInv, FenceInv, FenceForEpochInv
  <1>6. CASE \E g \in scope.guards : Drop(g)
    BY <1>6, DropInv
  <1>7. CASE \E f \in scope.filters, joined \in 0 .. scope.frames : ReleasePublishedJoins(f, joined)
    BY <1>7, ReleasePublishedJoinsInv
  <1>8. CASE UNCHANGED vars
    BY <1>8 DEF vars, IInv, ClocksHold, AttemptsHold, GuardsHold, GuardOwns, Exclusive,
          SettledWasSent, FencedIsReserved, Expired, ConfirmRemembered
  <1> QED
    BY <1>2, <1>3, <1>4, <1>5, <1>6, <1>7, <1>8 DEF Next

\* The inductive invariant holds in every reachable state.
THEOREM Invariance == Spec => []IInv
  BY InitInv, NextInv, PTL DEF Spec

\* The map of reservations is what the live guards hold, with one owner per
\* filter (begin_free, release, Drop).
THEOREM AttemptsSafe == Spec => []AttemptsInv
  <1>1. IInv => AttemptsInv
    <2> SUFFICES ASSUME IInv PROVE AttemptsInv
      OBVIOUS
    <2>1. TypeOK
      BY DEF IInv, TypeOK, ClocksHold, AttemptsHold, GuardsHold, GuardShape
    <2>2. OneOwnerPerFilter
      BY DEF IInv, OneOwnerPerFilter, Exclusive, GuardsHold, GuardOwns
    <2> QED
      BY <2>1, <2>2 DEF AttemptsInv
  <1> QED
    BY <1>1, Invariance, PTL

\* A filter is held off only by a running task or by a publication inside
\* its fence (holds_off).
THEOREM HeldOffSafe == Spec => []HeldOffOnlyForCause
  <1>1. IInv => HeldOffOnlyForCause
    <2> SUFFICES ASSUME IInv, NEW f \in Filter, NEW kind \in Kind,
                        HeldOff(attempts, f, kind, cycle),
                        ~\E g \in DOMAIN guards : \E k \in guards[g].keys : k.filter = f
                 PROVE  \E s \in sent :
                          /\ s.filter = f /\ s.epoch = EpochOf(cycle)
                          /\ SaturatingSub(cycle, s.frame) < RetryFrames
                               \/ (s.forEpoch /\ s.kind = kind)
      BY DEF HeldOffOnlyForCause
    <2>1. PICK k \in DOMAIN attempts :
              /\ k.filter = f
              /\ HoldsOff(attempts[k], k.kind, kind, k.epoch, EpochOf(cycle), cycle)
      BY DEF HeldOff
    <2>2. ~attempts[k].inFlight
      BY <2>1 DEF IInv, Exclusive
    <2>3. k.epoch = EpochOf(cycle) /\ k.epoch \in Nat
      BY <2>1, <2>2 DEF HoldsOff, Owns, IInv, AttemptsHold, Key, Epoch
    <2>4. PICK s \in sent : Matches(s, k, attempts[k])
      BY <2>2, <2>3 DEF IInv, SettledWasSent
    <2> QED
      BY <2>1, <2>2, <2>3, <2>4 DEF HoldsOff, Owns, Matches
  <1> QED
    BY <1>1, Invariance, PTL

\* A published confirm is remembered through the epoch after its own
\* (confirm_published_in).
THEOREM ConfirmSafe == Spec => []ConfirmRemembered
  <1>1. IInv => ConfirmRemembered
    BY DEF IInv
  <1> QED
    BY <1>1, Invariance, PTL

\* Only begin_free begins a reservation.
LEMMA BegunByBeginFree ==
  ASSUME IInv, [Next]_vars, NEW k \in Begun
  PROVE  \E g \in Guard, fs \in SUBSET Filter, kind \in Kind :
            BeginFree(g, fs, kind) /\ k \in Made(fs, kind)
  <1>1. k \in DOMAIN attempts' /\ attempts'[k].inFlight
        /\ ~(k \in DOMAIN attempts /\ attempts[k].inFlight)
    BY DEF Begun
  <1>2. scope.filters \subseteq Filter /\ scope.kinds \subseteq Kind /\ scope.guards \subseteq Guard
    BY ScopeParts DEF IInv, ClocksHold
  <1>3. ~(attempts' = attempts)
    BY <1>1
  <1>4. ASSUME NEW g \in Guard, NEW fs \in SUBSET Filter, NEW kind \in Kind,
               BeginFree(g, fs, kind)
        PROVE  k \in Made(fs, kind)
    <2> DEFINE begun == [m \in Made(fs, kind) |->
                            [frame |-> cycle, inFlight |-> TRUE, forEpoch |-> FALSE]]
               old == Restrict(attempts, Kept)
    <2>1. attempts' = Inserted(old, begun)
      BY <1>4 DEF BeginFree, Made, Kept
    <2>2. DOMAIN old = Kept /\ \A x \in Kept : old[x] = attempts[x]
      BY RestrictAt
    <2>3. DOMAIN begun = Made(fs, kind)
      OBVIOUS
    <2> HIDE DEF begun, old
    <2>4. /\ DOMAIN attempts' = DOMAIN old \cup DOMAIN begun
          /\ \A x \in DOMAIN old : x \notin DOMAIN begun => attempts'[x] = old[x]
      BY <2>1 DEF Inserted
    <2>5. Kept \subseteq DOMAIN attempts
      BY DEF Kept
    <2> QED
      BY <1>1, <2>2, <2>3, <2>4, <2>5
  <1>5. ASSUME NEW S \in SUBSET DOMAIN attempts, attempts' = Restrict(attempts, S)
        PROVE  FALSE
    BY <1>1, <1>5 DEF Restrict
  <1>6. ASSUME NEW g, NEW fs, Release(g, fs) PROVE FALSE
    <2>1. \E S \in SUBSET DOMAIN attempts : attempts' = Restrict(attempts, S)
      BY <1>6 DEF Release
    <2> QED
      BY <1>5, <2>1
  <1>7. ASSUME NEW f, NEW joined, ReleasePublishedJoins(f, joined) PROVE FALSE
    <2>1. \E S \in SUBSET DOMAIN attempts : attempts' = Restrict(attempts, S)
      BY <1>7 DEF ReleasePublishedJoins
    <2> QED
      BY <1>5, <2>1
  <1>8. ASSUME NEW g, Drop(g) PROVE FALSE
    <2>1. g \in DOMAIN guards /\ attempts' = SettledAttempts(g)
      BY <1>8 DEF Drop
    <2>2. /\ DOMAIN attempts' = DOMAIN attempts \ (guards[g].keys \ Done(g))
          /\ \A x \in DOMAIN attempts' : x \notin guards[g].keys => attempts'[x] = attempts[x]
          /\ \A x \in Done(g) : ~attempts'[x].inFlight
      BY <2>1, SettledAt
    <2> QED
      BY <1>1, <2>2
  <1>9. ~Tick /\ ~NextCycle /\ ~(UNCHANGED vars)
    BY <1>3 DEF Tick, NextCycle, vars
  <1>10. \A g, fs : ~Fence(g, fs) /\ ~FenceForEpoch(g, fs)
    BY <1>3 DEF Fence, FenceForEpoch
  <1>11. \E g \in scope.guards, fs \in SUBSET scope.filters, kind \in scope.kinds :
            BeginFree(g, fs, kind)
    BY <1>6, <1>7, <1>8, <1>9, <1>10 DEF Next
  <1> QED
    BY <1>2, <1>4, <1>11

\* No operation begins on a filter inside the fence of a publication of the
\* same epoch (Drop, holds_off, begin_free).
THEOREM FenceSafe == Spec => FenceKept
  <1> DEFINE Step == \A k \in Begun : \A s \in sent :
                        s.filter = k.filter /\ s.epoch = k.epoch =>
                            /\ cycle >= s.frame + RetryFrames
                            /\ ~(s.forEpoch /\ s.kind = k.kind)
  <1>1. IInv /\ [Next]_vars => Step
    <2> SUFFICES ASSUME IInv, [Next]_vars, NEW k \in Begun, NEW s \in sent,
                        s.filter = k.filter, s.epoch = k.epoch
                 PROVE  /\ cycle >= s.frame + RetryFrames
                        /\ ~(s.forEpoch /\ s.kind = k.kind)
      OBVIOUS
    <2>1. PICK g \in Guard, fs \in SUBSET Filter, kind \in Kind :
              BeginFree(g, fs, kind) /\ k \in Made(fs, kind)
      BY BegunByBeginFree
    <2>2. /\ k.epoch = EpochOf(cycle) /\ k.kind = kind
          /\ \A q \in Kept : q.filter = k.filter =>
                ~HoldsOff(attempts[q], q.kind, kind, q.epoch, EpochOf(cycle), cycle)
      BY <2>1, MadeHolds
    <2>3. CASE Expired(s)
      BY <2>3 DEF Expired
    <2>4. CASE ~Expired(s)
      <3> DEFINE q == KeyOf(s)
      <3>1. q \in Kept /\ Matches(s, q, attempts[q])
        BY <2>2, <2>4, KeptHolds
      <3>2. q.filter = k.filter /\ q.epoch = EpochOf(cycle) /\ q.kind = s.kind
        BY <2>2 DEF KeyOf
      <3>3. /\ q \in DOMAIN attempts /\ attempts[q] \in Attempt /\ cycle \in Nat
            /\ Owns(attempts[q], EpochOf(cycle), EpochOf(cycle), cycle)
        BY <3>1, <3>2 DEF Kept, IInv, AttemptsHold, ClocksHold
      <3>4. EpochOf(cycle) \in Epoch
        BY <3>3, EpochType DEF Epoch
      <3>5. ~HoldsOff(attempts[q], q.kind, kind, EpochOf(cycle), EpochOf(cycle), cycle)
        BY <2>2, <3>1, <3>2
      <3>6. q.kind # kind /\ cycle >= attempts[q].frame + RetryFrames
        BY <3>3, <3>4, <3>5, NotHeldOff
      <3> QED
        BY <2>2, <3>1, <3>2, <3>6 DEF Matches
    <2> QED
      BY <2>3, <2>4
  <1>2. Spec => [][Step]_vars
    BY <1>1, Invariance, PTL DEF Spec
  <1> QED
    BY <1>2 DEF FenceKept
=============================================================================
