-------------------------- MODULE AppDeliveryProofs --------------------------
(***************************************************************************)
(* Proofs about the delivery of finalized application frames               *)
(* (AppDelivery), for every length of the chain, every channel capacity,   *)
(* every set of retrying threads and every deployment.                     *)
(*                                                                         *)
(* Two facts carry them.  A pass knows every pending finalization below    *)
(* one it still has to try, but for what was reported since its snapshot.  *)
(* And a record is written before the frames it brings back are sent, or   *)
(* the failure is accounted for, and pruned only at the engine's cursor.   *)
(***************************************************************************)
EXTENDS AppDelivery, TLAPS

-----------------------------------------------------------------------------
(* The inductive invariant.                                                *)

\* A finalization the committee reached.
Final(d) == Through(d) <= top /\ (d = Seal => sealFinal)

ChainHolds ==
    /\ top \in 0 .. MaxFrame /\ sealFinal \in BOOLEAN
    /\ sealFinal => top = MaxFrame

\* Only what is final is recorded.
DiskHolds ==
    /\ bodies \subseteq Digests /\ closing \in BOOLEAN
    /\ recorded \in [Frames -> Kinds] /\ implied \in [Frames -> Kinds]
    /\ \A n \in Frames : recorded[n] # "none" => n <= top
    /\ closing => sealFinal

\* A running host holds every body this node sealed, a stopped one nothing.
HostHolds ==
    /\ up \in BOOLEAN /\ store \in [Digests -> Kinds]
    /\ announced \subseteq Digests
    /\ pending \subseteq Digests /\ replayed \subseteq pending \ {Seal}
    /\ \A d \in pending : Final(d)
    /\ delivered \in 0 .. top
    /\ up => \A d \in bodies : store[d] = "sealed"
    /\ ~up => pending = {}

Passes == [at : {"rest", "deliver", "drop"}, todo : SUBSET Digests, again : BOOLEAN,
           unseen : SUBSET Digests]

\* A pass knows every pending finalization below one it still has to try, but
\* for those reported since.
Sound(p) ==
    \A e \in p.todo :
        Final(e) /\ \A q \in pending : View(q) < View(e) => q \in p.todo \cup p.unseen

ThreadsHold ==
    /\ thread \in [Threads -> Passes]
    /\ \A t \in Threads :
          /\ Sound(thread[t])
          /\ ~up => thread[t].todo = {}
          /\ thread[t].todo # {} => thread[t].at = "deliver"

Messages == [digest : Digests, bodies : UNION {[S -> Kinds] : S \in SUBSET Frames}]

\* The engine is told of final frames only, and of a stored seal.
EngineHolds ==
    /\ cursor \in 0 .. top /\ kept \subseteq cursor + 1 .. top
    /\ queue \in Seq(Messages) /\ Len(queue) <= QueueCap
    /\ \A i \in 1 .. Len(queue) :
          /\ DOMAIN queue[i].bodies \subseteq 1 .. top
          /\ queue[i].digest \in Frames => queue[i].digest \in DOMAIN queue[i].bodies
          /\ queue[i].digest = Seal => closing
    /\ attempts \in 0 .. Retries - 1
    /\ sealed_session \in BOOLEAN /\ (sealed_session => closing /\ ~up)

HandedHolds == handed \subseteq 1 .. top /\ HandedRecoverable

IInv ==
    /\ ChainHolds
    /\ DiskHolds
    /\ HostHolds
    /\ ThreadsHold
    /\ EngineHolds
    /\ HandedHolds

-----------------------------------------------------------------------------
(* Operators                                                               *)

\* Frames, the seal, and what each digest commits to.
LEMMA DigestFacts ==
  /\ MaxFrame \in Nat /\ MaxFrame > 0
  /\ \A n : n \in Frames <=> n \in Nat /\ 1 <= n /\ n <= MaxFrame
  /\ Seal = 0 /\ Seal \notin Frames
  /\ \A d : d \in Digests <=> d \in Frames \/ d = Seal
  /\ \A d \in Digests : View(d) \in Nat /\ Through(d) \in Frames
  /\ \A n \in Frames : View(n) = n /\ Through(n) = n
  /\ View(Seal) = MaxFrame + 1 /\ Through(Seal) = MaxFrame
  BY DeliveryAssumption DEF Frames, Digests, Seal, View, Through

\* Two digests of one view are the same.
LEMMA ViewInjective ==
  ASSUME NEW d \in Digests, NEW e \in Digests, View(d) = View(e)
  PROVE  d = e
  BY DigestFacts

\* A resting pass has nothing to do.
LEMMA RestingPass == Resting \in Passes /\ Resting.todo = {} /\ Sound(Resting)
  BY DEF Resting, Passes, Sound

\* A sweep has what it was given to do.
LEMMA SweepPass ==
  ASSUME NEW todo \in SUBSET Digests, NEW again \in BOOLEAN
  PROVE  /\ Sweep(todo, again) \in Passes /\ Sweep(todo, again).todo = todo
         /\ Sweep(todo, again).unseen = {}
  BY DEF Sweep, Passes

\* A frame once recoverable stays so while nothing above the cursor is pruned.
LEMMA RecoverableKept ==
  ASSUME IInv, NEW n \in Frames, n <= cursor \/ Recoverable(n),
         cursor' \in Nat, cursor <= cursor',
         \A m \in Frames : m > cursor' =>
             /\ recorded[m] # "none" => recorded'[m] # "none"
             /\ implied[m] # "none" => implied'[m] # "none",
         closing => closing'
  PROVE  n <= cursor' \/ Recoverable(n)'
  <1>1. cursor \in Nat /\ n \in Nat /\ n >= 1 /\ MaxFrame \in Nat
    BY DigestFacts DEF IInv, EngineHolds, ChainHolds
  <1> SUFFICES ASSUME n > cursor' PROVE Recoverable(n)'
    BY <1>1
  <1>2. Recoverable(n)
    BY <1>1
  <1>3. CASE recorded[n] # "none"
    BY <1>3 DEF Recoverable
  <1>4. CASE \E c \in n .. MaxFrame :
                /\ \A m \in n .. c : recorded[m] # "none" \/ implied[m] # "none"
                /\ recorded[c] # "none" \/ (closing /\ c = MaxFrame)
    <2>1. PICK c \in n .. MaxFrame :
                /\ \A m \in n .. c : recorded[m] # "none" \/ implied[m] # "none"
                /\ recorded[c] # "none" \/ (closing /\ c = MaxFrame)
      BY <1>4
    <2>2. \A m \in n .. c : m \in Frames /\ m > cursor'
      BY <1>1, <2>1, DigestFacts
    <2>3. \A m \in n .. c : recorded'[m] # "none" \/ implied'[m] # "none"
      BY <2>1, <2>2
    <2>4. c \in n .. c
      BY <1>1, <2>1
    <2>5. recorded'[c] # "none" \/ (closing' /\ c = MaxFrame)
      BY <2>1, <2>2, <2>4
    <2> QED
      BY <2>1, <2>3, <2>5 DEF Recoverable
  <1> QED
    BY <1>2, <1>3, <1>4 DEF Recoverable

\* The same for all the frames handed over, when a step hands over none.
LEMMA HandedKept ==
  ASSUME IInv, cursor' \in Nat, cursor <= cursor',
         \A m \in Frames : m > cursor' =>
             /\ recorded[m] # "none" => recorded'[m] # "none"
             /\ implied[m] # "none" => implied'[m] # "none",
         closing => closing', top' \in Nat, top <= top',
         handed' = handed, unwritten' = unwritten
  PROVE  HandedHolds'
  <1>1. handed \subseteq 1 .. top /\ top \in 0 .. MaxFrame
    BY DEF IInv, HandedHolds, ChainHolds
  <1>2. handed \subseteq Frames
    BY <1>1, DigestFacts
  <1>3. \A n \in handed \ unwritten : n <= cursor \/ Recoverable(n)
    BY DEF IInv, HandedHolds, HandedRecoverable
  <1>4. \A n \in handed \ unwritten : n <= cursor' \/ Recoverable(n)'
    BY <1>2, <1>3, RecoverableKept
  <1> QED
    BY <1>1, <1>4 DEF HandedHolds, HandedRecoverable

-----------------------------------------------------------------------------
(* The invariant holds initially and every action keeps it.                *)

\* The initial state.
LEMMA InitInv == Init => IInv
  <1> SUFFICES ASSUME Init PROVE IInv
    OBVIOUS
  <1>0. top = 0 /\ ~sealFinal /\ sealFinal \in BOOLEAN /\ cursor = 0 /\ kept = {}
        /\ ~sealed_session /\ sealed_session \in BOOLEAN /\ queue = << >> /\ attempts = 0
    BY DEF Init
  <1>1. ChainHolds
    BY <1>0, DigestFacts DEF ChainHolds
  <1>2. DiskHolds
    BY DEF Init, DiskHolds, Kinds, Held
  <1>3. HostHolds
    BY <1>1 DEF Init, HostHolds, Kinds, Held, ChainHolds
  <1>4. ThreadsHold
    BY RestingPass DEF Init, ThreadsHold
  <1>5. EngineHolds
    <2>1. queue = << >> /\ Len(queue) = 0 /\ queue \in Seq(Messages)
      BY <1>0
    <2>2. QueueCap \in Nat /\ Retries \in Nat \ {0}
      BY DeliveryAssumption
    <2> QED
      BY <1>0, <2>1, <2>2 DEF EngineHolds
  <1>6. HandedHolds
    BY DEF Init, HandedHolds, HandedRecoverable
  <1> QED
    BY <1>1, <1>2, <1>3, <1>4, <1>5, <1>6 DEF IInv

\* A body sent by a peer keeps the invariant.
LEMMA BodyArrivesInv ==
  ASSUME IInv, NEW d \in Digests, NEW b \in {"cand", "swap"}, BodyArrives(d, b)
  PROVE  IInv'
  <1>1. /\ up /\ store[d] # "sealed"
        /\ store' = [store EXCEPT ![d] = b]
        /\ UNCHANGED <<top, sealFinal, bodies, recorded, implied, closing, up, announced, pending,
                       replayed, delivered, thread, cursor, queue, kept, attempts, sealed_session, handed, unwritten>>
    BY DEF BodyArrives, consensus, disk, engine, ghosts
  <1>2. store' \in [Digests -> Kinds]
    BY <1>1 DEF IInv, HostHolds, Kinds, Held
  <1>3. \A e \in bodies : store'[e] = "sealed"
    BY <1>1 DEF IInv, HostHolds, DiskHolds
  <1>4. HostHolds'
    BY <1>1, <1>2, <1>3 DEF IInv, HostHolds, Final
  <1> QED
    BY <1>1, <1>4 DEF IInv, ChainHolds, DiskHolds, ThreadsHold, Sound, Final, EngineHolds,
          HandedHolds, HandedRecoverable, Recoverable

\* Verifying a candidate keeps it.
LEMMA VerifyInv ==
  ASSUME IInv, NEW d \in Digests, Verify(d)
  PROVE  IInv'
  <1>1. /\ up
        /\ store' = [store EXCEPT ![d] = "sealed"]
        /\ bodies' = bodies \cup {d}
        /\ UNCHANGED <<top, sealFinal, recorded, implied, closing, up, announced, pending,
                       replayed, delivered, thread, cursor, queue, kept, attempts, sealed_session, handed, unwritten>>
    BY DEF Verify, consensus, engine, ghosts
  <1>2. store' \in [Digests -> Kinds]
    BY <1>1 DEF IInv, HostHolds, Kinds, Held
  <1>3. \A e \in bodies' : store'[e] = "sealed"
    BY <1>1 DEF IInv, HostHolds, DiskHolds
  <1>4. HostHolds'
    BY <1>1, <1>2, <1>3 DEF IInv, HostHolds, Final
  <1>5. DiskHolds'
    BY <1>1 DEF IInv, DiskHolds
  <1> QED
    BY <1>1, <1>4, <1>5 DEF IInv, ChainHolds, ThreadsHold, Sound, Final, EngineHolds,
          HandedHolds, HandedRecoverable, Recoverable

\* A new finalization is in the host's snapshot, and unseen by the other passes.
LEMMA OnFinalizedInv ==
  ASSUME IInv, NEW d \in Digests, OnFinalized(d)
  PROVE  IInv'
  <1>1. /\ up
        /\ top' = IF Through(d) > top THEN Through(d) ELSE top
        /\ sealFinal' = (sealFinal \/ d = Seal)
        /\ announced' = announced \cup {d}
        /\ pending' = pending \cup {d}
        /\ thread' = [t \in Threads |-> IF t = Host THEN Sweep(pending', FALSE)
                                       ELSE Missed(t, {d} \ pending)]
        /\ UNCHANGED <<bodies, recorded, implied, closing, up, store, replayed, delivered,
                       cursor, queue, kept, attempts, sealed_session, handed, unwritten>>
    BY DEF OnFinalized, disk, engine, ghosts
  <1>2. top \in 0 .. MaxFrame /\ MaxFrame \in Nat /\ Through(d) \in 1 .. MaxFrame
    BY DigestFacts DEF IInv, ChainHolds
  <1>3. /\ top' \in Frames /\ top' \in Nat /\ top <= top' /\ Through(d) <= top'
        /\ d = Seal => top' = MaxFrame
        /\ top = MaxFrame => top' = MaxFrame
    BY <1>1, <1>2, DigestFacts
  <1>4. sealFinal' \in BOOLEAN /\ (sealFinal => sealFinal') /\ (d = Seal => sealFinal')
        /\ (sealFinal' => sealFinal \/ d = Seal)
    BY <1>1
  <1>5. ChainHolds'
    BY <1>2, <1>3, <1>4, DigestFacts DEF IInv, ChainHolds
  <1>6. \A e \in Digests : Final(e) => Final(e)'
    BY <1>2, <1>3, <1>4, DigestFacts DEF Final
  <1>7. Final(d)'
    BY <1>3, <1>4 DEF Final
  <1>8. DiskHolds'
    BY <1>1, <1>2, <1>3, <1>4, DigestFacts DEF IInv, DiskHolds
  <1>9. HostHolds'
    <2>1. delivered \in 0 .. top'
      BY <1>2, <1>3, DigestFacts DEF IInv, HostHolds
    <2>2. /\ pending' \subseteq Digests /\ replayed' \subseteq pending' \ {Seal}
          /\ announced' \subseteq Digests
      BY <1>1 DEF IInv, HostHolds
    <2>3. \A e \in pending' : Final(e)'
      BY <1>1, <1>6, <1>7 DEF IInv, HostHolds
    <2> QED
      BY <1>1, <2>1, <2>2, <2>3 DEF IInv, HostHolds
  <1>10. ThreadsHold'
    <2>1. pending' \in SUBSET Digests
      BY <1>1 DEF IInv, HostHolds
    <2>2. /\ Sweep(pending', FALSE) \in Passes /\ Sweep(pending', FALSE).todo = pending'
      BY <2>1, SweepPass
    <2>3. ASSUME NEW t \in Threads
          PROVE  /\ Missed(t, {d} \ pending) \in Passes
                 /\ Missed(t, {d} \ pending).todo = thread[t].todo
                 /\ thread[t].unseen \subseteq Missed(t, {d} \ pending).unseen
                 /\ thread[t].at = "deliver" =>
                       {d} \ pending \subseteq Missed(t, {d} \ pending).unseen
      <3>1. thread[t] \in Passes
        BY DEF IInv, ThreadsHold
      <3> QED
        BY <3>1 DEF Missed, Passes
    <2>4. thread' \in [Threads -> Passes]
      BY <1>1, <2>2, <2>3
    <2>5. ASSUME NEW t \in Threads
          PROVE  Sound(thread[t])'
      <3>1. CASE t = Host
        <4>1. thread'[t].todo = pending'
          BY <1>1, <2>2, <3>1
        <4>2. \A e \in pending' : Final(e)'
          BY <1>9 DEF HostHolds
        <4> QED
          BY <4>1, <4>2 DEF Sound
      <3>2. CASE t # Host
        <4>1. /\ thread'[t] = Missed(t, {d} \ pending) /\ Sound(thread[t])
              /\ thread[t].todo \subseteq Digests
              /\ thread[t].todo # {} => thread[t].at = "deliver"
          BY <1>1, <3>2 DEF IInv, ThreadsHold, Passes
        <4>2. ASSUME NEW e \in thread[t].todo
              PROVE  /\ Final(e)'
                     /\ \A q \in pending' : View(q) < View(e) =>
                           q \in thread'[t].todo \cup thread'[t].unseen
          <5>1. Final(e) /\ e \in Digests
            BY <4>1 DEF Sound
          <5>2. \A q \in pending : View(q) < View(e) => q \in thread[t].todo \cup thread[t].unseen
            BY <4>1 DEF Sound
          <5>3. \A q \in pending : View(q) < View(e) =>
                    q \in thread'[t].todo \cup thread'[t].unseen
            BY <2>3, <4>1, <5>2
          <5>4. d \in pending \/ d \in thread'[t].unseen
            BY <2>3, <4>1
          <5> QED
            BY <1>1, <1>6, <5>1, <5>3, <5>4
        <4>3. thread'[t].todo = thread[t].todo
          BY <2>3, <4>1
        <4> QED
          BY <4>2, <4>3 DEF Sound
      <3> QED
        BY <3>1, <3>2
    <2>6. \A t \in Threads : thread'[t].todo # {} => thread'[t].at = "deliver"
      <3> SUFFICES ASSUME NEW t \in Threads, thread'[t].todo # {}
                   PROVE  thread'[t].at = "deliver"
        OBVIOUS
      <3>1. CASE t = Host
        BY <1>1, <3>1 DEF Sweep
      <3>2. CASE t # Host
        <4>1. thread[t] \in Passes /\ thread'[t] = Missed(t, {d} \ pending)
          BY <1>1, <3>2 DEF IInv, ThreadsHold
        <4>2. thread[t].at = "deliver"
          BY <2>3, <4>1 DEF IInv, ThreadsHold
        <4> QED
          BY <4>1, <4>2 DEF Missed, Passes
      <3> QED
        BY <3>1, <3>2
    <2> QED
      BY <1>1, <2>4, <2>5, <2>6 DEF ThreadsHold
  <1>11. EngineHolds'
    <2>1. cursor' \in 0 .. top' /\ kept' \subseteq cursor' + 1 .. top'
      BY <1>1, <1>2, <1>3, DigestFacts DEF IInv, EngineHolds
    <2>2. \A i \in 1 .. Len(queue) : DOMAIN queue[i].bodies \subseteq 1 .. top'
      BY <1>2, <1>3, DigestFacts DEF IInv, EngineHolds
    <2> QED
      BY <1>1, <2>1, <2>2 DEF IInv, EngineHolds
  <1>12. HandedHolds'
    <2>1. cursor' \in Nat /\ cursor <= cursor'
      BY <1>1, <1>2 DEF IInv, EngineHolds
    <2> QED
      BY <1>1, <1>3, <2>1, HandedKept
  <1> QED
    BY <1>5, <1>8, <1>9, <1>10, <1>11, <1>12 DEF IInv

\* A retry starts a pass over what is pending.
LEMMA RetryInv ==
  ASSUME IInv, NEW t \in Threads, Retry(t)
  PROVE  IInv'
  <1>1. /\ up
        /\ thread' = [thread EXCEPT ![t] = Sweep(pending, FALSE)]
        /\ UNCHANGED <<top, sealFinal, bodies, recorded, implied, closing, up, store, announced, pending,
                       replayed, delivered, cursor, queue, kept, attempts, sealed_session, handed, unwritten>>
    BY DEF Retry, consensus, disk, engine, ghosts
  <1>2. /\ Sweep(pending, FALSE) \in Passes /\ Sweep(pending, FALSE).todo = pending
    BY SweepPass DEF IInv, HostHolds
  <1>3. Sound(Sweep(pending, FALSE))
    BY <1>2 DEF Sound, IInv, HostHolds
  <1>4. thread' \in [Threads -> Passes]
    BY <1>1, <1>2 DEF IInv, ThreadsHold
  <1>5. \A h \in Threads : Sound(thread[h])'
    BY <1>1, <1>3 DEF IInv, ThreadsHold, Sound, Final
  <1>6. ThreadsHold'
    <2>1. Sweep(pending, FALSE).at = "deliver"
      BY DEF Sweep
    <2> QED
      BY <1>1, <1>2, <1>4, <1>5, <2>1 DEF IInv, ThreadsHold
  <1> QED
    BY <1>1, <1>6 DEF IInv, ChainHolds, DiskHolds, HostHolds, Final, EngineHolds,
          HandedHolds, HandedRecoverable, Recoverable

-----------------------------------------------------------------------------
(* Delivery                                                                *)

\* What a step of a pass may leave behind: rest is what the snapshot still
\* has to try after d, and d has left the pending finalizations.
LEMMA PassAdvances ==
  ASSUME IInv, NEW t \in Threads, NEW d \in thread[t].todo, NEW next \in Passes,
         next.todo = {} \/ next.todo = thread[t].todo \ {d},
         next.todo # {} => next.at = "deliver" /\ next.unseen = thread[t].unseen,
         up, up' = up, pending' \subseteq pending,
         next.todo # {} => d \notin pending',
         UNCHANGED <<top, sealFinal>>,
         thread' = [thread EXCEPT ![t] = next]
  PROVE  ThreadsHold'
  <1>1. thread' \in [Threads -> Passes] /\ thread'[t] = next
    BY DEF IInv, ThreadsHold
  <1>2. \A h \in Threads : h # t => thread'[h] = thread[h]
    BY DEF IInv, ThreadsHold
  <1>3. \A h \in Threads : Sound(thread[h])
    BY DEF IInv, ThreadsHold
  <1>4. \A h \in Threads : h # t => Sound(thread[h])'
    BY <1>2, <1>3 DEF Sound, Final
  <1>5. Sound(thread[t])'
    BY <1>1, <1>3 DEF Sound, Final
  <1>6. \A h \in Threads : thread'[h].todo # {} => thread'[h].at = "deliver"
    BY <1>1, <1>2 DEF IInv, ThreadsHold
  <1> QED
    BY <1>1, <1>4, <1>5, <1>6 DEF ThreadsHold

\* The ancestors sent with a frame are above the cursor, below the frame and
\* all held.
LEMMA AncestorsHeld ==
  ASSUME IInv, NEW n \in Frames
  PROVE  /\ Ancestors(n) \subseteq cursor + 1 .. n - 1
         /\ \A m \in Ancestors(n) : store[m] # "none" /\ m .. n - 1 \subseteq Ancestors(n)
  <1>1. cursor \in Nat /\ delivered \in Nat /\ n \in Nat
    BY DigestFacts DEF IInv, EngineHolds, HostHolds, ChainHolds
  <1> DEFINE floor == IF cursor > delivered THEN cursor ELSE delivered
             chain == floor + 1 .. n - 1
  <1>2. floor \in Nat /\ floor >= cursor
    BY <1>1
  <1>3. Ancestors(n) = IF \A m \in chain : store[m] # "none" THEN chain ELSE {}
    BY DEF Ancestors
  <1> HIDE DEF floor
  <1> QED
    BY <1>1, <1>2, <1>3

\* The checkpoint names frames above the cursor, all of them stored.
LEMMA CheckpointHeld ==
  ASSUME IInv
  PROVE  /\ Checkpoint \subseteq cursor + 1 .. MaxFrame
         /\ \A m \in Checkpoint : store[m] # "none" /\ m .. MaxFrame \subseteq Checkpoint
  <1>1. cursor \in Nat /\ delivered \in Nat /\ MaxFrame \in Nat
    BY DigestFacts DEF IInv, EngineHolds, HostHolds, ChainHolds
  <1> DEFINE floor == IF cursor > delivered THEN cursor ELSE delivered
             chain == floor + 1 .. MaxFrame
  <1>2. floor \in Nat /\ floor >= cursor
    BY <1>1
  <1>3. Checkpoint = IF \A m \in chain : store[m] # "none" THEN chain ELSE {}
    BY DEF Checkpoint
  <1> HIDE DEF floor
  <1> QED
    BY <1>1, <1>2, <1>3

\* A message of final frames.
LEMMA MessageType ==
  ASSUME IInv, NEW d \in Digests, NEW ns \in SUBSET Frames
  PROVE  /\ Message(d, ns) \in Messages
         /\ Message(d, ns).digest = d
         /\ DOMAIN Message(d, ns).bodies = ns \cup (Frames \cap {d})
         /\ \A n \in DOMAIN Message(d, ns).bodies : Message(d, ns).bodies[n] = store[n]
  <1> DEFINE S == ns \cup (Frames \cap {d})
             b == [n \in S |-> store[n]]
  <1>1. S \subseteq Frames /\ S \subseteq Digests
    BY DigestFacts
  <1>2. b \in [S -> Kinds]
    BY <1>1 DEF IInv, HostHolds
  <1>3. b \in UNION {[T -> Kinds] : T \in SUBSET Frames}
    BY <1>1, <1>2
  <1>4. Message(d, ns) = [digest |-> d, bodies |-> b]
    BY DEF Message
  <1>5. DOMAIN b = S /\ \A n \in S : b[n] = store[n]
    OBVIOUS
  <1> HIDE DEF b, S
  <1>6. Message(d, ns) \in Messages /\ Message(d, ns).digest = d /\ Message(d, ns).bodies = b
    BY <1>3, <1>4 DEF Messages
  <1> QED
    BY <1>5, <1>6 DEF S

\* The engine's channel after a message of final frames is sent.
LEMMA SendHolds ==
  ASSUME IInv, NEW d \in Digests, NEW ns \in SUBSET (1 .. top), Final(d),
         Len(queue) < QueueCap, queue' = Append(queue, Message(d, ns)),
         d = Seal => closing', closing => closing', up,
         UNCHANGED <<top, sealFinal, cursor, kept, attempts, sealed_session, up>>
  PROVE  EngineHolds'
  <1>1. ns \subseteq Frames /\ top \in Nat
    BY DigestFacts DEF IInv, ChainHolds
  <1> DEFINE m == Message(d, ns)
  <1>2. /\ m \in Messages /\ m.digest = d
        /\ DOMAIN m.bodies = ns \cup (Frames \cap {d})
    BY <1>1, MessageType
  <1>3. DOMAIN m.bodies \subseteq 1 .. top
    <2>1. \A n \in Frames \cap {d} : n \in 1 .. top
      BY <1>1, DigestFacts DEF Final
    <2> QED
      BY <1>2, <2>1
  <1>4. queue \in Seq(Messages) /\ QueueCap \in Nat
    BY DeliveryAssumption DEF IInv, EngineHolds
  <1> HIDE DEF m
  <1>5. /\ queue' \in Seq(Messages) /\ Len(queue') = Len(queue) + 1
        /\ \A i \in 1 .. Len(queue) : queue'[i] = queue[i]
        /\ queue'[Len(queue) + 1] = m
    BY <1>2, <1>4 DEF m
  <1>6. Len(queue) \in Nat /\ Len(queue') <= QueueCap
    BY <1>4, <1>5
  <1>7. \A i \in 1 .. Len(queue') :
            /\ DOMAIN queue'[i].bodies \subseteq 1 .. top
            /\ queue'[i].digest \in Frames => queue'[i].digest \in DOMAIN queue'[i].bodies
            /\ queue'[i].digest = Seal => closing'
    <2> SUFFICES ASSUME NEW i \in 1 .. Len(queue')
                 PROVE  /\ DOMAIN queue'[i].bodies \subseteq 1 .. top
                        /\ queue'[i].digest \in Frames =>
                              queue'[i].digest \in DOMAIN queue'[i].bodies
                        /\ queue'[i].digest = Seal => closing'
      OBVIOUS
    <2>1. CASE i \in 1 .. Len(queue)
      BY <1>5, <2>1 DEF IInv, EngineHolds
    <2>2. CASE i = Len(queue) + 1
      BY <1>2, <1>3, <1>5, <2>2
    <2> QED
      BY <1>5, <1>6, <2>1, <2>2
  <1> QED
    BY <1>5, <1>6, <1>7 DEF IInv, EngineHolds

\* persist_implied writes bodies only.
LEMMA RecordImpliedType ==
  ASSUME IInv, NEW ns \in SUBSET Frames, \A m \in ns : store[m] # "none"
  PROVE  /\ RecordImplied(ns) \in [Frames -> Kinds]
         /\ \A m \in Frames : implied[m] # "none" \/ m \in ns => RecordImplied(ns)[m] # "none"
  <1>1. \A m \in Frames : store[m] \in Kinds /\ implied[m] \in Kinds
    BY DigestFacts DEF IInv, HostHolds, DiskHolds
  <1> QED
    BY <1>1 DEF RecordImplied

\* Keeping the records above a frame.
LEMMA KeepType ==
  ASSUME NEW rs \in [Frames -> Kinds], NEW through \in Nat
  PROVE  /\ Keep(rs, through) \in [Frames -> Kinds]
         /\ \A m \in Frames : m > through => Keep(rs, through)[m] = rs[m]
         /\ \A m \in Frames : Keep(rs, through)[m] # "none" => rs[m] # "none"
  <1>1. \A m \in Frames : m \in Nat
    BY DigestFacts
  <1> QED
    BY <1>1 DEF Keep, Kinds

\* A pass hands over a frame with its ancestors, recorded before but for the
\* writes that failed.
LEMMA DeliverFrameInv ==
  ASSUME IInv, NEW n \in Frames, n \in pending, store[n] # "none", up, DeliverFrame(n),
         ThreadsHold',
         UNCHANGED <<top, sealFinal, up, store, announced, cursor, kept, attempts, sealed_session>>
  PROVE  IInv'
  <1> DEFINE ns == Ancestors(n)
  <1>0. PICK bad \in SUBSET (ns \cup {n}) :
           LET rec == IF n \in bad THEN recorded ELSE [recorded EXCEPT ![n] = store[n]]
               imp == RecordImplied(ns \ bad)
           IN  IF Len(queue) < QueueCap
               THEN /\ Send(n, ns, bad)
                    /\ recorded' = Keep(rec, Pruned(n))
                    /\ implied' = Keep(imp, Pruned(n))
                    /\ bodies' = {d \in bodies : d = Seal \/ d > Pruned(n)}
                    /\ delivered' = IF n > delivered THEN n ELSE delivered
                    /\ pending' = pending \ {n} /\ replayed' = replayed \ {n}
                    /\ UNCHANGED closing
               ELSE /\ recorded' = rec /\ implied' = imp
                    /\ UNCHANGED <<queue, handed, unwritten, bodies, delivered, pending, replayed,
                                   closing>>
    BY DEF DeliverFrame, Failing
  <1> DEFINE rec == IF n \in bad THEN recorded ELSE [recorded EXCEPT ![n] = store[n]]
             imp == RecordImplied(ns \ bad)
  <1>1. /\ top \in Nat /\ top <= MaxFrame /\ cursor \in Nat /\ n \in Nat /\ n <= top
        /\ n >= 1 /\ MaxFrame \in Nat /\ cursor <= top /\ n \in Digests
    BY DigestFacts DEF IInv, ChainHolds, EngineHolds, HostHolds, Final
  <1>2. /\ ns \subseteq cursor + 1 .. n - 1
        /\ \A m \in ns : store[m] # "none" /\ m .. n - 1 \subseteq ns
    BY AncestorsHeld
  <1>3. ns \subseteq Frames /\ ns \subseteq 1 .. top /\ ns \ bad \subseteq Frames
    BY <1>1, <1>2, DigestFacts
  <1>4. /\ imp \in [Frames -> Kinds]
        /\ \A m \in Frames : implied[m] # "none" \/ m \in ns \ bad => imp[m] # "none"
    BY <1>2, <1>3, RecordImpliedType
  <1>5. /\ rec \in [Frames -> Kinds] /\ (n \notin bad => rec[n] # "none")
        /\ \A m \in Frames : recorded[m] # "none" => rec[m] # "none"
        /\ \A m \in Frames : rec[m] # "none" => m <= top
    BY <1>1 DEF IInv, DiskHolds, HostHolds
  <1>6. CASE Len(queue) < QueueCap
    <2>1. /\ Send(n, ns, bad)
          /\ recorded' = Keep(rec, cursor)
          /\ implied' = Keep(imp, cursor)
          /\ bodies' = {d \in bodies : d = Seal \/ d > cursor}
          /\ delivered' = IF n > delivered THEN n ELSE delivered
          /\ pending' = pending \ {n} /\ replayed' = replayed \ {n}
          /\ closing' = closing
      BY <1>0, <1>6 DEF Pruned
    <2> HIDE DEF ns, rec, imp
    <2>2. /\ recorded' \in [Frames -> Kinds]
          /\ \A m \in Frames : m > cursor => recorded'[m] = rec[m]
          /\ \A m \in Frames : recorded'[m] # "none" => rec[m] # "none"
      BY <1>1, <1>5, <2>1, KeepType
    <2>3. /\ implied' \in [Frames -> Kinds]
          /\ \A m \in Frames : m > cursor => implied'[m] = imp[m]
      BY <1>1, <1>4, <2>1, KeepType
    <2>4. DiskHolds'
      BY <1>5, <2>1, <2>2, <2>3 DEF IInv, DiskHolds
    <2>5. HostHolds'
      <3>1. delivered' \in 0 .. top
        BY <1>1, <2>1 DEF IInv, HostHolds
      <3> QED
        BY <2>1, <3>1 DEF IInv, HostHolds, Final
    <2>6. EngineHolds'
      <3>1. Final(n) /\ queue' = Append(queue, Message(n, ns))
        BY <2>1 DEF IInv, HostHolds, Send
      <3> QED
        BY <1>1, <1>3, <1>6, <2>1, <3>1, SendHolds, DigestFacts
    <2>7. HandedHolds'
      <3>1. /\ handed' = handed \cup ns \cup {n}
            /\ unwritten' = (unwritten \ (ns \cup {n}))
                               \cup {m \in ns \cup {n} : \E b \in bad : m <= b}
        BY <2>1 DEF Send
      <3>2. handed \subseteq 1 .. top
        BY DEF IInv, HandedHolds
      <3>3. handed' \subseteq 1 .. top
        BY <1>1, <1>3, <3>1, <3>2
      <3>4. ASSUME NEW m \in handed, m \notin unwritten PROVE m <= cursor' \/ Recoverable(m)'
        <4>1. m \in Frames
          BY <1>1, <3>2, DigestFacts
        <4>2. m <= cursor \/ Recoverable(m)
          BY <3>4 DEF IInv, HandedHolds, HandedRecoverable
        <4>3. \A q \in Frames : q > cursor' =>
                 /\ recorded[q] # "none" => recorded'[q] # "none"
                 /\ implied[q] # "none" => implied'[q] # "none"
          BY <1>4, <1>5, <2>2, <2>3
        <4>4. cursor' \in Nat /\ cursor <= cursor' /\ (closing => closing')
          BY <1>1, <2>1
        <4> QED
          BY <4>1, <4>2, <4>3, <4>4, RecoverableKept
      <3>5. ASSUME n > cursor, n \notin bad PROVE Recoverable(n)'
        BY <1>5, <2>2, <3>5 DEF Recoverable
      <3>6. ASSUME NEW m \in ns, \A b \in bad : ~(m <= b) PROVE Recoverable(m)'
        <4>1. m \in Nat /\ m > cursor /\ m <= n - 1
          BY <1>1, <1>2
        <4>2. \A q \in m .. n : q \in Frames /\ q > cursor /\ (q \in ns \/ q = n)
          BY <1>1, <1>2, <4>1, DigestFacts
        <4>3. \A q \in m .. n : q \notin bad
          BY <1>1, <3>6, <4>1
        <4>4. n \in m .. n /\ n \in m .. MaxFrame
          BY <1>1, <4>1
        <4>5. \A q \in m .. n : recorded'[q] # "none" \/ implied'[q] # "none"
          BY <1>4, <1>5, <2>2, <2>3, <4>2, <4>3
        <4>6. recorded'[n] # "none"
          BY <1>5, <2>2, <4>2, <4>3, <4>4
        <4> QED
          BY <4>4, <4>5, <4>6 DEF Recoverable
      <3>7. ASSUME NEW m \in handed', m \notin unwritten' PROVE m <= cursor' \/ Recoverable(m)'
        <4>1. CASE m \in ns
          BY <3>1, <3>6, <3>7, <4>1
        <4>2. CASE m = n
          <5>1. n \notin bad
            BY <1>1, <3>1, <3>7, <4>2
          <5> QED
            BY <1>1, <3>5, <4>2, <5>1
        <4>3. CASE m \in handed /\ m \notin ns /\ m # n
          BY <3>1, <3>4, <3>7, <4>3
        <4> QED
          BY <3>1, <4>1, <4>2, <4>3
      <3> QED
        BY <3>3, <3>7 DEF HandedHolds, HandedRecoverable
    <2> QED
      BY <2>4, <2>5, <2>6, <2>7 DEF IInv, ChainHolds
  <1>7. CASE ~(Len(queue) < QueueCap)
    <2>1. /\ recorded' = rec /\ implied' = imp
          /\ UNCHANGED <<queue, handed, unwritten, bodies, delivered, pending, replayed, closing>>
      BY <1>0, <1>7
    <2> HIDE DEF ns, rec, imp
    <2>2. DiskHolds'
      BY <1>4, <1>5, <2>1 DEF IInv, DiskHolds
    <2>3. HandedHolds'
      <3>1. cursor' \in Nat /\ cursor <= cursor' /\ top' \in Nat /\ top <= top'
        BY <1>1
      <3> QED
        BY <1>4, <1>5, <2>1, <3>1, HandedKept
    <2> QED
      BY <2>1, <2>2, <2>3 DEF IInv, ChainHolds, HostHolds, Final, EngineHolds
  <1> QED
    BY <1>6, <1>7

\* A pass hands over the seal: the closing certificate is stored before, and the
\* frames up to the checkpoint but for the writes that failed.
LEMMA DeliverSealInv ==
  ASSUME IInv, Seal \in pending, up, DeliverSeal, ThreadsHold',
         UNCHANGED <<top, sealFinal, up, store, announced, cursor, kept, attempts, sealed_session>>
  PROVE  IInv'
  <1> DEFINE ns == Checkpoint
  <1>0. PICK bad \in SUBSET ns :
           /\ closing' = TRUE
           /\ implied' = RecordImplied(ns \ bad)
           /\ IF Len(queue) < QueueCap
              THEN /\ Send(Seal, ns, bad)
                   /\ delivered' = IF ns # {} THEN MaxFrame ELSE delivered
                   /\ pending' = pending \ {Seal}
              ELSE UNCHANGED <<queue, handed, unwritten, delivered, pending>>
           /\ UNCHANGED <<recorded, bodies, replayed>>
    BY DEF DeliverSeal, Failing
  <1> DEFINE imp == RecordImplied(ns \ bad)
  <1>1. /\ top = MaxFrame /\ sealFinal /\ cursor \in Nat /\ MaxFrame \in Nat
        /\ cursor <= top /\ Seal \in Digests /\ Final(Seal)
    BY DigestFacts DEF IInv, ChainHolds, EngineHolds, HostHolds, Final
  <1>2. /\ ns \subseteq cursor + 1 .. MaxFrame
        /\ \A m \in ns : store[m] # "none" /\ m .. MaxFrame \subseteq ns
    BY CheckpointHeld
  <1>3. ns \subseteq Frames /\ ns \subseteq 1 .. top /\ ns \ bad \subseteq Frames
    BY <1>1, <1>2, DigestFacts
  <1>4. /\ imp \in [Frames -> Kinds]
        /\ \A m \in Frames : implied[m] # "none" \/ m \in ns \ bad => imp[m] # "none"
    BY <1>2, <1>3, RecordImpliedType
  <1>5. /\ closing' /\ closing' \in BOOLEAN /\ implied' = imp
        /\ UNCHANGED <<recorded, bodies, replayed>>
    BY <1>0
  <1>6. DiskHolds'
    BY <1>1, <1>4, <1>5 DEF IInv, DiskHolds
  <1>7. cursor' \in Nat /\ cursor <= cursor' /\ top' \in Nat /\ top <= top'
    BY <1>1
  <1>8. CASE Len(queue) < QueueCap
    <2>1. /\ Send(Seal, ns, bad)
          /\ delivered' = IF ns # {} THEN MaxFrame ELSE delivered
          /\ pending' = pending \ {Seal}
      BY <1>0, <1>8
    <2> HIDE DEF ns, imp
    <2>2. HostHolds'
      <3>1. delivered' \in 0 .. top
        BY <1>1, <2>1 DEF IInv, HostHolds
      <3>2. replayed' \subseteq pending' \ {Seal}
        BY <1>5, <2>1 DEF IInv, HostHolds
      <3> QED
        BY <1>5, <2>1, <3>1, <3>2 DEF IInv, HostHolds, Final
    <2>3. EngineHolds'
      <3>1. queue' = Append(queue, Message(Seal, ns))
        BY <2>1 DEF Send
      <3> QED
        BY <1>1, <1>3, <1>5, <1>8, <3>1, SendHolds
    <2>4. HandedHolds'
      <3>1. /\ handed \subseteq 1 .. top /\ handed' = handed \cup ns
            /\ unwritten' = (unwritten \ ns) \cup {m \in ns : \E b \in bad : m <= b}
        BY <2>1, DigestFacts DEF IInv, HandedHolds, Send
      <3>2. handed' \subseteq 1 .. top
        BY <1>3, <3>1
      <3>3. ASSUME NEW m \in handed, m \notin unwritten PROVE m <= cursor' \/ Recoverable(m)'
        <4>1. m \in Frames
          BY <1>1, <3>1, DigestFacts
        <4>2. m <= cursor \/ Recoverable(m)
          BY <3>3 DEF IInv, HandedHolds, HandedRecoverable
        <4>3. \A q \in Frames : q > cursor' =>
                 /\ recorded[q] # "none" => recorded'[q] # "none"
                 /\ implied[q] # "none" => implied'[q] # "none"
          BY <1>4, <1>5
        <4> QED
          BY <1>5, <1>7, <4>1, <4>2, <4>3, RecoverableKept
      <3>4. ASSUME NEW m \in ns, \A b \in bad : ~(m <= b) PROVE Recoverable(m)'
        <4>1. \A q \in m .. MaxFrame : q \in Frames /\ q \in ns
          BY <1>2, <1>3, DigestFacts
        <4>2. m \in Nat /\ m <= MaxFrame
          BY <1>1, <1>2
        <4>3. \A q \in m .. MaxFrame : q \notin bad
          BY <1>1, <3>4, <4>2
        <4>4. \A q \in m .. MaxFrame : recorded'[q] # "none" \/ implied'[q] # "none"
          BY <1>4, <1>5, <4>1, <4>3
        <4>5. MaxFrame \in m .. MaxFrame
          BY <1>1, <1>2
        <4> QED
          BY <1>5, <4>4, <4>5 DEF Recoverable
      <3>5. ASSUME NEW m \in handed', m \notin unwritten' PROVE m <= cursor' \/ Recoverable(m)'
        BY <3>1, <3>3, <3>4, <3>5
      <3> QED
        BY <3>2, <3>5 DEF HandedHolds, HandedRecoverable
    <2> QED
      BY <1>6, <2>2, <2>3, <2>4 DEF IInv, ChainHolds
  <1>9. CASE ~(Len(queue) < QueueCap)
    <2>1. UNCHANGED <<queue, handed, unwritten, delivered, pending>>
      BY <1>0, <1>9
    <2> HIDE DEF ns, imp
    <2>2. HandedHolds'
      BY <1>4, <1>5, <1>7, <2>1, HandedKept
    <2>3. HostHolds'
      BY <1>5, <2>1 DEF IInv, HostHolds, Final
    <2>4. EngineHolds'
      BY <1>5, <2>1 DEF IInv, EngineHolds
    <2> QED
      BY <1>6, <2>2, <2>3, <2>4 DEF IInv, ChainHolds
  <1> QED
    BY <1>8, <1>9

\* How a pass goes on after trying d.
LEMMA PassTypes ==
  ASSUME IInv, NEW t \in Threads, NEW rest \in SUBSET Digests
  PROVE  LET on == IF rest = {} THEN Resting ELSE [thread[t] EXCEPT !.todo = rest]
         IN  /\ on \in Passes /\ on.todo = rest
             /\ rest # {} => on.at = thread[t].at /\ on.unseen = thread[t].unseen
             /\ Stopped(t, rest) \in Passes /\ Stopped(t, rest).todo = {}
  <1>1. thread[t] \in Passes
    BY DEF IInv, ThreadsHold
  <1>2. /\ [thread[t] EXCEPT !.todo = rest] \in Passes
        /\ [thread[t] EXCEPT !.todo = rest].todo = rest
        /\ [thread[t] EXCEPT !.todo = rest].at = thread[t].at
        /\ [thread[t] EXCEPT !.todo = rest].unseen = thread[t].unseen
    BY <1>1 DEF Passes
  <1>3. [Resting EXCEPT !.at = "drop"] \in Passes /\ [Resting EXCEPT !.at = "drop"].todo = {}
    BY DEF Resting, Passes
  <1> QED
    BY <1>2, <1>3, RestingPass DEF Stopped

\* One delivery of a pass keeps the invariant.
LEMMA TryDeliverInv ==
  ASSUME IInv, NEW t \in Threads, TryDeliver(t)
  PROVE  IInv'
  <1> DEFINE On(rest) == IF rest = {} THEN Resting ELSE [thread[t] EXCEPT !.todo = rest]
  <1>1. /\ up /\ thread[t].at = "deliver"
        /\ UNCHANGED <<top, sealFinal, up, store, announced, cursor, kept, attempts,
                       sealed_session>>
    BY DEF TryDeliver, consensus
  <1>2. PICK d \in thread[t].todo :
           LET rest == thread[t].todo \ {d}
               Moved(next) == thread' = [thread EXCEPT ![t] = next]
           IN  \/ /\ d \notin pending
                  /\ Moved(On(rest))
                  /\ UNCHANGED <<disk, delivered, pending, replayed, queue, handed, unwritten>>
               \/ /\ Moved(Stopped(t, rest))
                  /\ UNCHANGED <<disk, delivered, pending, replayed, queue, handed, unwritten>>
               \/ /\ d \in pending /\ store[d] # "none"
                  /\ IF d = Seal THEN DeliverSeal ELSE DeliverFrame(d)
                  /\ Moved(IF Len(queue) < QueueCap THEN On(rest) ELSE Stopped(t, rest))
    BY DEF TryDeliver
  <1> DEFINE rest == thread[t].todo \ {d}
             Goes(next) == /\ next.todo = {} \/ next.todo = rest
                           /\ next.todo # {} => next.at = "deliver" /\ next.unseen = thread[t].unseen
  <1>3. thread[t].todo \subseteq Digests
    BY DEF IInv, ThreadsHold, Passes
  <1>4. /\ On(rest) \in Passes /\ Goes(On(rest))
        /\ Stopped(t, rest) \in Passes /\ Goes(Stopped(t, rest)) /\ Stopped(t, rest).todo = {}
    <2>1. rest \in SUBSET Digests
      BY <1>3
    <2>2. /\ On(rest) \in Passes /\ On(rest).todo = rest
          /\ rest # {} => On(rest).at = thread[t].at /\ On(rest).unseen = thread[t].unseen
          /\ Stopped(t, rest) \in Passes /\ Stopped(t, rest).todo = {}
      BY <2>1, PassTypes
    <2> HIDE DEF On, rest
    <2> QED
      BY <1>1, <2>2
  <1> HIDE DEF On
  <1>5. CASE /\ UNCHANGED <<disk, delivered, pending, replayed, queue, handed, unwritten>>
             /\ \/ d \notin pending /\ thread' = [thread EXCEPT ![t] = On(rest)]
                \/ thread' = [thread EXCEPT ![t] = Stopped(t, rest)]
    <2>1. PICK next \in Passes :
             /\ Goes(next) /\ (next.todo # {} => d \notin pending')
             /\ thread' = [thread EXCEPT ![t] = next]
      BY <1>4, <1>5
    <2>2. ThreadsHold'
      BY <1>1, <1>5, <2>1, PassAdvances
    <2> QED
      BY <1>1, <1>5, <2>2 DEF disk, IInv, ChainHolds, DiskHolds, HostHolds, Final,
            EngineHolds, HandedHolds, HandedRecoverable, Recoverable
  <1>6. CASE /\ d \in pending /\ store[d] # "none"
             /\ IF d = Seal THEN DeliverSeal ELSE DeliverFrame(d)
             /\ thread' = [thread EXCEPT ![t] =
                             IF Len(queue) < QueueCap THEN On(rest) ELSE Stopped(t, rest)]
    <2>1. /\ pending' \subseteq pending
          /\ Len(queue) < QueueCap => d \notin pending'
      BY <1>6 DEF DeliverSeal, DeliverFrame
    <2>2. PICK next \in Passes :
             /\ Goes(next) /\ (next.todo # {} => d \notin pending')
             /\ thread' = [thread EXCEPT ![t] = next]
      <3>1. CASE Len(queue) < QueueCap
        BY <1>4, <1>6, <2>1, <3>1
      <3>2. CASE ~(Len(queue) < QueueCap)
        BY <1>4, <1>6, <3>2
      <3> QED
        BY <3>1, <3>2
    <2>3. ThreadsHold'
      BY <1>1, <2>1, <2>2, PassAdvances
    <2>4. CASE d = Seal
      BY <1>1, <1>6, <2>3, <2>4, DeliverSealInv
    <2>5. CASE d # Seal
      <3>1. d \in Frames
        BY <1>3, <2>5, DigestFacts
      <3> QED
        BY <1>1, <1>6, <2>3, <2>5, <3>1, DeliverFrameInv
    <2> QED
      BY <2>4, <2>5
  <1> QED
    BY <1>2, <1>5, <1>6

\* Letting materialized records go keeps it.
LEMMA DropMaterializedInv ==
  ASSUME IInv, NEW t \in Threads, DropMaterialized(t)
  PROVE  IInv'
  <1>1. /\ up
        /\ UNCHANGED <<top, sealFinal, bodies, recorded, implied, closing, up, store, announced,
                       delivered, cursor, queue, kept, attempts, sealed_session, handed, unwritten>>
    BY DEF DropMaterialized, consensus, disk, engine, ghosts
  <1>2. \/ /\ thread' = [thread EXCEPT ![t] = Resting]
           /\ UNCHANGED <<pending, replayed>>
        \/ /\ pending' \subseteq pending
           /\ replayed' = replayed \cap pending'
           /\ thread' = [thread EXCEPT ![t] = Sweep(pending', TRUE)]
    BY DEF DropMaterialized
  <1>3. pending' \subseteq pending /\ replayed' \subseteq pending' \ {Seal}
    BY <1>2 DEF IInv, HostHolds
  <1>4. HostHolds'
    BY <1>1, <1>3 DEF IInv, HostHolds, Final
  <1>5. PICK next \in Passes :
           /\ next.todo = {} \/ (next.todo = pending' /\ next.at = "deliver")
           /\ thread' = [thread EXCEPT ![t] = next]
    <2>1. pending' \in SUBSET Digests
      BY <1>3 DEF IInv, HostHolds
    <2>2. Sweep(pending', TRUE) \in Passes /\ Sweep(pending', TRUE).todo = pending'
      BY <2>1, SweepPass
    <2>3. Sweep(pending', TRUE).at = "deliver"
      BY DEF Sweep
    <2> QED
      BY <1>2, <2>2, <2>3, RestingPass
  <1>6. ThreadsHold'
    <2>1. thread' \in [Threads -> Passes] /\ thread'[t] = next
      BY <1>5 DEF IInv, ThreadsHold
    <2>2. \A h \in Threads : h # t => thread'[h] = thread[h] /\ Sound(thread[h])
      BY <1>5 DEF IInv, ThreadsHold
    <2>3. \A h \in Threads : h # t => Sound(thread[h])'
      BY <1>1, <1>3, <2>2 DEF Sound, Final
    <2>4. Sound(thread[t])'
      <3>1. \A d \in pending' : Final(d)'
        BY <1>4 DEF HostHolds
      <3> QED
        BY <1>5, <2>1, <3>1 DEF Sound
    <2>5. \A h \in Threads : thread'[h].todo # {} => thread'[h].at = "deliver"
      BY <1>5, <2>1, <2>2 DEF IInv, ThreadsHold
    <2> QED
      BY <1>1, <2>1, <2>3, <2>4, <2>5 DEF ThreadsHold
  <1> QED
    BY <1>1, <1>4, <1>6 DEF IInv, ChainHolds, DiskHolds, EngineHolds,
          HandedHolds, HandedRecoverable, Recoverable

-----------------------------------------------------------------------------
(* The engine, stops and starts                                            *)

\* A stopped host holds nothing.
LEMMA HostDownHolds ==
  ASSUME IInv, HostDown, UNCHANGED <<top, sealFinal, bodies>>
  PROVE  HostHolds' /\ ThreadsHold' /\ up' = FALSE
  <1>1. /\ up' = FALSE /\ up' \in BOOLEAN /\ pending' = {} /\ replayed' = {} /\ delivered' = 0
        /\ announced' = {} /\ store' \in [Digests -> Kinds]
        /\ thread' = [t \in Threads |-> Resting]
    BY DEF HostDown, Kinds
  <1>2. 0 \in 0 .. top'
    BY DEF IInv, ChainHolds
  <1>3. HostHolds'
    BY <1>1, <1>2 DEF HostHolds
  <1>4. Sound(Resting)'
    BY DEF Sound, Resting
  <1>5. \A t \in Threads : thread'[t] = Resting
    BY <1>1
  <1>6. ThreadsHold'
    BY <1>1, <1>4, <1>5, RestingPass DEF ThreadsHold, Sound
  <1> QED
    BY <1>1, <1>3, <1>6

\* The cursor moves over final frames only, and nothing at or below it is kept.
LEMMA MaterializeHolds ==
  ASSUME IInv, NEW ns \in SUBSET (1 .. top), Materialize(ns)
  PROVE  /\ cursor' \in 0 .. top /\ cursor <= cursor'
         /\ kept' \subseteq cursor' + 1 .. top /\ attempts' \in 0 .. Retries - 1
  <1>1. /\ cursor \in 0 .. top /\ top \in Nat /\ MaxFrame \in Nat /\ kept \subseteq cursor + 1 .. top
        /\ attempts \in 0 .. Retries - 1 /\ 0 \in 0 .. Retries - 1
    BY DigestFacts, DeliveryAssumption DEF IInv, EngineHolds, ChainHolds
  <1>2. PICK c \in cursor .. MaxFrame :
            /\ cursor + 1 .. c \subseteq ns
            /\ cursor' = c
            /\ kept' = {n \in kept \cup ns : n > c}
            /\ attempts' = IF c = cursor THEN attempts ELSE 0
    BY DEF Materialize
  <1>3. c <= top
    <2>1. CASE c = cursor
      BY <1>1, <2>1
    <2>2. CASE c # cursor
      <3>1. c \in cursor + 1 .. c
        BY <1>1, <1>2, <2>2
      <3> QED
        BY <1>2, <3>1
    <2> QED
      BY <2>1, <2>2
  <1>4. \A n \in kept \cup ns : n \in Nat /\ n <= top
    BY <1>1
  <1>5. kept' \subseteq c + 1 .. top
    <2>1. c \in Nat
      BY <1>1, <1>2
    <2>2. \A n \in kept' : n \in Nat /\ n <= top /\ n > c
      BY <1>2, <1>4
    <2> QED
      BY <1>1, <2>1, <2>2
  <1> QED
    BY <1>1, <1>2, <1>3, <1>5

\* A step of the engine that moves the cursor on.
LEMMA CursorMoves ==
  ASSUME IInv, cursor' \in 0 .. top, cursor <= cursor', kept' \subseteq cursor' + 1 .. top,
         attempts' \in 0 .. Retries - 1, HostHolds', ThreadsHold',
         queue' \in Seq(Messages), Len(queue') <= QueueCap,
         \A i \in 1 .. Len(queue') :
             /\ DOMAIN queue'[i].bodies \subseteq 1 .. top
             /\ queue'[i].digest \in Frames => queue'[i].digest \in DOMAIN queue'[i].bodies
             /\ queue'[i].digest = Seal => closing,
         sealed_session' \in BOOLEAN, sealed_session' => closing /\ ~up',
         UNCHANGED <<top, sealFinal, bodies, recorded, implied, closing, handed, unwritten>>
  PROVE  IInv'
  <1>1. EngineHolds'
    BY DEF EngineHolds
  <1>2. top' \in Nat /\ top <= top' /\ cursor' \in Nat
    BY DEF IInv, ChainHolds
  <1>3. HandedHolds'
    BY <1>2, HandedKept
  <1> QED
    BY <1>1, <1>3 DEF IInv, ChainHolds, DiskHolds

\* The engine handling what it was sent keeps it.
LEMMA HandleInv == ASSUME IInv, Handle PROVE IInv'
  <1> DEFINE m == Head(queue)
  <1>1. /\ queue # << >> /\ queue' = Tail(queue)
        /\ \/ UNCHANGED <<cursor, kept, attempts>>
           \/ Materialize(Own(m))
           \/ Materialize(Before(m))
           \/ Materialize(DOMAIN m.bodies)
    BY DEF Handle, HandleFinalizedFrame, HandleSealed
  <1>2. /\ \/ m.digest = Seal /\ HostDown /\ sealed_session' = TRUE
           \/ UNCHANGED <<up, store, announced, pending, replayed, delivered, thread, sealed_session>>
        /\ UNCHANGED <<top, sealFinal, bodies, recorded, implied, closing, handed, unwritten>>
    BY DEF Handle, HandleFinalizedFrame, HandleSealed, host, consensus, disk
  <1>3. queue \in Seq(Messages) /\ Len(queue) \in Nat /\ Len(queue) >= 1
    BY <1>1 DEF IInv, EngineHolds
  <1>4. m = queue[1] /\ 1 \in 1 .. Len(queue)
    BY <1>3
  <1>5. /\ DOMAIN m.bodies \subseteq 1 .. top
        /\ Own(m) \subseteq DOMAIN m.bodies /\ Before(m) \subseteq DOMAIN m.bodies
        /\ m.digest = Seal => closing
    BY <1>4 DEF IInv, EngineHolds, Own, Before
  <1> HIDE DEF m
  <1>6. /\ queue' \in Seq(Messages) /\ Len(queue') = Len(queue) - 1
        /\ \A i \in 1 .. Len(queue') : queue'[i] = queue[i + 1] /\ i + 1 \in 1 .. Len(queue)
    BY <1>1, <1>3
  <1>7. QueueCap \in Nat /\ Len(queue) <= QueueCap
    BY DeliveryAssumption DEF IInv, EngineHolds
  <1>8. Len(queue') <= QueueCap
    BY <1>3, <1>6, <1>7
  <1>9. \A i \in 1 .. Len(queue') :
            /\ DOMAIN queue'[i].bodies \subseteq 1 .. top
            /\ queue'[i].digest \in Frames => queue'[i].digest \in DOMAIN queue'[i].bodies
            /\ queue'[i].digest = Seal => closing
    BY <1>6 DEF IInv, EngineHolds
  <1>10. /\ cursor' \in 0 .. top /\ cursor <= cursor'
         /\ kept' \subseteq cursor' + 1 .. top /\ attempts' \in 0 .. Retries - 1
    <2>1. CASE UNCHANGED <<cursor, kept, attempts>>
      BY <2>1 DEF IInv, EngineHolds, ChainHolds
    <2>2. CASE Materialize(Own(m))
      BY <1>5, <2>2, MaterializeHolds
    <2>3. CASE Materialize(Before(m))
      BY <1>5, <2>3, MaterializeHolds
    <2>4. CASE Materialize(DOMAIN m.bodies)
      BY <1>5, <2>4, MaterializeHolds
    <2> QED
      BY <1>1, <2>1, <2>2, <2>3, <2>4
  <1>11. /\ HostHolds' /\ ThreadsHold' /\ sealed_session' \in BOOLEAN
         /\ sealed_session' => closing /\ ~up'
    <2>1. CASE m.digest = Seal /\ HostDown /\ sealed_session' = TRUE
      BY <1>2, <1>5, <2>1, HostDownHolds
    <2>2. CASE UNCHANGED <<up, store, announced, pending, replayed, delivered, thread,
                           sealed_session>>
      BY <1>2, <2>2 DEF IInv, HostHolds, ThreadsHold, Sound, Final, EngineHolds
    <2> QED
      BY <1>2, <2>1, <2>2
  <1> QED
    BY <1>2, <1>6, <1>8, <1>9, <1>10, <1>11, CursorMoves

\* Applying a kept frame keeps it.
LEMMA FollowInv == ASSUME IInv, Follow PROVE IInv'
  <1>1. /\ cursor + 1 \in kept /\ Materialize({cursor + 1})
        /\ UNCHANGED <<top, sealFinal, bodies, recorded, implied, closing, up, store, pending,
                       replayed, announced, delivered, thread, queue, sealed_session, handed, unwritten>>
    BY DEF Follow, consensus, disk, host
  <1>2. kept \subseteq 1 .. top
    BY DEF IInv, EngineHolds, ChainHolds
  <1>3. {cursor + 1} \in SUBSET (1 .. top)
    BY <1>1, <1>2
  <1>4. /\ cursor' \in 0 .. top /\ cursor <= cursor'
        /\ kept' \subseteq cursor' + 1 .. top /\ attempts' \in 0 .. Retries - 1
    BY <1>1, <1>3, MaterializeHolds
  <1>5. HostHolds' /\ ThreadsHold'
    BY <1>1 DEF IInv, HostHolds, ThreadsHold, Sound, Final
  <1> QED
    BY <1>1, <1>4, <1>5, CursorMoves DEF IInv, EngineHolds

\* A hard failure, and the frame dropped at the limit, keep it.
LEMMA FollowFailsInv == ASSUME IInv, FollowFails PROVE IInv'
  <1>1. /\ kept' \subseteq kept
        /\ attempts' = 0 \/ (attempts + 1 < Retries /\ attempts' = attempts + 1)
        /\ UNCHANGED <<top, sealFinal, bodies, recorded, implied, closing, up, store, pending,
                       replayed, announced, delivered, thread, cursor, queue, sealed_session,
                       handed, unwritten>>
    <2>1. attempts \in Nat /\ Retries \in Nat
      BY DeliveryAssumption DEF IInv, EngineHolds
    <2> QED
      BY <2>1 DEF FollowFails, consensus, disk, host
  <1>2. attempts \in 0 .. Retries - 1 /\ Retries \in Nat \ {0}
    BY DeliveryAssumption DEF IInv, EngineHolds
  <1>3. attempts' \in 0 .. Retries - 1
    BY <1>1, <1>2
  <1>4. /\ cursor' \in 0 .. top /\ cursor <= cursor'
        /\ kept' \subseteq cursor' + 1 .. top
    BY <1>1 DEF IInv, EngineHolds, ChainHolds
  <1>5. HostHolds' /\ ThreadsHold'
    BY <1>1 DEF IInv, HostHolds, ThreadsHold, Sound, Final
  <1> QED
    BY <1>1, <1>3, <1>4, <1>5, CursorMoves DEF IInv, EngineHolds

\* Replay from an archive keeps it.
LEMMA ArchiveReplayInv == ASSUME IInv, ArchiveReplay PROVE IInv'
  <1>1. /\ cursor < top /\ cursor' = cursor + 1 /\ kept' = kept \ {cursor + 1}
        /\ attempts' = 0
        /\ UNCHANGED <<top, sealFinal, bodies, recorded, implied, closing, up, store, pending,
                       replayed, announced, delivered, thread, queue, sealed_session, handed, unwritten>>
    BY DEF ArchiveReplay, consensus, disk, host
  <1>2. /\ cursor' \in 0 .. top /\ cursor <= cursor'
        /\ kept' \subseteq cursor' + 1 .. top /\ attempts' \in 0 .. Retries - 1
    BY <1>1, DeliveryAssumption DEF IInv, EngineHolds, ChainHolds
  <1>3. HostHolds' /\ ThreadsHold'
    BY <1>1 DEF IInv, HostHolds, ThreadsHold, Sound, Final
  <1> QED
    BY <1>1, <1>2, <1>3, CursorMoves DEF IInv, EngineHolds

\* A crash keeps it.
LEMMA CrashInv == ASSUME IInv, Crash PROVE IInv'
  <1>1. /\ HostDown /\ queue' = << >> /\ kept' = {} /\ attempts' = 0 /\ sealed_session' = FALSE
        /\ UNCHANGED <<top, sealFinal, bodies, recorded, implied, closing, cursor, handed, unwritten>>
    BY DEF Crash, consensus, disk
  <1>2. HostHolds' /\ ThreadsHold' /\ up' = FALSE
    BY <1>1, HostDownHolds
  <1>3. queue' \in Seq(Messages) /\ Len(queue') = 0 /\ QueueCap \in Nat
    BY <1>1, DeliveryAssumption
  <1>4. cursor \in 0 .. top /\ cursor' = cursor
    BY <1>1 DEF IInv, EngineHolds
  <1>5. cursor' \in 0 .. top /\ cursor <= cursor' /\ kept' \subseteq cursor' + 1 .. top
    BY <1>1, <1>4 DEF IInv, ChainHolds
  <1>6. sealed_session' \in BOOLEAN /\ ~sealed_session'
    BY <1>1
  <1>7. attempts' \in 0 .. Retries - 1
    BY <1>1, DeliveryAssumption
  <1> QED
    BY <1>1, <1>2, <1>3, <1>5, <1>6, <1>7, CursorMoves

\* Rebuilding a host from its records keeps it.
LEMMA RebuildInv == ASSUME IInv, Rebuild PROVE IInv'
  <1>1. /\ up /\ HostDown
        /\ UNCHANGED <<top, sealFinal, bodies, recorded, implied, closing, cursor, queue, kept,
                       attempts, sealed_session, handed, unwritten>>
    BY DEF Rebuild, consensus, disk, engine, ghosts
  <1>2. HostHolds' /\ ThreadsHold' /\ up' = FALSE
    BY <1>1, HostDownHolds
  <1>3. /\ cursor' \in 0 .. top /\ cursor <= cursor'
        /\ kept' \subseteq cursor' + 1 .. top
    BY <1>1 DEF IInv, EngineHolds, ChainHolds
  <1> QED
    BY <1>1, <1>2, <1>3, CursorMoves DEF IInv, EngineHolds

\* Sealed bodies are restored as sealed, and what is queued again is final.
LEMMA StartInv == ASSUME IInv, Start PROVE IInv'
  <1> DEFINE seals == IF closing THEN {Seal} ELSE {}
             again == {n \in Frames : Replayable(n)}
  <1>1. /\ ~up /\ ~sealed_session
        /\ store' = [d \in Digests |-> Restored(d, seals)]
        /\ pending' = again \cup seals
        /\ replayed' = again
        /\ up' = TRUE
        /\ thread' = [thread EXCEPT ![Host] =
                        IF pending' = {} THEN Resting ELSE Sweep(pending', FALSE)]
        /\ UNCHANGED <<top, sealFinal, bodies, recorded, implied, closing, announced, delivered,
                       cursor, queue, kept, attempts, sealed_session, handed, unwritten>>
    BY DEF Start, consensus, disk, engine, ghosts
  <1>2. again \subseteq Frames /\ seals \subseteq {Seal} /\ Seal \notin again
    BY DigestFacts
  <1>3. \A n \in again : recorded[n] # "none"
    BY DEF Replayable
  <1>4. \A d \in pending' : d \in Digests /\ Final(d)
    <2>1. ASSUME NEW n \in again PROVE n \in Digests /\ Final(n)
      BY <1>2, <1>3, DigestFacts DEF IInv, DiskHolds, Final
    <2>2. ASSUME Seal \in seals PROVE Seal \in Digests /\ Final(Seal)
      BY <2>2, DigestFacts DEF IInv, DiskHolds, ChainHolds, Final
    <2> QED
      BY <1>1, <1>2, <2>1, <2>2
  <1>5. \A d \in Digests : Restored(d, seals) \in Kinds /\ (d \in bodies => Restored(d, seals) = "sealed")
    <2>1. \A d \in Digests : d # Seal => recorded[d] \in Kinds /\ implied[d] \in Kinds
      BY DigestFacts DEF IInv, DiskHolds
    <2>2. "sealed" \in Kinds /\ "none" \in Kinds
      BY DEF Kinds, Held
    <2> HIDE DEF seals
    <2> QED
      BY <2>1, <2>2 DEF Restored
  <1>6. store' \in [Digests -> Kinds] /\ \A d \in bodies : store'[d] = "sealed"
    <2> HIDE DEF seals
    <2> QED
      BY <1>1, <1>5 DEF IInv, DiskHolds
  <1> HIDE DEF seals, again
  <1>7. pending' \subseteq Digests /\ replayed' \subseteq pending' \ {Seal}
    BY <1>1, <1>2, <1>4
  <1>8. \A d \in pending' : Final(d)'
    BY <1>1, <1>4 DEF Final
  <1>9. HostHolds'
    BY <1>1, <1>6, <1>7, <1>8 DEF IInv, HostHolds
  <1>10. PICK next \in Passes : /\ next.todo = pending' /\ (pending' # {} => next.at = "deliver")
                                /\ thread' = [thread EXCEPT ![Host] = next]
    <2>1. Sweep(pending', FALSE) \in Passes /\ Sweep(pending', FALSE).todo = pending'
      BY <1>7, SweepPass
    <2>2. Sweep(pending', FALSE).at = "deliver"
      BY DEF Sweep
    <2> QED
      BY <1>1, <2>1, <2>2, RestingPass
  <1>11. ThreadsHold'
    <2>1. thread' \in [Threads -> Passes]
      BY <1>10 DEF IInv, ThreadsHold
    <2>2. \A t \in Threads : thread'[t].todo = {} \/ thread'[t].todo = pending'
      BY <1>1, <1>10 DEF IInv, ThreadsHold
    <2>3. \A t \in Threads : Sound(thread[t])'
      BY <1>8, <2>2 DEF Sound
    <2>4. \A t \in Threads : thread'[t].todo # {} => thread'[t].at = "deliver"
      BY <1>10 DEF IInv, ThreadsHold
    <2> QED
      BY <1>1, <2>1, <2>3, <2>4 DEF ThreadsHold
  <1>12. EngineHolds'
    BY <1>1 DEF IInv, EngineHolds
  <1> QED
    BY <1>1, <1>9, <1>11, <1>12 DEF IInv, ChainHolds, DiskHolds, HandedHolds,
          HandedRecoverable, Recoverable

-----------------------------------------------------------------------------
(* The theorems.                                                           *)

\* Every step, and stuttering.
LEMMA NextInv == IInv /\ [Next]_vars => IInv'
  <1> SUFFICES ASSUME IInv, [Next]_vars PROVE IInv'
    OBVIOUS
  <1>1. CASE \E d \in Digests : Verify(d) \/ OnFinalized(d)
                                 \/ \E b \in {"cand", "swap"} : BodyArrives(d, b)
    BY <1>1, VerifyInv, OnFinalizedInv, BodyArrivesInv
  <1>2. CASE \E t \in Threads : Retry(t) \/ Pass(t)
    BY <1>2, RetryInv, TryDeliverInv, DropMaterializedInv DEF Pass
  <1>3. CASE Handle \/ Follow \/ FollowFails \/ ArchiveReplay
    BY <1>3, HandleInv, FollowInv, FollowFailsInv, ArchiveReplayInv
  <1>4. CASE Crash \/ Rebuild \/ Start
    BY <1>4, CrashInv, RebuildInv, StartInv
  <1>5. CASE UNCHANGED vars
    BY <1>5 DEF vars, consensus, disk, host, engine, ghosts, IInv, ChainHolds, DiskHolds, HostHolds,
          ThreadsHold, Sound, Final, EngineHolds, HandedHolds, HandedRecoverable, Recoverable
  <1> QED
    BY <1>1, <1>2, <1>3, <1>4, <1>5 DEF Next

\* The inductive invariant holds in every reachable state.
THEOREM Invariance == Spec => []IInv
  BY InitInv, NextInv, PTL DEF Spec

\* What the host, the engine and the disk hold is of one finalized chain, and
\* a frame handed over survives every stop (try_deliver, prune_delivered).
THEOREM DeliverySafe == Spec => []DeliveryInv
  <1>1. IInv => DeliveryInv
    <2> SUFFICES ASSUME IInv PROVE DeliveryInv
      OBVIOUS
    <2>1. TypeOK
      BY DEF IInv, TypeOK, ChainHolds, DiskHolds, HostHolds, ThreadsHold, Passes,
            EngineHolds, Final
    <2> QED
      BY <2>1 DEF IInv, HandedHolds, DeliveryInv
  <1> QED
    BY <1>1, Invariance, PTL

\* What one step of a pass does to the channel and the pending finalizations:
\* nothing, or the lowest of its snapshot leaves the one for the other.
HandsOver(t, d, ns) ==
    /\ up /\ d \in thread[t].todo /\ d \in pending
    /\ \A e \in thread[t].todo \ {d} : View(d) <= View(e)
    /\ pending' = pending \ {d}
    /\ queue' = Append(queue, Message(d, ns))
    /\ \A h \in Threads \ {t} : thread'[h] = thread[h]

\* A delivery hands one pending digest over, or nothing.
LEMMA TryDeliverStep ==
  ASSUME IInv, NEW t \in Threads, TryDeliver(t)
  PROVE  \/ UNCHANGED <<queue, pending>>
         \/ \E d \in Digests, ns \in SUBSET Frames : HandsOver(t, d, ns)
  <1>1. PICK d \in thread[t].todo :
           /\ \A e \in thread[t].todo \ {d} : View(d) <= View(e)
           /\ \/ UNCHANGED <<queue, pending>>
              \/ /\ d \in pending
                 /\ IF d = Seal THEN DeliverSeal ELSE DeliverFrame(d)
    BY DEF TryDeliver
  <1>2. d \in Digests /\ up /\ \A h \in Threads \ {t} : thread'[h] = thread[h]
    BY DEF IInv, ThreadsHold, Passes, TryDeliver
  <1>3. ASSUME d \in pending, d = Seal, DeliverSeal, ~UNCHANGED <<queue, pending>>
        PROVE  HandsOver(t, d, Checkpoint) /\ Checkpoint \in SUBSET Frames
    <2>1. Checkpoint \subseteq cursor + 1 .. MaxFrame /\ cursor \in Nat
      BY CheckpointHeld DEF IInv, EngineHolds, ChainHolds
    <2>2. Checkpoint \subseteq Frames
      BY <2>1, DigestFacts
    <2> QED
      BY <1>1, <1>2, <1>3, <2>2 DEF DeliverSeal, Send, HandsOver
  <1>4. ASSUME d \in pending, d # Seal, DeliverFrame(d), ~UNCHANGED <<queue, pending>>
        PROVE  HandsOver(t, d, Ancestors(d)) /\ Ancestors(d) \in SUBSET Frames
    <2>1. d \in Frames
      BY <1>2, <1>4, DigestFacts
    <2>2. Ancestors(d) \subseteq cursor + 1 .. d - 1 /\ cursor \in Nat
      BY <2>1, AncestorsHeld DEF IInv, EngineHolds, ChainHolds
    <2>3. Ancestors(d) \subseteq Frames
      BY <2>1, <2>2, DigestFacts
    <2> QED
      BY <1>1, <1>2, <1>4, <2>3 DEF DeliverFrame, Send, HandsOver
  <1> QED
    BY <1>1, <1>2, <1>3, <1>4

\* The message of a step that hands something over.
LEMMA HandsOverSends ==
  ASSUME IInv, NEW t, NEW d \in Digests, NEW ns \in SUBSET Frames, HandsOver(t, d, ns)
  PROVE  Sends /\ Sent = Message(d, ns)
  <1>1. queue \in Seq(Messages) /\ Message(d, ns) \in Messages
    BY MessageType DEF IInv, EngineHolds
  <1> QED
    BY <1>1 DEF HandsOver, Sends, Sent

\* Nothing else writes to the engine's channel.
LEMMA SendStep ==
  ASSUME IInv, [Next]_vars, Sends
  PROVE  \E t \in Threads, d \in Digests, ns \in SUBSET Frames : HandsOver(t, d, ns)
  <1>1. queue \in Seq(Messages) /\ Len(queue) \in Nat
    BY DEF IInv, EngineHolds
  <1>2. queue' # queue /\ queue' # << >>
    BY <1>1 DEF Sends
  <1>3. ~Handle
    BY <1>1 DEF Handle, Sends
  <1>4. PICK t \in Threads : TryDeliver(t)
    BY <1>2, <1>3 DEF Next, vars, engine, Verify, OnFinalized, BodyArrives, Retry, Pass,
          DropMaterialized, Follow, FollowFails, ArchiveReplay, Crash, Rebuild, Start
  <1> QED
    BY <1>2, <1>4, TryDeliverStep

\* A pending finalization of a running host ends only by being handed over or
\* because the engine is past it (try_deliver, drop_materialized).
THEOREM EndsSafe == Spec => EndsHandedOrMaterialized
  <1> DEFINE Step == up /\ up' => \A d \in pending \ pending' :
                        (Sends /\ Sent.digest = d) \/ (d # Seal /\ d <= cursor)
  <1>1. IInv /\ [Next]_vars => Step
    <2> SUFFICES ASSUME IInv, [Next]_vars, up, up', NEW d \in pending, d \notin pending'
                 PROVE  (Sends /\ Sent.digest = d) \/ (d # Seal /\ d <= cursor)
      OBVIOUS
    <2>1. d \in Digests
      BY DEF IInv, HostHolds
    <2>2. (\E t \in Threads : TryDeliver(t)) \/ (\E t \in Threads : DropMaterialized(t))
      <3>1. ~HostDown
        BY DEF HostDown
      <3>2. ~Handle \/ pending' = pending
        BY <3>1 DEF Handle, HandleFinalizedFrame, HandleSealed, host
      <3> QED
        BY <3>1, <3>2 DEF Next, vars, host, Verify, OnFinalized, BodyArrives, Retry, Pass,
              Follow, FollowFails, ArchiveReplay, Crash, Rebuild, Start
    <2>3. ASSUME NEW t \in Threads, TryDeliver(t) PROVE Sends /\ Sent.digest = d
      <3>1. PICK e \in Digests, ns \in SUBSET Frames : HandsOver(t, e, ns)
        BY <2>3, TryDeliverStep
      <3>2. d = e
        BY <3>1 DEF HandsOver
      <3>3. Sends /\ Sent = Message(e, ns)
        BY <3>1, HandsOverSends
      <3> QED
        BY <3>2, <3>3, MessageType
    <2>4. ASSUME NEW t \in Threads, DropMaterialized(t) PROVE d # Seal /\ d <= cursor
      <3> DEFINE shown == {View(e) : e \in {e \in pending \ replayed :
                                                store[e] = "sealed" /\ Shows(e)}}
                 dropped == {e \in pending : store[e] = "none" /\ \E v \in shown : View(e) < v}
      <3>1. d \in dropped
        BY <2>4 DEF DropMaterialized
      <3>2. PICK e \in pending : Shows(e) /\ View(d) < View(e)
        BY <3>1
      <3>3. e \in Digests /\ cursor \in Nat
        BY <3>2 DEF IInv, HostHolds, EngineHolds, ChainHolds
      <3>4. d # Seal
        BY <2>1, <3>2, <3>3, DigestFacts
      <3>5. View(d) = d /\ d \in Nat /\ d <= MaxFrame
        BY <2>1, <3>4, DigestFacts
      <3>6. CASE e = Seal
        BY <3>2, <3>3, <3>5, <3>6, DigestFacts DEF Shows
      <3>7. CASE e # Seal
        BY <3>2, <3>3, <3>5, <3>7, DigestFacts DEF Shows
      <3> QED
        BY <3>4, <3>6, <3>7
    <2> QED
      BY <2>2, <2>3, <2>4
  <1>2. Spec => [][Step]_vars
    BY <1>1, Invariance, PTL DEF Spec
  <1> QED
    BY <1>2 DEF EndsHandedOrMaterialized

\* No frame is handed over ahead of a pending finalization of a lower one, but
\* for one reported since the pass took its snapshot (deliver_in_order).
THEOREM InOrderSafe == Spec => InOrder
  <1> DEFINE Step == \A t \in Threads : Sends /\ thread'[t] # thread[t] =>
                        \A d \in pending' \ {Seal} :
                            d > Through(Sent.digest) \/ d \in DOMAIN Sent.bodies \cup thread[t].unseen
  <1>1. IInv /\ [Next]_vars => Step
    <2> SUFFICES ASSUME IInv, [Next]_vars, NEW t \in Threads, Sends, thread'[t] # thread[t],
                        NEW f \in pending', f # Seal, f \notin thread[t].unseen
                 PROVE  f > Through(Sent.digest)
      OBVIOUS
    <2>1. PICK h \in Threads, d \in Digests, ns \in SUBSET Frames : HandsOver(h, d, ns)
      BY SendStep
    <2>2. Sent.digest = d /\ h = t
      BY <2>1, HandsOverSends, MessageType DEF HandsOver
    <2>3. /\ d \in thread[t].todo /\ f \in pending /\ f # d
          /\ \A e \in thread[t].todo \ {d} : View(d) <= View(e)
      BY <2>1, <2>2 DEF HandsOver
    <2>4. f \in Digests /\ f \in Frames /\ View(f) = f
      BY <2>3, DigestFacts DEF IInv, HostHolds
    <2>5. View(f) < View(d) => f \in thread[t].todo
      BY <2>3 DEF IInv, ThreadsHold, Sound
    <2>6. ~(View(f) < View(d))
      BY <2>3, <2>4, <2>5, DigestFacts
    <2>7. View(f) > View(d)
      BY <2>3, <2>4, <2>6, ViewInjective, DigestFacts
    <2>8. Through(d) <= View(d)
      BY DigestFacts
    <2> QED
      BY <2>2, <2>4, <2>7, <2>8, DigestFacts
  <1>2. Spec => [][Step]_vars
    BY <1>1, Invariance, PTL DEF Spec
  <1> QED
    BY <1>2 DEF InOrder

\* Bytes this node verified are sent as verified (restore at start, seal).
THEOREM VerifiedSafe == Spec => VerifiedBytesSent
  <1> DEFINE Step == Sends => \A d \in DOMAIN Sent.bodies \cap bodies : Sent.bodies[d] = "sealed"
  <1>1. IInv /\ [Next]_vars => Step
    <2> SUFFICES ASSUME IInv, [Next]_vars, Sends, NEW n \in DOMAIN Sent.bodies, n \in bodies
                 PROVE  Sent.bodies[n] = "sealed"
      OBVIOUS
    <2>1. PICK t \in Threads, d \in Digests, ns \in SUBSET Frames : HandsOver(t, d, ns)
      BY SendStep
    <2>2. up /\ Sent = Message(d, ns)
      BY <2>1, HandsOverSends DEF HandsOver
    <2>3. Sent.bodies[n] = store[n]
      BY <2>2, MessageType
    <2> QED
      BY <2>2, <2>3 DEF IInv, HostHolds
  <1>2. Spec => [][Step]_vars
    BY <1>1, Invariance, PTL DEF Spec
  <1> QED
    BY <1>2 DEF VerifiedBytesSent
=============================================================================
