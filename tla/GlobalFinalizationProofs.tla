---------------------- MODULE GlobalFinalizationProofs ----------------------
(***************************************************************************)
(* Proofs about GlobalFinalization for every height bound, window, queue   *)
(* size, attempt limit, set of certified heights, set of frames failing    *)
(* authentication and number of crashes.                                   *)
(*                                                                         *)
(* Executed frames come out of the worker, which takes them from the queue,*)
(* the candidate store or the canonical clock several steps before they    *)
(* are executed, so the invariant follows a finalized frame through all of *)
(* them: what is certified, queued or canonical is on the finalized chain  *)
(* (StoreOnChain), and the frame the worker carries is the one its place   *)
(* says (WorkerOnChain, MarkerOnChain).                                    *)
(***************************************************************************)
EXTENDS GlobalFinalization, FiniteSetTheorems, WellFoundedInduction, TLAPS

\* Everything certified, queued or canonical is finalized.
StoreOnChain ==
    /\ \A h \in Height : canon[h] \in {None, Main(h)}
    /\ \A f \in certs \cup offering : f = Main(f.number)
    /\ \A h \in DOMAIN queued : queued[h] = Main(h)

\* The worker carries the frame above the cursor until it is executed, and the
\* frame at the cursor after.
WorkerOnChain ==
    /\ work.at = "missing" => NextHeight \in Height
    /\ work.at \in {"chosen", "canonical", "begun"} =>
          NextHeight \in Height /\ work.frame = Main(NextHeight)
    /\ work.at \in {"canonical", "begun"} => canon[NextHeight] = work.frame
    /\ work.at \in {"published", "committed", "executed"} =>
          Cursor \in Height /\ work.frame = Main(Cursor)

\* The marker exists only while a frame executes in place, or after a crash.
MarkerOnChain ==
    /\ work.at \notin {"begun", "committed", "down"} => pending = None
    /\ work.at = "begun" => pending = work.frame
    /\ work.at = "committed" => pending = work.frame
    /\ pending # None =>
          \/ NextHeight \in Height /\ pending = Main(NextHeight) /\ canon[NextHeight] = pending
          \/ Cursor \in Height /\ pending = Main(Cursor)
    /\ pending = None /\ receipt # None => receipt = Base

\* The clock has a record of every executed and every announced frame.
ClockCoversState ==
    /\ \A h \in 1 .. Cursor : canon[h] = Main(h)
    /\ \A f \in announced : f = Main(f.number) /\ canon[f.number] = f

IInv ==
    /\ TypeOK
    /\ StoreOnChain
    /\ ExecutedIsFinalized
    /\ WorkerOnChain
    /\ MarkerOnChain
    /\ ClockCoversState

-----------------------------------------------------------------------------
(* Lemmas                                                                  *)

\* Frames of the chain are frames, differ from None and know their height.
LEMMA FrameFacts ==
    /\ \A h \in Height : Main(h) \in Frame /\ Main(h) # None /\ Main(h).number = h
    /\ \A f \in Frame : f.number \in Height /\ f # None
    /\ None.number = 0
    /\ \A h \in Height : h \in Nat /\ h > 0 /\ h <= MaxHeight
    /\ \A h \in Nat : h > 0 /\ h <= MaxHeight => h \in Height
BY FinalizationAssumption DEF Frame, Main, Fork, None, Height

QueueOnChain(q) ==
    /\ DOMAIN q \subseteq Height
    /\ q \in [DOMAIN q -> Frame]
    /\ \A h \in DOMAIN q : q[h] = Main(h)

\* Dropping heights from the queue keeps it on the chain.
LEMMA RestrictOnChain ==
    ASSUME NEW q, QueueOnChain(q), NEW S \in SUBSET DOMAIN q
    PROVE  QueueOnChain(Restrict(q, S))
BY DEF QueueOnChain, Restrict

\* Filing a finalized frame keeps it on the chain.
LEMMA InsertOnChain ==
    ASSUME NEW q, QueueOnChain(q), NEW f \in Frame, f = Main(f.number)
    PROVE  QueueOnChain(Insert(q, f))
BY FrameFacts DEF QueueOnChain, Insert

\* offer keeps the queue on the chain.
LEMMA OfferedOnChain ==
    ASSUME QueueOnChain(queued), NEW f \in Frame, f = Main(f.number)
    PROVE  QueueOnChain(Offered(f))
<1> DEFINE low == Restrict(queued, DOMAIN queued \ {Highest(queued)})
<1>1. QueueOnChain(Insert(queued, f))
  BY InsertOnChain
<1>2. QueueOnChain(low)
  BY RestrictOnChain
<1>3. QueueOnChain(Insert(low, f))
  <2> HIDE DEF low
  <2> QED BY <1>2, InsertOnChain
<1> QED
  BY <1>1, <1>3 DEF Offered

\* note_finalized keeps a height.
LEMMA NotedIsHeight ==
    ASSUME NEW f \in Frame, noted \in Nat
    PROVE  NotedAfter(f) \in Nat
BY FrameFacts DEF NotedAfter

\* The initial state.
LEMMA InitIInv == Init => IInv
<1> SUFFICES ASSUME Init PROVE IInv
  OBVIOUS
<1>1. Cursor = 0 /\ DOMAIN queued = {} /\ queued = [h \in {} |-> None]
  BY DEF Init, Cursor
<1>2. TypeOK
  <2>1. /\ canon \in [Height -> Frame \cup {None}] /\ vouched \subseteq Height
        /\ applied \in Seq(Frame)
        /\ episode \in [frame : Nat, counted : Nat]
        /\ work \in [at : Places, frame : Frame \cup {None}, implied : Frame \cup {None},
                     attempts : Nat]
    BY DEF Init, NoEpisode, Top, At, Places
  <2> QED
    BY <1>1, <2>1 DEF Init, TypeOK
<1>3. StoreOnChain /\ ExecutedIsFinalized /\ ClockCoversState
  BY <1>1, FinalizationAssumption DEF Init, StoreOnChain, ExecutedIsFinalized, ClockCoversState
<1>4. WorkerOnChain /\ MarkerOnChain
  BY <1>1 DEF Init, WorkerOnChain, MarkerOnChain, Top, At
<1> QED
  BY <1>2, <1>3, <1>4 DEF IInv

-----------------------------------------------------------------------------
(* The worker keeps the invariant                                          *)

WorkerPlaces == [at : Places, frame : Frame \cup {None}, implied : Frame \cup {None},
                 attempts : Nat]

\* Records are added to the canonical clock, on the chain, and none changes.
CanonGrows ==
    /\ canon' \in [Height -> Frame \cup {None}] /\ vouched' \subseteq Height
    /\ \A h \in Height : canon'[h] \in {None, Main(h)}
    /\ \A h \in Height : canon[h] # None => canon'[h] = canon[h]

\* Writing the frame a height has on the chain does that.
LEMMA CanonWrite ==
    ASSUME TypeOK, StoreOnChain, NEW n \in Height, NEW cert,
           WriteClock(Main(n), cert)
    PROVE  CanonGrows /\ canon'[n] = Main(n)
BY FrameFacts DEF TypeOK, StoreOnChain, CanonGrows, WriteClock

\* So does writing nothing.
LEMMA CanonKept ==
    ASSUME TypeOK, StoreOnChain, UNCHANGED clock
    PROVE  CanonGrows
BY DEF clock, TypeOK, StoreOnChain, CanonGrows

\* The queue is on the chain.
LEMMA QueuedOnChain ==
    ASSUME IInv PROVE QueueOnChain(queued)
BY DEF IInv, TypeOK, StoreOnChain, QueueOnChain

\* The cursor counts executed heights.
LEMMA CursorFacts ==
    ASSUME TypeOK, ExecutedIsFinalized
    PROVE  /\ Cursor \in Nat /\ NextHeight \in Nat
           /\ \A h \in 1 .. Cursor : h \in Height
<1>1. Cursor \in Nat /\ Cursor <= MaxHeight
  BY DEF TypeOK, ExecutedIsFinalized, Cursor
<1> QED
  BY <1>1, FinalizationAssumption DEF NextHeight, Height

\* Executed and announced frames keep their records.
LEMMA ClockKept ==
    ASSUME IInv, CanonGrows, UNCHANGED <<applied, announced>>
    PROVE  ClockCoversState'
<1>1. \A h \in 1 .. Cursor : h \in Height /\ canon[h] # None
  BY FrameFacts, CursorFacts DEF IInv, ClockCoversState
<1>2. \A f \in announced : f.number \in Height /\ canon[f.number] # None
  BY FrameFacts DEF IInv, TypeOK, ClockCoversState
<1> QED
  BY <1>1, <1>2 DEF IInv, CanonGrows, ClockCoversState, Cursor

\* A step that executes nothing, adds records on the chain and leaves the worker
\* outside the in-place execution, or where it was, keeps the invariant when it
\* keeps the types and what is stored on the chain.
LEMMA ExecutesNothing ==
    ASSUME IInv, TypeOK', CanonGrows, StoreOnChain', WorkerOnChain', ClockCoversState',
           UNCHANGED execution,
           \/ UNCHANGED work
           \/ work.at \notin {"begun", "committed", "down"} /\ work'.at \notin {"begun", "committed"}
    PROVE  IInv'
<1>1. ExecutedIsFinalized'
  BY DEF IInv, ExecutedIsFinalized, Cursor, execution
<1>2. MarkerOnChain'
  BY FrameFacts DEF IInv, MarkerOnChain, CanonGrows, Cursor, NextHeight, Base, execution
<1> QED
  BY <1>1, <1>2 DEF IInv

\* Handing the chosen frame to the in-place materializer, or a retry.
LEMMA HandOverIInv ==
    ASSUME IInv, work.at = "chosen", NEW ep,
           HandOver(ep) \/ (EndPass(TRUE) /\ UNCHANGED <<clock, handed>>),
           episode' \in [frame : Nat, counted : Nat],
           UNCHANGED <<candidates, execution, queued, rejected, noted, offering, active, history>>
    PROVE  IInv'
<1>1. work' \in {Top, Rest}
  BY DEF HandOver, EndPass
<1>2. work' \in WorkerPlaces /\ work'.at \in {"top", "rest"}
  BY <1>1 DEF Top, Rest, At, Places, WorkerPlaces
<1>3. wake' \in BOOLEAN
  BY DEF IInv, HandOver, EndPass, TypeOK
<1>4. handed' \in Nat
  BY FrameFacts DEF IInv, HandOver, TypeOK, WorkerOnChain
<1>5. CanonGrows
  <2>1. \/ UNCHANGED clock
        \/ NextHeight \in Height /\ WriteClock(Main(NextHeight), work.implied = None)
    BY DEF IInv, HandOver, WorkerOnChain
  <2> QED
    BY <2>1, CanonWrite, CanonKept DEF IInv
<1>6. TypeOK'
  BY <1>2, <1>3, <1>4, <1>5
     DEF IInv, TypeOK, CanonGrows, WorkerPlaces, candidates, execution, history
<1>7. StoreOnChain'
  BY <1>5 DEF IInv, StoreOnChain, CanonGrows, candidates
<1>8. WorkerOnChain'
  BY <1>2 DEF WorkerOnChain
<1>9. ClockCoversState'
  BY <1>5, ClockKept DEF execution, history
<1> QED
  BY <1>2, <1>5, <1>6, <1>7, <1>8, <1>9, ExecutesNothing

\* The worker's place changes, and nothing the invariant is about.
LEMMA MovesIInv ==
    ASSUME IInv, work' \in WorkerPlaces, wake' \in BOOLEAN, handed' \in Nat, WorkerOnChain',
           work.at \notin {"begun", "committed", "down"}, work'.at \notin {"begun", "committed"},
           UNCHANGED <<durable, pipeline, offering, active, history>>
    PROVE  IInv'
<1>1. TypeOK'
  BY DEF IInv, TypeOK, WorkerPlaces, durable, clock, candidates, execution, pipeline, history
<1>2. StoreOnChain'
  BY DEF IInv, StoreOnChain, durable, clock, candidates, pipeline
<1>3. CanonGrows
  BY CanonKept DEF IInv, durable, clock
<1>4. ClockCoversState'
  BY <1>3, ClockKept DEF durable, clock, execution, history
<1> QED
  BY <1>1, <1>2, <1>3, <1>4, ExecutesNothing DEF durable, clock

\* The end of a pass.
LEMMA EndPassIInv ==
    ASSUME IInv, NEW retry \in BOOLEAN, EndPass(retry),
           work.at \notin {"begun", "committed", "down"},
           UNCHANGED <<durable, pipeline, offering, active, handed, history>>
    PROVE  IInv'
<1>1. work' \in WorkerPlaces /\ work'.at = "rest"
  BY DEF EndPass, Rest, At, Places, WorkerPlaces
<1>2. wake' \in BOOLEAN /\ handed' \in Nat
  BY DEF IInv, EndPass, TypeOK
<1>3. WorkerOnChain'
  BY <1>1 DEF WorkerOnChain
<1> QED
  BY <1>1, <1>2, <1>3, MovesIInv

\* The queue and the histories change on the chain, and nothing is executed.
LEMMA QueueChangesIInv ==
    ASSUME IInv, QueueOnChain(queued'), episode' \in [frame : Nat, counted : Nat],
           rejected' \subseteq Frame, noted' \in Nat, wake' \in BOOLEAN, work' \in WorkerPlaces,
           WorkerOnChain', ClockCoversState', announced' \subseteq Frame,
           work.at \notin {"begun", "committed", "down"}, work'.at \notin {"begun", "committed"},
           UNCHANGED <<durable, offering, active, handed, taken, crashes>>
    PROVE  IInv'
<1>1. TypeOK'
  BY DEF IInv, TypeOK, WorkerPlaces, QueueOnChain, durable, clock, candidates, execution
<1>2. StoreOnChain'
  BY DEF IInv, StoreOnChain, QueueOnChain, durable, clock, candidates
<1>3. CanonGrows
  BY CanonKept DEF IInv, durable, clock
<1> QED
  BY <1>1, <1>2, <1>3, ExecutesNothing DEF durable, clock

\* Looking for the next frame.
LEMMA LookIInv ==
    ASSUME IInv, StartPass \/ Look \/ LookIdle PROVE IInv'
<1>1. CASE StartPass
  <2>1. work' \in WorkerPlaces /\ work'.at = "top"
    BY <1>1 DEF StartPass, Top, At, Places, WorkerPlaces
  <2> QED
    BY <1>1, <2>1, MovesIInv DEF StartPass, WorkerOnChain
<1>2. CASE Look
  <2>1. QueueOnChain(queued')
    BY <1>2, QueuedOnChain, RestrictOnChain DEF Look
  <2>2. episode' \in [frame : Nat, counted : Nat] /\ rejected' \subseteq Frame
    BY <1>2 DEF IInv, TypeOK, Look, NoEpisode
  <2>3. NextHeight \in Height /\ canon[NextHeight] \in {None, Main(NextHeight)}
    BY <1>2 DEF IInv, StoreOnChain, Look
  <2>4. PICK n \in Nat :
           work' = IF canon[NextHeight] = None THEN At("missing", None, None, n)
                   ELSE At("canonical", canon[NextHeight], None,
                           IF handed = NextHeight THEN 0 ELSE n)
    BY <1>2, FinalizationAssumption DEF Look
  <2>5. work' \in WorkerPlaces /\ work'.at \in {"missing", "canonical"}
    BY <2>3, <2>4, FrameFacts DEF At, Places, WorkerPlaces
  <2>6. WorkerOnChain'
    BY <1>2, <2>3, <2>4 DEF WorkerOnChain, Look, At, Cursor, NextHeight, durable, clock, execution
  <2>7. ClockCoversState'
    BY <1>2 DEF IInv, ClockCoversState, Look, Cursor, durable, clock, execution, history
  <2> QED
    BY <1>2, <2>1, <2>2, <2>5, <2>6, <2>7, QueueChangesIInv DEF Look, IInv, TypeOK, history
<1>3. CASE LookIdle
  BY <1>3, EndPassIInv DEF LookIdle
<1> QED
  BY <1>1, <1>2, <1>3

\* Choosing the frame: certified frames, and the ancestors of a certified one,
\* are on the chain.
LEMMA ChooseIInv ==
    ASSUME IInv, ChooseQueued \/ ChooseDurable \/ ChooseImplied \/ ChooseNone PROVE IInv'
<1>1. CASE ChooseQueued
  <2>1. NextHeight \in Height /\ queued[NextHeight] = Main(NextHeight)
    BY <1>1 DEF IInv, TypeOK, StoreOnChain, ChooseQueued
  <2>2. work' \in WorkerPlaces /\ work'.at = "chosen" /\ work'.frame = Main(NextHeight)
    BY <1>1, <2>1, FrameFacts DEF IInv, TypeOK, ChooseQueued, At, Places, WorkerPlaces
  <2>3. WorkerOnChain'
    BY <1>1, <2>1, <2>2
       DEF WorkerOnChain, ChooseQueued, Cursor, NextHeight, durable, clock, execution
  <2> QED
    BY <1>1, <2>2, <2>3, MovesIInv DEF IInv, TypeOK, ChooseQueued
<1>2. CASE ChooseDurable
  <2>1. PICK f \in certs : /\ f.number = NextHeight
                           /\ queued' = Offered(f) /\ noted' = NotedAfter(f)
                           /\ work' = At("chosen", f, None, work.attempts)
    BY <1>2 DEF ChooseDurable, Durable
  <2>2. f \in Frame /\ f = Main(NextHeight) /\ NextHeight \in Height
    BY <2>1, FrameFacts DEF IInv, TypeOK, StoreOnChain
  <2>3. QueueOnChain(queued')
    BY <2>1, <2>2, QueuedOnChain, OfferedOnChain
  <2>4. noted' \in Nat
    BY <2>1, <2>2, NotedIsHeight DEF IInv, TypeOK
  <2>5. work' \in WorkerPlaces /\ work'.at = "chosen" /\ work'.frame = Main(NextHeight)
    BY <2>1, <2>2 DEF IInv, TypeOK, At, Places, WorkerPlaces
  <2>6. WorkerOnChain'
    BY <1>2, <2>2, <2>5
       DEF WorkerOnChain, ChooseDurable, Cursor, NextHeight, durable, clock, execution
  <2>7. ClockCoversState'
    BY <1>2 DEF IInv, ClockCoversState, ChooseDurable, Cursor, durable, clock, execution, history
  <2> QED
    BY <1>2, <2>3, <2>4, <2>5, <2>6, <2>7, QueueChangesIInv
       DEF ChooseDurable, IInv, TypeOK, history
<1>3. CASE ChooseImplied
  <2>1. PICK d \in Descendants(NextHeight) :
           work' = At("chosen", Ancestor(d, NextHeight), d, work.attempts)
    BY <1>3 DEF ChooseImplied
  <2>2. d \in Frame /\ d.branch = "main"
    <3>1. d \in certs \/ \E h \in DOMAIN queued : d = queued[h]
      BY <2>1 DEF Descendants
    <3>2. d \in Frame /\ d = Main(d.number)
      BY <3>1, FrameFacts DEF IInv, TypeOK, StoreOnChain
    <3> QED
      BY <3>2 DEF Main
  <2>3. NextHeight \in Height /\ Ancestor(d, NextHeight) = Main(NextHeight)
    BY <1>3, <2>2 DEF IInv, WorkerOnChain, ChooseImplied, Ancestor
  <2>4. work' \in WorkerPlaces /\ work'.at = "chosen" /\ work'.frame = Main(NextHeight)
    BY <2>1, <2>2, <2>3, FrameFacts DEF IInv, TypeOK, At, Places, WorkerPlaces
  <2>5. WorkerOnChain'
    BY <1>3, <2>3, <2>4
       DEF WorkerOnChain, ChooseImplied, Cursor, NextHeight, durable, clock, execution
  <2> QED
    BY <1>3, <2>4, <2>5, MovesIInv DEF IInv, TypeOK, ChooseImplied
<1>4. CASE ChooseNone
  BY <1>4, EndPassIInv DEF ChooseNone
<1> QED
  BY <1>1, <1>2, <1>3, <1>4

\* The answers of step_within that execute nothing.
LEMMA StepIInv ==
    ASSUME IInv,
           \/ StepClockAhead \/ StepWait \/ StepLegacy \/ StepReject
           \/ \E counts \in BOOLEAN : StepFail(counts)
    PROVE  IInv'
<1>1. CASE StepClockAhead \/ StepLegacy
  <2>1. episode' \in [frame : Nat, counted : Nat]
    BY <1>1 DEF IInv, TypeOK, StepClockAhead, StepLegacy, pipeline
  <2> QED
    BY <1>1, <2>1, HandOverIInv DEF StepClockAhead, StepLegacy, pipeline
<1>2. CASE StepWait
  BY <1>2, EndPassIInv DEF StepWait
<1>3. CASE StepReject
  <2>1. QueueOnChain(queued')
    BY <1>3, QueuedOnChain, RestrictOnChain DEF StepReject
  <2>2. episode' \in [frame : Nat, counted : Nat] /\ wake' \in BOOLEAN
    BY <1>3 DEF IInv, TypeOK, StepReject, NoEpisode, EndPass
  <2>3. rejected' \subseteq Frame
    BY <1>3, FrameFacts DEF IInv, TypeOK, WorkerOnChain, StepReject
  <2>4. work' \in WorkerPlaces /\ work'.at = "rest"
    BY <1>3 DEF StepReject, EndPass, Rest, At, Places, WorkerPlaces
  <2>5. WorkerOnChain'
    BY <2>4 DEF WorkerOnChain
  <2>6. ClockCoversState'
    BY <1>3 DEF IInv, ClockCoversState, StepReject, Cursor, durable, clock, execution, history
  <2> QED
    BY <1>3, <2>1, <2>2, <2>3, <2>4, <2>5, <2>6, QueueChangesIInv
       DEF StepReject, IInv, TypeOK, history
<1>4. ASSUME NEW counts \in BOOLEAN, StepFail(counts) PROVE IInv'
  <2>1. episode' \in [frame : Nat, counted : Nat]
    BY <1>4, CursorFacts, FinalizationAssumption DEF IInv, TypeOK, StepFail, EpisodeAfter
  <2>2. HandOver(episode') \/ (EndPass(TRUE) /\ UNCHANGED <<clock, handed>>)
    BY <1>4 DEF StepFail
  <2> QED
    BY <1>4, <2>1, <2>2, HandOverIInv DEF StepFail
<1> QED
  BY <1>1, <1>2, <1>3, <1>4

\* The frame at the cursor is announced after it is executed.
LEMMA FinishIInv ==
    ASSUME IInv, FinishPublished \/ FinishLegacy PROVE IInv'
<1>1. QueueOnChain(queued')
  BY QueuedOnChain, RestrictOnChain DEF FinishPublished, FinishLegacy
<1>2. episode' \in [frame : Nat, counted : Nat]
  BY DEF IInv, TypeOK, FinishPublished, FinishLegacy, NoEpisode
<1>3. work' \in WorkerPlaces /\ work'.at = "top"
  BY DEF FinishPublished, FinishLegacy, Top, At, Places, WorkerPlaces
<1>4. WorkerOnChain'
  BY <1>3 DEF WorkerOnChain
<1>5. /\ Cursor \in Height /\ work.frame = Main(Cursor)
      /\ canon[Cursor] = Main(Cursor)
      /\ announced' \subseteq announced \cup {work.frame}
      /\ UNCHANGED <<canon, applied>>
  <2>1. Cursor \in Height /\ work.frame = Main(Cursor)
    BY DEF IInv, WorkerOnChain, FinishPublished, FinishLegacy
  <2>2. canon[Cursor] = Main(Cursor)
    BY <2>1, FrameFacts DEF IInv, ClockCoversState
  <2> QED
    BY <2>1, <2>2 DEF FinishPublished, FinishLegacy, durable, clock, execution
<1>6. announced' \subseteq Frame
  BY <1>5, FrameFacts DEF IInv, TypeOK
<1>7. ClockCoversState'
  BY <1>5, FrameFacts DEF IInv, ClockCoversState, Cursor
<1> QED
  BY <1>1, <1>2, <1>3, <1>4, <1>6, <1>7, QueueChangesIInv
     DEF FinishPublished, FinishLegacy, IInv, TypeOK

\* Executing the frame above the cursor extends the chain by one height.
LEMMA ExecutesNext ==
    ASSUME IInv, NextHeight \in Height, applied' = Append(applied, Main(NextHeight)),
           CanonGrows, canon'[NextHeight] = Main(NextHeight), UNCHANGED announced
    PROVE  /\ applied' \in Seq(Frame)
           /\ Cursor' = NextHeight
           /\ Base' = Main(NextHeight)
           /\ ExecutedIsFinalized'
           /\ ClockCoversState'
<1>1. /\ applied \in Seq(Frame) /\ Main(NextHeight) \in Frame
      /\ Cursor \in Nat /\ NextHeight = Cursor + 1
  BY FrameFacts, CursorFacts DEF IInv, TypeOK, NextHeight
<1>2. applied' \in Seq(Frame) /\ Cursor' = NextHeight
  BY <1>1 DEF Cursor, NextHeight
<1>3. \A i \in 1 .. NextHeight : applied'[i] = Main(i)
  BY <1>1 DEF IInv, ExecutedIsFinalized, Cursor
<1>4. ExecutedIsFinalized' /\ Base' = Main(NextHeight)
  <2>1. NextHeight <= MaxHeight /\ NextHeight # 0 /\ NextHeight \in 1 .. NextHeight
    BY <1>1, FrameFacts
  <2>2. ExecutedIsFinalized'
    BY <1>2, <1>3, <2>1 DEF ExecutedIsFinalized
  <2>3. Base' = Main(NextHeight)
    BY <1>2, <1>3, <2>1 DEF Base
  <2> QED
    BY <2>2, <2>3
<1>5. \A h \in 1 .. NextHeight : canon'[h] = Main(h)
  <2>1. \A h \in 1 .. Cursor : h \in Height /\ canon[h] = Main(h) /\ canon[h] # None
    BY FrameFacts, CursorFacts DEF IInv, ClockCoversState
  <2>2. \A h \in 1 .. NextHeight : h = NextHeight \/ h \in 1 .. Cursor
    BY <1>1
  <2> QED
    BY <2>1, <2>2 DEF CanonGrows
<1>6. \A f \in announced : f = Main(f.number) /\ canon'[f.number] = f
  BY FrameFacts DEF IInv, TypeOK, ClockCoversState, CanonGrows
<1> QED
  BY <1>2, <1>4, <1>5, <1>6 DEF ClockCoversState

\* Executing a frame, in one batch or in place.
LEMMA ExecuteIInv ==
    ASSUME IInv, StepPublish \/ CanonicalPublish \/ InPlaceCommit PROVE IInv'
<1> DEFINE n == NextHeight
<1>1. n \in Height /\ work.frame = Main(n) /\ Main(n) \in Frame /\ Main(n) # None
  BY FrameFacts DEF IInv, WorkerOnChain, StepPublish, CanonicalPublish, InPlaceCommit
<1>2. applied' = Append(applied, Main(n)) /\ UNCHANGED announced
  BY <1>1 DEF StepPublish, CanonicalPublish, InPlaceCommit, history
<1>3. CanonGrows /\ canon'[n] = Main(n)
  <2>1. CASE StepPublish
    BY <1>1, <2>1, CanonWrite DEF IInv, StepPublish
  <2>2. CASE CanonicalPublish \/ InPlaceCommit
    BY <1>1, <2>2, CanonKept DEF clock, IInv, WorkerOnChain, CanonicalPublish, InPlaceCommit
  <2> QED
    BY <2>1, <2>2
<1>4. /\ applied' \in Seq(Frame) /\ Cursor' = n /\ Base' = Main(n)
      /\ ExecutedIsFinalized' /\ ClockCoversState'
  BY <1>1, <1>2, <1>3, ExecutesNext
<1>5. /\ work' \in WorkerPlaces /\ work'.frame = Main(n)
      /\ work'.at \in {"published", "executed", "committed"}
      /\ work'.at = "committed" <=> InPlaceCommit
  BY <1>1 DEF StepPublish, CanonicalPublish, InPlaceCommit, At, Places, WorkerPlaces
<1>6. receipt' \in Frame \cup {None} /\ pending' = pending
  BY <1>1 DEF IInv, TypeOK, StepPublish, CanonicalPublish, InPlaceCommit
<1>7. TypeOK'
  BY <1>3, <1>4, <1>5, <1>6
     DEF IInv, TypeOK, CanonGrows, WorkerPlaces, StepPublish, CanonicalPublish, InPlaceCommit,
         candidates, pipeline, history
<1>8. StoreOnChain'
  BY <1>3 DEF IInv, StoreOnChain, CanonGrows, StepPublish, CanonicalPublish, InPlaceCommit,
              candidates, pipeline
<1>9. WorkerOnChain'
  BY <1>1, <1>4, <1>5 DEF WorkerOnChain
<1>10. MarkerOnChain'
  <2>1. CASE InPlaceCommit
    <3>1. pending = Main(n)
      BY <1>1, <2>1 DEF IInv, MarkerOnChain, InPlaceCommit
    <3> QED
      BY <1>1, <1>4, <1>5, <1>6, <2>1, <3>1 DEF MarkerOnChain
  <2>2. CASE StepPublish \/ CanonicalPublish
    <3>1. pending' = None /\ receipt' = Main(n)
      BY <1>1, <1>6, <2>2 DEF StepPublish, CanonicalPublish, Extends
    <3>2. work'.at \in {"published", "executed"}
      BY <2>2 DEF StepPublish, CanonicalPublish, At
    <3> QED
      BY <1>4, <3>1, <3>2 DEF MarkerOnChain
  <2> QED
    BY <2>1, <2>2
<1> QED
  BY <1>4, <1>7, <1>8, <1>9, <1>10 DEF IInv

\* The marker around an in-place execution.
LEMMA InPlaceIInv ==
    ASSUME IInv, InPlaceBegin \/ InPlaceFinish PROVE IInv'
<1>1. /\ work' \in WorkerPlaces /\ work'.frame = work.frame
      /\ receipt' \in Frame \cup {None} /\ pending' \in Frame \cup {None}
  BY FrameFacts DEF IInv, TypeOK, InPlaceBegin, InPlaceFinish, At, Places, WorkerPlaces
<1>2. TypeOK'
  BY <1>1 DEF clock, IInv, TypeOK, WorkerPlaces, InPlaceBegin, InPlaceFinish, candidates, pipeline,
              history
<1>3. StoreOnChain' /\ ExecutedIsFinalized'
  BY DEF clock, IInv, StoreOnChain, ExecutedIsFinalized, InPlaceBegin, InPlaceFinish, Cursor,
         candidates, pipeline
<1>4. ClockCoversState'
  BY DEF clock, IInv, ClockCoversState, InPlaceBegin, InPlaceFinish, Cursor, history
<1>5. WorkerOnChain'
  BY DEF clock, IInv, WorkerOnChain, InPlaceBegin, InPlaceFinish, At, Cursor, NextHeight
<1>6. MarkerOnChain'
  <2>1. CASE InPlaceBegin
    <3>1. /\ pending' = Main(NextHeight) /\ NextHeight \in Height
          /\ work'.at = "begun" /\ work'.frame = pending'
          /\ canon'[NextHeight] = Main(NextHeight) /\ UNCHANGED applied
      BY <2>1 DEF clock, IInv, WorkerOnChain, InPlaceBegin, At
    <3> QED
      BY <3>1, FrameFacts DEF MarkerOnChain, Cursor, NextHeight
  <2>2. CASE InPlaceFinish
    <3>1. /\ pending' = None /\ work'.at = "executed" /\ UNCHANGED applied
          /\ receipt' = Main(Cursor) /\ Cursor \in Height
      BY <2>2 DEF IInv, WorkerOnChain, InPlaceFinish, At
    <3>2. Base = Main(Cursor)
      BY <3>1, FrameFacts DEF IInv, ExecutedIsFinalized, Base
    <3> QED
      BY <3>1, <3>2 DEF MarkerOnChain, Base, Cursor
  <2> QED
    BY <2>1, <2>2
<1> QED
  BY <1>2, <1>3, <1>4, <1>5, <1>6 DEF IInv

\* Every step of the worker.
LEMMA WorkerIInv ==
    ASSUME IInv, Worker PROVE IInv'
<1>1. CASE CanonicalWait
  BY <1>1, EndPassIInv DEF CanonicalWait
<1> QED
  BY <1>1, LookIInv, ChooseIInv, StepIInv, FinishIInv, ExecuteIInv, InPlaceIInv DEF Worker

-----------------------------------------------------------------------------
(* So do consensus, the poller, gossip and failures                        *)

\* A step outside the worker keeps the invariant when what it stores, queues or
\* announces is on the chain.
LEMMA OutsideIInv ==
    ASSUME IInv, CanonGrows, QueueOnChain(queued'), UNCHANGED <<execution, work>>,
           cands' \subseteq Frame, certs' \subseteq Frame, offering' \subseteq Frame,
           \A f \in certs' \cup offering' : f = Main(f.number),
           taken' \subseteq Frame, announced' \subseteq Frame,
           \A f \in announced' \ announced : f = Main(f.number) /\ canon'[f.number] = f,
           noted' \in Nat, active' \in BOOLEAN, wake' \in BOOLEAN,
           UNCHANGED <<episode, rejected, handed, crashes>>
    PROVE  IInv'
<1>1. TypeOK'
  BY DEF IInv, TypeOK, CanonGrows, QueueOnChain, execution
<1>2. StoreOnChain'
  BY DEF StoreOnChain, CanonGrows, QueueOnChain
<1>3. WorkerOnChain'
  BY FrameFacts DEF IInv, WorkerOnChain, CanonGrows, Cursor, NextHeight, execution
<1>4. ClockCoversState'
  <2>1. \A h \in 1 .. Cursor : h \in Height /\ canon[h] = Main(h) /\ canon[h] # None
    BY FrameFacts, CursorFacts DEF IInv, ClockCoversState
  <2>2. \A f \in announced : /\ f = Main(f.number) /\ f.number \in Height
                             /\ canon[f.number] = f /\ canon[f.number] # None
    BY FrameFacts DEF IInv, TypeOK, ClockCoversState
  <2> QED
    BY <2>1, <2>2 DEF ClockCoversState, CanonGrows, Cursor, execution
<1> QED
  BY <1>1, <1>2, <1>3, <1>4, ExecutesNothing

\* Consensus: a finalized body is Main at its height, a notarized one gets no
\* certificate.
LEMMA ConsensusIInv ==
    ASSUME IInv, Consensus PROVE IInv'
<1> USE DEF IInv
<1>1. CASE Activate
  <2>1. UNCHANGED <<canon, vouched, cands, certs, execution, queued, episode, rejected, noted, offering,
                    handed, work, announced, taken, crashes>>
    BY <1>1 DEF Activate, durable, clock, candidates, pipeline, history
  <2>2. active' \in BOOLEAN /\ wake' \in BOOLEAN
    BY <1>1 DEF Activate
  <2> QED
    BY <2>1, <2>2, CanonKept, QueuedOnChain, OutsideIInv DEF clock, TypeOK, StoreOnChain
<1>2. ASSUME NEW f \in Frame, Notarize(f) PROVE IInv'
  <2>1. UNCHANGED <<canon, vouched, execution, queued, episode, rejected, noted, offering, active, wake,
                    handed, work, announced, taken, crashes>>
    BY <1>2 DEF clock, Notarize, memory, pipeline, history
  <2>2. cands' \subseteq Frame /\ UNCHANGED certs
    BY <1>2 DEF Notarize, PutCandidate, TypeOK
  <2> QED
    BY <2>1, <2>2, CanonKept, QueuedOnChain, OutsideIInv DEF clock, TypeOK, StoreOnChain
<1>3. ASSUME NEW h \in Height, FinalizeAdmitted(h) PROVE IInv'
  <2>1. UNCHANGED <<canon, vouched, execution, queued, episode, rejected, noted, active, wake, handed,
                    work, announced, taken, crashes>>
    BY <1>3 DEF clock, FinalizeAdmitted, pipeline, history
  <2>2. /\ cands' \subseteq Frame /\ certs' \subseteq Frame /\ offering' \subseteq Frame
        /\ \A f \in certs' \cup offering' : f = Main(f.number)
    BY <1>3, FrameFacts DEF FinalizeAdmitted, PutCandidate, TypeOK, StoreOnChain, candidates
  <2> QED
    BY <2>1, <2>2, CanonKept, QueuedOnChain, OutsideIInv DEF clock, TypeOK
<1>4. ASSUME NEW h \in Height, FinalizeCanonical(h) PROVE IInv'
  <2>1. CanonGrows /\ canon'[h] = Main(h)
    BY <1>4, CanonWrite, CanonKept DEF clock, FinalizeCanonical
  <2>2. /\ UNCHANGED <<cands, certs, execution, queued, episode, rejected, noted, offering,
                       active, handed, work, crashes>>
        /\ taken' = taken \cup {Main(h)} /\ wake' = TRUE
        /\ announced' \in {announced, announced \cup {Main(h)}}
    BY <1>4 DEF FinalizeCanonical, candidates, pipeline
  <2>3. /\ taken' \subseteq Frame /\ announced' \subseteq Frame
        /\ \A f \in announced' \ announced : f = Main(f.number) /\ canon'[f.number] = f
    BY <2>1, <2>2, FrameFacts DEF TypeOK
  <2> QED
    BY <2>1, <2>2, <2>3, QueuedOnChain, OutsideIInv DEF TypeOK, StoreOnChain
<1>5. ASSUME NEW f \in offering, Offer(f) PROVE IInv'
  <2>1. f \in Frame /\ f = Main(f.number)
    BY <1>5 DEF TypeOK, StoreOnChain
  <2>2. QueueOnChain(queued') /\ noted' \in Nat
    BY <1>5, <2>1, QueuedOnChain, OfferedOnChain, NotedIsHeight DEF Offer, TypeOK
  <2> QED
    BY <1>5, <2>1, <2>2, CanonKept, OutsideIInv
       DEF Offer, TypeOK, StoreOnChain, durable, clock, candidates
<1> QED
  BY <1>1, <1>2, <1>3, <1>4, <1>5 DEF Consensus

\* The poller and gossip store certified chains.
LEMMA SyncIInv ==
    ASSUME IInv, Sync PROVE IInv'
<1>1. PICK lo \in Height, top \in Height :
         /\ TakeSynced(lo, top) \/ StoreSynced(lo, top)
         /\ wake' \in BOOLEAN
         /\ taken' \subseteq taken \cup {Main(top)}
  BY DEF IInv, TypeOK, Sync, SyncChain, GossipFrame
<1>2. taken' \subseteq Frame
  BY <1>1, FrameFacts DEF IInv, TypeOK
<1>3. CASE TakeSynced(lo, top)
  <2>1. QueueOnChain(queued') /\ noted' \in Nat
    BY <1>3, FrameFacts, QueuedOnChain, OfferedOnChain, NotedIsHeight
       DEF IInv, TypeOK, TakeSynced
  <2>2. \A h \in lo .. top : h \in Height
    BY FinalizationAssumption DEF Height
  <2>3. /\ cands' \subseteq Frame /\ certs' \subseteq Frame
        /\ \A f \in certs' : f = Main(f.number)
    BY <1>3, <2>2, FrameFacts DEF IInv, TypeOK, StoreOnChain, TakeSynced
  <2> QED
    BY <1>1, <1>2, <1>3, <2>1, <2>3, CanonKept, OutsideIInv
       DEF IInv, TypeOK, StoreOnChain, TakeSynced, execution
<1>4. CASE StoreSynced(lo, top)
  <2>1. PICK stored \in lo .. top :
           /\ canon' = [h \in Height |-> IF h \in lo .. stored THEN Main(h) ELSE canon[h]]
           /\ vouched' \subseteq vouched \cup {top}
    BY <1>4 DEF StoreSynced
  <2>2. CanonGrows
    BY <2>1, FrameFacts DEF IInv, TypeOK, StoreOnChain, CanonGrows
  <2> QED
    BY <1>1, <1>2, <1>4, <2>2, QueuedOnChain, OutsideIInv
       DEF IInv, TypeOK, StoreOnChain, StoreSynced, candidates, execution, pipeline
<1> QED
  BY <1>1, <1>3, <1>4

\* A stop keeps the store; a restart resolves the marker from the cursor.
LEMMA FailureIInv ==
    ASSUME IInv, Crash \/ Recover PROVE IInv'
<1> USE DEF IInv
<1>1. CASE Crash
  <2>1. /\ UNCHANGED <<canon, vouched, cands, certs, applied, receipt, pending, announced, taken>>
        /\ work' \in WorkerPlaces /\ work'.at = "down"
    BY <1>1 DEF Crash, durable, clock, candidates, execution, At, Places, WorkerPlaces
  <2>2. DOMAIN queued' = {} /\ queued' = [h \in {} |-> None]
    BY <1>1 DEF Crash
  <2>3. /\ episode' \in [frame : Nat, counted : Nat] /\ crashes' \in Nat
        /\ rejected' = {} /\ noted' \in Nat /\ offering' = {} /\ handed' \in Nat
        /\ active' \in BOOLEAN /\ wake' \in BOOLEAN
    <3>1. NoEpisode \in [frame : Nat, counted : Nat]
      BY DEF NoEpisode
    <3>2. crashes' \in Nat
      BY <1>1 DEF Crash, TypeOK
    <3> QED
      BY <1>1, <3>1, <3>2 DEF Crash
  <2>4. TypeOK'
    BY <2>1, <2>2, <2>3 DEF TypeOK, WorkerPlaces
  <2>5. StoreOnChain'
    BY <2>1, <2>2, <2>3 DEF StoreOnChain
  <2>6. ExecutedIsFinalized' /\ ClockCoversState'
    BY <2>1 DEF ExecutedIsFinalized, ClockCoversState, Cursor
  <2>7. WorkerOnChain'
    BY <2>1 DEF WorkerOnChain
  <2>8. MarkerOnChain'
    BY <2>1 DEF MarkerOnChain, NextHeight, Cursor, Base
  <2> QED
    BY <2>4, <2>5, <2>6, <2>7, <2>8
<1>2. CASE Recover
  <2>1. /\ UNCHANGED <<canon, vouched, cands, certs, applied, queued, episode, rejected, noted, offering,
                       active, wake, handed, announced, taken, crashes>>
        /\ work' \in WorkerPlaces /\ work'.at = "top"
    BY <1>2 DEF clock, Recover, candidates, pipeline, history, Top, At, Places, WorkerPlaces
  <2>2. /\ receipt' \in Frame \cup {None} /\ pending' = None
        /\ receipt' # None => receipt' = Base
    BY <1>2 DEF Recover, TypeOK, MarkerOnChain, ReceiptAfterRecovery, Base
  <2>3. TypeOK'
    BY <2>1, <2>2 DEF TypeOK, WorkerPlaces
  <2>4. StoreOnChain' /\ ExecutedIsFinalized' /\ ClockCoversState'
    BY <2>1 DEF StoreOnChain, ExecutedIsFinalized, ClockCoversState, Cursor
  <2>5. WorkerOnChain'
    BY <2>1 DEF WorkerOnChain
  <2>6. MarkerOnChain'
    BY <2>1, <2>2 DEF MarkerOnChain, Base, Cursor
  <2> QED
    BY <2>3, <2>4, <2>5, <2>6
<1> QED
  BY <1>1, <1>2

\* Every step, and stuttering.
LEMMA NextIInv == IInv /\ [Next]_vars => IInv'
<1> SUFFICES ASSUME IInv, [Next]_vars PROVE IInv'
  OBVIOUS
<1>1. CASE UNCHANGED vars
  <2>1. UNCHANGED <<canon, vouched, cands, certs, applied, receipt, pending, queued, episode, rejected,
                    noted, offering, active, wake, handed, work, announced, taken, crashes>>
    BY <1>1 DEF vars, durable, clock, candidates, execution, memory, pipeline, history
  <2> QED
    BY <2>1 DEF IInv, TypeOK, StoreOnChain, ExecutedIsFinalized, WorkerOnChain, MarkerOnChain,
                ClockCoversState, NextHeight, Cursor, Base
<1> QED
  BY <1>1, WorkerIInv, ConsensusIInv, SyncIInv, FailureIInv DEF Next

-----------------------------------------------------------------------------
(* Theorems                                                                *)

\* The inductive invariant holds of every reachable state.
THEOREM Invariance == Spec => []IInv
BY InitIInv, NextIInv, PTL DEF Spec

\* Every variable of the store, the pipeline and the worker keeps its type.
THEOREM TypeCorrect == Spec => []TypeOK
<1>1. IInv => TypeOK
  BY DEF IInv
<1> QED
  BY <1>1, Invariance, PTL

\* What is executed is the finalized chain, every height once and in order,
\* whichever path executed it and wherever the process stopped.
THEOREM ExecutionSafe == Spec => []ExecutedIsFinalized
<1>1. IInv => ExecutedIsFinalized
  BY DEF IInv
<1> QED
  BY <1>1, Invariance, PTL

\* A restart finds a marker it can resolve, and a receipt of the executed state.
THEOREM CrashSafe == Spec => []CrashConsistent
<1>1. IInv => CrashConsistent
  <2> SUFFICES ASSUME IInv PROVE CrashConsistent
    OBVIOUS
  <2>1. ASSUME Cursor \in Height PROVE applied[Cursor] = Main(Cursor)
    BY <2>1, FrameFacts DEF IInv, ExecutedIsFinalized
  <2> QED
    BY <2>1, FrameFacts DEF IInv, MarkerOnChain, CrashConsistent
<1> QED
  BY <1>1, Invariance, PTL

\* An announced frame is the canonical record at its height.
THEOREM AnnouncedSafe == Spec => []AnnouncedIsCanonical
<1>1. IInv => AnnouncedIsCanonical
  BY DEF IInv, ClockCoversState, AnnouncedIsCanonical
<1> QED
  BY <1>1, Invariance, PTL

\* A step that executes a frame finds or writes it in the canonical clock.
THEOREM ClockFirst == Spec => ExecutesCanonicalRecord
<1>1. ASSUME IInv, [Next]_vars
      PROVE  [applied' # applied => applied' = Append(applied, canon'[NextHeight])]_vars
  <2>1. ASSUME StepPublish \/ CanonicalPublish \/ InPlaceCommit
        PROVE  applied' = Append(applied, canon'[NextHeight])
    <3>1. CASE StepPublish
      BY <1>1, <3>1, FrameFacts DEF IInv, TypeOK, WorkerOnChain, StepPublish, WriteClock
    <3>2. CASE CanonicalPublish \/ InPlaceCommit
      BY <1>1, <3>2 DEF clock, IInv, WorkerOnChain, CanonicalPublish, InPlaceCommit
    <3> QED
      BY <2>1, <3>1, <3>2
  <2>2. ASSUME Worker PROVE StepPublish \/ CanonicalPublish \/ InPlaceCommit \/ UNCHANGED applied
    BY <2>2 DEF Worker, StartPass, Look, LookIdle, ChooseQueued, ChooseDurable, ChooseImplied,
                ChooseNone, StepClockAhead, StepWait, StepLegacy, StepReject, FinishPublished,
                StepFail, CanonicalWait, InPlaceBegin, InPlaceFinish, FinishLegacy, durable,
                execution
  <2>3. ASSUME Consensus \/ Sync PROVE UNCHANGED applied
    BY <2>3 DEF Consensus, Activate, Notarize, FinalizeAdmitted, FinalizeCanonical, Offer, Sync,
                SyncChain, GossipFrame, TakeSynced, StoreSynced, durable, clock, execution
  <2>4. ASSUME Crash \/ Recover \/ UNCHANGED vars PROVE UNCHANGED applied
    BY <2>4 DEF Crash, Recover, vars, durable, clock, execution
  <2> QED
    BY <1>1, <2>1, <2>2, <2>3, <2>4 DEF Next
<1> QED
  BY <1>1, Invariance, PTL DEF Spec, ExecutesCanonicalRecord

-----------------------------------------------------------------------------
(* The archive implements the ledger                                       *)

\* Only finalized frames are recorded.
LEMMA RecordedIsFinal ==
    ASSUME IInv PROVE Recorded \subseteq Ledger!Final
BY DEF IInv, StoreOnChain, Recorded, Ledger!Final

\* A canonical write of a finalized frame adds it to what is recorded.
LEMMA RecordedWith ==
    ASSUME IInv, NEW n \in Height, canon' = [canon EXCEPT ![n] = Main(n)]
    PROVE  Recorded' = Recorded \cup {Main(n)}
<1>1. \A h \in Height : canon'[h] = IF h = n THEN Main(n) ELSE canon[h]
  BY DEF IInv, TypeOK
<1>2. canon[n] \in {None, Main(n)} /\ Main(n) # None
  BY FrameFacts DEF IInv, StoreOnChain
<1> QED
  BY <1>1, <1>2 DEF Recorded

\* Writes of finalized frames take no record back.
LEMMA RecordedGrows ==
    ASSUME IInv, IInv', \A h \in Height : canon'[h] \in {canon[h], Main(h)}
    PROVE  /\ Recorded \subseteq Recorded'
           /\ \E frames \in SUBSET Ledger!Final : Recorded' = Recorded \cup frames
<1>1. Recorded \subseteq Recorded'
  <2> SUFFICES ASSUME NEW h \in Height, canon[h] # None PROVE canon[h] \in Recorded'
    BY DEF Recorded
  <2>1. canon[h] = Main(h) /\ canon'[h] = Main(h)
    BY DEF IInv, StoreOnChain
  <2> QED
    BY <2>1 DEF Recorded
<1>2. Recorded' \subseteq Ledger!Final
  BY DEF IInv, StoreOnChain, Recorded, Ledger!Final
<1> QED
  BY <1>1, <1>2

\* Steps that write the clock and neither execute nor announce.
LEMMA ClockSteps ==
    ASSUME IInv, IInv', UNCHANGED <<applied, announced>>,
           \A h \in Height : canon'[h] \in {canon[h], Main(h)}
    PROVE  [Ledger!Next]_(Ledger!ledgerVars)
<1>1. \E frames \in SUBSET Ledger!Final : Recorded' = Recorded \cup frames
  BY RecordedGrows
<1> QED
  BY <1>1 DEF Ledger!Next, Ledger!RecordFrames

\* Steps that execute the frame above the cursor.
LEMMA ExecutingSteps ==
    ASSUME IInv, NextHeight \in Height, applied' = Append(applied, Main(NextHeight)),
           UNCHANGED announced,
           canon' = [canon EXCEPT ![NextHeight] = Main(NextHeight)]
    PROVE  [Ledger!Next]_(Ledger!ledgerVars)
<1>1. Recorded' = Recorded \cup {Main(NextHeight)}
  BY RecordedWith
<1> QED
  BY <1>1 DEF Ledger!Next, Ledger!Execute, NextHeight, Cursor

\* Steps that announce a frame, recorded before or in the step.
LEMMA AnnouncingSteps ==
    ASSUME IInv, NEW h \in Height, announced' = announced \cup {Main(h)}, UNCHANGED applied,
           canon' = [canon EXCEPT ![h] = Main(h)]
    PROVE  [Ledger!Next]_(Ledger!ledgerVars)
<1>1. Recorded' = Recorded \cup {Main(h)}
  BY RecordedWith
<1>2. Main(h) \in Ledger!Final
  BY DEF Ledger!Final
<1> QED
  BY <1>1, <1>2 DEF Ledger!Next, Ledger!AnnounceFrame

\* Every step of the worker is a step of the ledger or none.
LEMMA WorkerLedger ==
    ASSUME IInv, IInv', Worker PROVE [Ledger!Next]_(Ledger!ledgerVars)
<1>1. CASE StartPass \/ Look \/ LookIdle \/ ChooseQueued \/ ChooseDurable \/ ChooseImplied
           \/ ChooseNone \/ StepWait \/ StepReject \/ CanonicalWait \/ InPlaceBegin \/ InPlaceFinish
  <2>1. UNCHANGED <<canon, applied, announced>>
    BY <1>1 DEF StartPass, Look, LookIdle, ChooseQueued, ChooseDurable, ChooseImplied, ChooseNone,
                StepWait, StepReject, CanonicalWait, InPlaceBegin, InPlaceFinish, durable, clock,
                execution, history
  <2> QED
    BY <2>1, ClockSteps
<1>2. CASE StepClockAhead \/ StepLegacy \/ StepFail(TRUE) \/ StepFail(FALSE)
  <2>1. UNCHANGED <<applied, announced>>
    BY <1>2 DEF StepClockAhead, StepLegacy, StepFail, execution, history
  <2>2. work.frame = Main(NextHeight) /\ NextHeight \in Height
    BY <1>2 DEF IInv, WorkerOnChain, StepClockAhead, StepLegacy, StepFail
  <2>3. \A h \in Height : canon'[h] \in {canon[h], Main(h)}
    <3>1. UNCHANGED canon \/ canon' = [canon EXCEPT ![work.frame.number] = work.frame]
      BY <1>2 DEF StepClockAhead, StepLegacy, StepFail, HandOver, WriteClock, clock
    <3>2. UNCHANGED canon \/ canon' = [canon EXCEPT ![NextHeight] = Main(NextHeight)]
      BY <2>2, <3>1, FrameFacts
    <3> QED
      BY <3>2 DEF IInv, TypeOK
  <2> QED
    BY <2>1, <2>3, ClockSteps
<1>3. CASE StepPublish
  <2>1. work.frame = Main(NextHeight) /\ NextHeight \in Height
    BY <1>3 DEF IInv, WorkerOnChain, StepPublish
  <2>2. /\ applied' = Append(applied, Main(NextHeight)) /\ UNCHANGED announced
        /\ canon' = [canon EXCEPT ![NextHeight] = Main(NextHeight)]
    BY <1>3, <2>1, FrameFacts DEF StepPublish, WriteClock, history
  <2> QED
    BY <2>1, <2>2, ExecutingSteps
<1>4. CASE CanonicalPublish \/ InPlaceCommit
  <2>1. /\ work.frame = Main(NextHeight) /\ NextHeight \in Height
        /\ canon[NextHeight] = work.frame
    BY <1>4 DEF IInv, WorkerOnChain, CanonicalPublish, InPlaceCommit
  <2>2. /\ applied' = Append(applied, Main(NextHeight)) /\ UNCHANGED <<announced, canon>>
    BY <1>4, <2>1 DEF CanonicalPublish, InPlaceCommit, clock, history
  <2>3. canon' = [canon EXCEPT ![NextHeight] = Main(NextHeight)]
    BY <2>1, <2>2 DEF IInv, TypeOK
  <2> QED
    BY <2>1, <2>2, <2>3, ExecutingSteps
<1>5. CASE FinishPublished \/ FinishLegacy
  <2>1. Cursor \in Height /\ work.frame = Main(Cursor) /\ canon[Cursor] = Main(Cursor)
    BY <1>5, FrameFacts DEF IInv, WorkerOnChain, ClockCoversState, FinishPublished, FinishLegacy
  <2>2. UNCHANGED <<canon, applied>> /\ announced' \in {announced, announced \cup {Main(Cursor)}}
    BY <1>5, <2>1 DEF FinishPublished, FinishLegacy, durable, clock, execution
  <2>3. canon' = [canon EXCEPT ![Cursor] = Main(Cursor)]
    BY <2>1, <2>2 DEF IInv, TypeOK
  <2>4. CASE announced' = announced
    BY <2>2, <2>4, ClockSteps
  <2>5. CASE announced' = announced \cup {Main(Cursor)}
    BY <2>1, <2>2, <2>3, <2>5, AnnouncingSteps
  <2> QED
    BY <2>2, <2>4, <2>5
<1> QED
  BY <1>1, <1>2, <1>3, <1>4, <1>5 DEF Worker

\* So is every step of consensus, the poller and gossip.
LEMMA OutsideLedger ==
    ASSUME IInv, IInv', Consensus \/ Sync PROVE [Ledger!Next]_(Ledger!ledgerVars)
<1>1. CASE Activate \/ (\E f \in Frame : Notarize(f)) \/ (\E h \in Height : FinalizeAdmitted(h))
           \/ \E f \in offering : Offer(f)
  <2>1. UNCHANGED <<canon, applied, announced>>
    BY <1>1 DEF Activate, Notarize, FinalizeAdmitted, Offer, durable, clock, execution, history
  <2> QED
    BY <2>1, ClockSteps
<1>2. ASSUME NEW h \in Height, FinalizeCanonical(h) PROVE [Ledger!Next]_(Ledger!ledgerVars)
  <2>1. CASE canon[h] = Main(h)
    <3>1. UNCHANGED <<canon, applied, announced>>
      BY <1>2, <2>1 DEF FinalizeCanonical, clock, execution
    <3> QED
      BY <3>1, ClockSteps
  <2>2. CASE canon[h] # Main(h)
    <3>1. /\ canon' = [canon EXCEPT ![h] = Main(h)] /\ UNCHANGED applied
          /\ announced' = announced \cup {Main(h)}
      BY <1>2, <2>2, FrameFacts DEF FinalizeCanonical, WriteClock, execution
    <3> QED
      BY <3>1, AnnouncingSteps
  <2> QED
    BY <2>1, <2>2
<1>3. CASE Sync
  <2>1. UNCHANGED <<applied, announced>>
    BY <1>3 DEF Sync, SyncChain, GossipFrame, TakeSynced, StoreSynced, execution
  <2>2. \A h \in Height : canon'[h] \in {canon[h], Main(h)}
    BY <1>3 DEF Sync, SyncChain, GossipFrame, TakeSynced, StoreSynced, clock
  <2> QED
    BY <2>1, <2>2, ClockSteps
<1> QED
  BY <1>1, <1>2, <1>3 DEF Consensus

\* Clock, state and announcements of the archive are those of an append-only
\* ledger of the finalized chain, through every path and every restart.
THEOREM LedgerRefined == Spec => ImplementsLedger
<1>1. Init => Ledger!Init
  BY DEF Init, Ledger!Init, Recorded
<1>2. ASSUME IInv, [Next]_vars PROVE [Ledger!Next]_(Ledger!ledgerVars)
  <2>1. IInv'
    BY <1>2, NextIInv
  <2>2. CASE Crash \/ Recover \/ UNCHANGED vars
    <3>1. UNCHANGED <<canon, applied, announced>>
      BY <2>2 DEF Crash, Recover, vars, durable, clock, execution, history
    <3> QED
      BY <1>2, <2>1, <3>1, ClockSteps
  <2> QED
    BY <1>2, <2>1, <2>2, WorkerLedger, OutsideLedger DEF Next
<1> QED
  BY <1>1, <1>2, Invariance, PTL DEF Spec, ImplementsLedger, Ledger!Spec
-----------------------------------------------------------------------------
(* What waits, and who is woken for it                                     *)

\* A descendant that finalizes the chosen frame is above it on the chain.
ImpliedOnChain ==
    work.at = "chosen" /\ work.implied # None =>
        /\ work.implied = Main(work.implied.number)
        /\ work.implied.number \in Height /\ work.implied.number >= NextHeight

\* A frame is rejected when it, or a frame above it, fails authentication.
RejectedForCause == \A f \in rejected : \E g \in Refused : g.number >= f.number

\* While candidate writes succeed, what was handed over is stored durably.
DurablyHeld ==
    ~StoreFails =>
        /\ offering \subseteq certs
        /\ \A f \in taken : f \in certs \/ canon[f.number] = f
        /\ noted # 0 => noted \in Height /\ Main(noted) \in certs

\* A pass that found no canonical record, and one that ended, leave a frame
\* handed over at the next height to the candidate store or to the rejections,
\* unless a signal came in.
Awake ==
    /\ work.at = "missing" => active
    /\ ~StoreFails /\ active /\ ~wake =>
          \A f \in taken : f.number = NextHeight =>
              /\ work.at = "missing" => f \in certs
              /\ work.at = "rest" => f \in rejected

HInv == TailBounded /\ ImpliedOnChain /\ RejectedForCause /\ DurablyHeld /\ Awake

\* A set of heights has a highest one: of the sets of members above a member,
\* one is smallest, and it is empty.
LEMMA HighestExists ==
    ASSUME NEW S \in SUBSET Height, S # {}
    PROVE  \E m \in S : \A i \in S : i <= m
<1> DEFINE Above(m) == {i \in S : i > m}
           Family == {Above(m) : m \in S}
<1>1. IsFiniteSet(S) /\ S \subseteq Nat
  <2>1. MaxHeight \in Int /\ 1 \in Int /\ Height = 1 .. MaxHeight /\ Height \subseteq Nat
    BY FinalizationAssumption DEF Height
  <2>2. IsFiniteSet(Height)
    BY <2>1, FS_Interval
  <2> QED
    BY <2>1, <2>2, FS_Subset
<1>2. FiniteSubsetsOf(S) = SUBSET S
  BY <1>1, FS_FiniteSubsetsOfFinite
<1>3. IsWellFoundedOn(StrictSubsetOrdering(S), FiniteSubsetsOf(S))
  BY FS_StrictSubsetOrderingWellFounded
<1>4. Family \subseteq FiniteSubsetsOf(S) /\ Family # {}
  <2>1. \A m \in S : Above(m) \in SUBSET S
    OBVIOUS
  <2>2. Family \subseteq SUBSET S
    <3> HIDE DEF Above
    <3> QED
      BY <2>1
  <2>3. Family # {}
    <3>1. PICK m : m \in S
      OBVIOUS
    <3>2. Above(m) \in Family
      BY <3>1
    <3> HIDE DEF Family, Above
    <3> QED
      BY <3>2
  <2> HIDE DEF Family, Above
  <2> QED
    BY <1>2, <2>2, <2>3
<1> HIDE DEF Family
<1>5. \E x \in Family : \A y \in Family : ~(<<y, x>> \in StrictSubsetOrdering(S))
  BY <1>3, <1>4, WFMin
<1>6. PICK low \in Family : \A y \in Family : ~(<<y, low>> \in StrictSubsetOrdering(S))
  BY <1>5
<1>7. PICK m \in S : low = Above(m)
  BY <1>6 DEF Family
<1>8. Above(m) = {}
  <2> SUFFICES ASSUME NEW k \in Above(m) PROVE FALSE
    OBVIOUS
  <2>1. k \in S /\ k > m /\ Above(k) \in Family
    BY DEF Family
  <2>2. Above(k) \subseteq Above(m) /\ Above(k) # Above(m)
    <3>1. \A i \in S : i \in Nat
      BY <1>1
    <3>2. \A i \in S : i > k => i > m
      BY <2>1, <3>1
    <3>3. ~(k > k)
      BY <2>1, <3>1
    <3> QED
      BY <2>1, <3>2, <3>3
  <2>3. <<Above(k), Above(m)>> \in StrictSubsetOrdering(S)
    BY <2>2 DEF StrictSubsetOrdering
  <2> QED
    BY <1>6, <1>7, <2>1, <2>3
<1> QED
  BY <1>1, <1>8

\* The canonical head of a clock is its highest record.
HeadOf(records) ==
    IF \A h \in Height : records[h] = None THEN 0
    ELSE CHOOSE h \in Height : records[h] # None /\ \A i \in Height : records[i] # None => i <= h

\* The head is the highest height with a record, or 0.
LEMMA HeadFacts ==
    ASSUME NEW records
    PROVE  /\ HeadOf(records) \in Nat
           /\ \A h \in Height : records[h] # None => h <= HeadOf(records)
           /\ HeadOf(records) # 0 =>
                HeadOf(records) \in Height /\ records[HeadOf(records)] # None
<1> DEFINE S == {h \in Height : records[h] # None}
           head == HeadOf(records)
<1>1. CASE S = {}
  <2>1. head = 0
    BY <1>1 DEF HeadOf
  <2> QED
    BY <1>1, <2>1
<1>2. CASE S # {}
  <2>1. \E h \in Height : records[h] # None /\ \A i \in Height : records[i] # None => i <= h
    <3>1. PICK m \in S : \A i \in S : i <= m
      BY <1>2, HighestExists
    <3> QED
      BY <3>1
  <2>2. head = CHOOSE h \in Height :
                  records[h] # None /\ \A i \in Height : records[i] # None => i <= h
    BY <1>2 DEF HeadOf
  <2> HIDE DEF head
  <2>3. /\ head \in Height /\ records[head] # None
        /\ \A i \in Height : records[i] # None => i <= head
    BY <2>1, <2>2
  <2> QED
    BY <2>3, FrameFacts DEF head
<1> QED
  BY <1>1, <1>2

\* The highest queued height.
LEMMA HighestFacts ==
    ASSUME NEW q, DOMAIN q \subseteq Height, DOMAIN q # {}
    PROVE  Highest(q) \in DOMAIN q /\ \A i \in DOMAIN q : i <= Highest(q)
<1>1. \E h \in DOMAIN q : \A i \in DOMAIN q : i <= h
  BY HighestExists
<1> QED
  BY <1>1 DEF Highest

\* Writes of finalized frames never lower the canonical head.
LEMMA LatestGrows ==
    ASSUME IInv, IInv', \A h \in Height : canon'[h] \in {canon[h], Main(h)}
    PROVE  Latest \in Nat /\ Latest' \in Nat /\ Latest <= Latest'
<1>1. /\ Latest \in Nat
      /\ Latest # 0 => Latest \in Height /\ canon[Latest] # None
  BY HeadFacts DEF Latest, HeadOf
<1>2. Latest' = HeadOf(canon')
  BY DEF Latest, HeadOf
<1>3. Latest' \in Nat /\ \A h \in Height : canon'[h] # None => h <= Latest'
  BY <1>2, HeadFacts
<1>4. \A h \in Height : canon[h] # None => canon'[h] # None
  BY FrameFacts
<1> QED
  BY <1>1, <1>3, <1>4
-----------------------------------------------------------------------------
(* What the worker publishes is authentic, and the clock only grows         *)

\* An authentic choice is not a frame the verifier refuses, whether it has a
\* certificate of its own or a descendant's.
LEMMA AuthenticChoice ==
    ASSUME IInv, ImpliedOnChain, work.at = "chosen", Authentic
    PROVE  Main(NextHeight) \notin Refused
<1>1. NextHeight \in Height /\ work.frame = Main(NextHeight)
  BY DEF IInv, WorkerOnChain
<1>2. CASE work.implied = None
  BY <1>1, <1>2 DEF Authentic
<1>3. CASE work.implied # None
  <2>1. /\ work.implied.number \in Height /\ work.implied.number >= NextHeight
        /\ work.implied = Main(work.implied.number)
    BY <1>3 DEF ImpliedOnChain
  <2>2. NextHeight \in NextHeight .. work.implied.number
    BY <1>1, <2>1, FrameFacts
  <2>3. Ancestor(work.implied, NextHeight) = Main(NextHeight)
    BY <2>1 DEF Ancestor, Main
  <2> QED
    BY <1>3, <2>2, <2>3 DEF Authentic
<1> QED
  BY <1>2, <1>3

\* What a step may write to the clock: frames of the chain, and one that fails
\* authentication only where the pipeline does not admit it.
ClockWrites ==
    \A h \in Height :
        /\ canon'[h] \in {canon[h], Main(h)}
        /\ canon'[h] # canon[h] /\ canon'[h] \in Refused => ~Admits(h)

\* One record.
LEMMA OneWrite ==
    ASSUME IInv, NEW n \in Height, Main(n) \notin Refused \/ ~Admits(n),
           canon' = [canon EXCEPT ![n] = Main(n)]
    PROVE  ClockWrites
<1>1. \A h \in Height : canon'[h] = IF h = n THEN Main(n) ELSE canon[h]
  BY DEF IInv, TypeOK
<1> QED
  BY <1>1 DEF ClockWrites

\* The worker's writes.
LEMMA WorkerWrites ==
    ASSUME IInv, ImpliedOnChain, Worker PROVE ClockWrites
<1>1. CASE UNCHANGED canon
  BY <1>1 DEF ClockWrites
<1>2. CASE StepClockAhead
  <2>1. work.frame = Main(NextHeight) /\ NextHeight \in Height
    BY <1>2 DEF IInv, WorkerOnChain, StepClockAhead
  <2>2. UNCHANGED canon \/ canon' = [canon EXCEPT ![NextHeight] = Main(NextHeight)]
    BY <1>2, <2>1, FrameFacts DEF StepClockAhead, HandOver, WriteClock, clock
  <2>3. ~Admits(NextHeight)
    <3>1. Latest \in Nat
      BY HeadFacts DEF Latest, HeadOf
    <3> QED
      BY <1>2, <2>1, <3>1, FrameFacts DEF StepClockAhead, Admits
  <2> QED
    BY <1>1, <2>1, <2>2, <2>3, OneWrite
<1>3. CASE StepLegacy \/ StepPublish \/ StepFail(TRUE) \/ StepFail(FALSE)
  <2>1. work.frame = Main(NextHeight) /\ NextHeight \in Height
    BY <1>3 DEF IInv, WorkerOnChain, StepLegacy, StepPublish, StepFail
  <2>2. UNCHANGED canon \/ canon' = [canon EXCEPT ![NextHeight] = Main(NextHeight)]
    BY <1>3, <2>1, FrameFacts DEF StepLegacy, StepPublish, StepFail, HandOver, WriteClock, clock
  <2>3. Main(NextHeight) \notin Refused
    BY <1>3, AuthenticChoice DEF StepLegacy, StepPublish, StepFail
  <2> QED
    BY <1>1, <2>1, <2>2, <2>3, OneWrite
<1>4. CASE ~(StepClockAhead \/ StepLegacy \/ StepPublish \/ StepFail(TRUE) \/ StepFail(FALSE))
  <2>1. UNCHANGED canon
    BY <1>4 DEF Worker, StartPass, Look, LookIdle, ChooseQueued, ChooseDurable, ChooseImplied,
                ChooseNone, StepWait, StepReject, FinishPublished, CanonicalWait, CanonicalPublish,
                InPlaceBegin, InPlaceCommit, InPlaceFinish, FinishLegacy, durable, clock
  <2> QED
    BY <1>1, <2>1
<1> QED
  BY <1>2, <1>3, <1>4

\* The writes of consensus, the poller and gossip.
LEMMA OutsideWrites ==
    ASSUME IInv, Consensus \/ Sync PROVE ClockWrites
<1>1. CASE UNCHANGED canon
  BY <1>1 DEF ClockWrites
<1>2. ASSUME NEW h \in Height, FinalizeCanonical(h) PROVE ClockWrites
  <2>1. UNCHANGED canon \/ canon' = [canon EXCEPT ![h] = Main(h)]
    BY <1>2, FrameFacts DEF FinalizeCanonical, WriteClock, clock
  <2>2. ~Admits(h)
    BY <1>2 DEF FinalizeCanonical
  <2> QED
    BY <1>1, <2>1, <2>2, OneWrite
<1>3. ASSUME NEW lo \in Height, NEW top \in Height, StoreSynced(lo, top) PROVE ClockWrites
  <2>1. PICK stored \in lo .. top :
           canon' = [h \in Height |-> IF h \in lo .. stored THEN Main(h) ELSE canon[h]]
    BY <1>3, FrameFacts DEF StoreSynced
  <2>2. \A h \in Height : h \in lo .. stored => h \in lo .. top
    BY <2>1, FrameFacts
  <2>3. \A h \in lo .. top : Main(h) \notin Refused
    BY <1>3 DEF StoreSynced
  <2> QED
    BY <2>1, <2>2, <2>3 DEF ClockWrites
<1>4. CASE Sync
  BY <1>1, <1>3, <1>4 DEF Sync, SyncChain, GossipFrame, TakeSynced, clock
<1>5. CASE Consensus
  BY <1>1, <1>2, <1>5
     DEF Consensus, Activate, Notarize, FinalizeAdmitted, Offer, durable, clock
<1> QED
  BY <1>4, <1>5

\* The writes of every step.
LEMMA NextWrites ==
    ASSUME IInv, ImpliedOnChain, [Next]_vars PROVE ClockWrites
<1>1. CASE Crash \/ Recover \/ UNCHANGED vars
  <2>1. UNCHANGED canon
    BY <1>1 DEF Crash, Recover, vars, durable, clock
  <2> QED
    BY <2>1 DEF ClockWrites
<1> QED
  BY <1>1, WorkerWrites, OutsideWrites DEF Next
-----------------------------------------------------------------------------
(* What waits is bounded                                                   *)

\* The queue is finite, and any part of it is no longer than the queue.
LEMMA QueueParts ==
    ASSUME IInv, NEW S \in SUBSET DOMAIN queued
    PROVE  /\ IsFiniteSet(DOMAIN queued) /\ Cardinality(DOMAIN queued) \in Nat
           /\ IsFiniteSet(S) /\ Cardinality(S) \in Nat
           /\ Cardinality(S) <= Cardinality(DOMAIN queued)
<1>1. IsFiniteSet(Height)
  BY FS_Interval, FinalizationAssumption DEF Height
<1>2. IsFiniteSet(DOMAIN queued)
  BY <1>1, FS_Subset DEF IInv, TypeOK
<1>3. IsFiniteSet(S) /\ Cardinality(S) <= Cardinality(DOMAIN queued)
  BY <1>2, FS_Subset
<1> QED
  BY <1>2, <1>3, FS_CardinalityType

\* Dropping heights keeps the bound.
LEMMA DroppedBounded ==
    ASSUME IInv, TailBounded, NEW S \in SUBSET DOMAIN queued
    PROVE  Cardinality(DOMAIN Restrict(queued, S)) <= MaxQueued
<1>1. DOMAIN Restrict(queued, S) = S
  BY DEF Restrict
<1> QED
  BY <1>1, QueueParts, FinalizationAssumption DEF TailBounded

\* A full queue that takes a lower height gives its highest up.
LEMMA OfferedBounded ==
    ASSUME IInv, TailBounded, NEW f \in Frame
    PROVE  Cardinality(DOMAIN Offered(f)) <= MaxQueued
<1> DEFINE D == DOMAIN queued
           top == Highest(queued)
<1>1. /\ IsFiniteSet(D) /\ Cardinality(D) \in Nat /\ Cardinality(D) <= MaxQueued
      /\ MaxQueued \in Nat /\ MaxQueued > 0
  BY QueueParts, FinalizationAssumption DEF TailBounded
<1>2. CASE f.number \in D
  BY <1>1, <1>2 DEF Offered
<1>3. CASE f.number \notin D /\ Cardinality(D) < MaxQueued
  <2>1. DOMAIN Offered(f) = D \cup {f.number}
    BY <1>3 DEF Offered, Insert
  <2>2. Cardinality(D \cup {f.number}) = Cardinality(D) + 1
    BY <1>1, <1>3, FS_AddElement
  <2> QED
    BY <1>1, <1>3, <2>1, <2>2
<1>4. CASE f.number \notin D /\ ~(Cardinality(D) < MaxQueued) /\ top > f.number
  <2>1. D # {} /\ D \subseteq Height
    BY <1>1, <1>4, FS_EmptySet DEF IInv, TypeOK
  <2>2. top \in D
    BY <2>1, HighestFacts
  <2>3. /\ IsFiniteSet(D \ {top}) /\ Cardinality(D \ {top}) = Cardinality(D) - 1
    BY <1>1, <2>2, FS_RemoveElement
  <2>4. Cardinality((D \ {top}) \cup {f.number}) = Cardinality(D \ {top}) + 1
    BY <1>4, <2>3, FS_AddElement
  <2>5. DOMAIN Offered(f) = (D \ {top}) \cup {f.number}
    BY <1>4 DEF Offered, Insert, Restrict
  <2> QED
    BY <1>1, <2>3, <2>4, <2>5
<1>5. CASE f.number \notin D /\ ~(Cardinality(D) < MaxQueued) /\ ~(top > f.number)
  BY <1>1, <1>5 DEF Offered
<1> QED
  BY <1>2, <1>3, <1>4, <1>5

\* How a step may change the queue.
QueueMoves ==
    \/ UNCHANGED queued
    \/ queued' = << >>
    \/ \E S \in SUBSET DOMAIN queued : queued' = Restrict(queued, S)
    \/ \E f \in Frame : queued' = Offered(f)

\* The worker's changes of the queue.
LEMMA WorkerQueue ==
    ASSUME IInv, Worker PROVE QueueMoves
<1>1. CASE Look
  <2>1. {h \in DOMAIN queued : h > Cursor} \in SUBSET DOMAIN queued
    OBVIOUS
  <2> QED
    BY <1>1, <2>1 DEF Look, QueueMoves
<1>2. CASE ChooseDurable
  BY <1>2 DEF ChooseDurable, Durable, IInv, TypeOK, QueueMoves
<1>3. CASE StepReject
  <2>1. DOMAIN queued \ {NextHeight} \in SUBSET DOMAIN queued
    OBVIOUS
  <2> QED
    BY <1>3, <2>1 DEF StepReject, QueueMoves
<1>4. CASE FinishPublished \/ FinishLegacy
  <2>1. DOMAIN queued \ {work.frame.number} \in SUBSET DOMAIN queued
    OBVIOUS
  <2> QED
    BY <1>4, <2>1 DEF FinishPublished, FinishLegacy, QueueMoves
<1>5. CASE ~(Look \/ ChooseDurable \/ StepReject \/ FinishPublished \/ FinishLegacy)
  BY <1>5 DEF Worker, StartPass, LookIdle, ChooseQueued, ChooseImplied, ChooseNone, StepClockAhead,
              StepWait, StepLegacy, StepPublish, StepFail, CanonicalWait, CanonicalPublish,
              InPlaceBegin, InPlaceCommit, InPlaceFinish, pipeline, QueueMoves
<1> QED
  BY <1>1, <1>2, <1>3, <1>4, <1>5

\* The changes of the queue in every step.
LEMMA NextQueue ==
    ASSUME IInv, [Next]_vars PROVE QueueMoves
<1>1. CASE Consensus
  BY <1>1 DEF Consensus, Activate, Notarize, FinalizeAdmitted, FinalizeCanonical, Offer, IInv,
              TypeOK, memory, pipeline, QueueMoves
<1>2. CASE Sync
  BY <1>2, FrameFacts DEF Sync, SyncChain, GossipFrame, TakeSynced, StoreSynced, pipeline, QueueMoves
<1>3. CASE Crash \/ Recover \/ UNCHANGED vars
  BY <1>3 DEF Crash, Recover, vars, memory, pipeline, QueueMoves
<1> QED
  BY <1>1, <1>2, <1>3, WorkerQueue DEF Next

\* How a step may change the certified candidates: an admitted height is added.
CertsMove ==
    /\ certs \subseteq certs'
    /\ \A f \in certs' : f \in certs \/ \E h \in Height : f = Main(h) /\ Admits(h)

\* The changes of the certified candidates in every step.
LEMMA NextCerts ==
    ASSUME IInv, [Next]_vars PROVE CertsMove
<1>1. CASE UNCHANGED certs
  BY <1>1 DEF CertsMove
<1>2. ASSUME NEW h \in Height, FinalizeAdmitted(h) PROVE CertsMove
  <2>1. Admits(h) /\ certs' \in {certs, certs \cup {Main(h)}}
    BY <1>2 DEF FinalizeAdmitted, PutCandidate, candidates
  <2> QED
    BY <2>1 DEF CertsMove
<1>3. ASSUME NEW lo \in Height, NEW top \in Height, TakeSynced(lo, top) PROVE CertsMove
  <2>1. Admits(top) /\ certs' = certs \cup {Main(top)}
    BY <1>3, FrameFacts DEF TakeSynced
  <2> QED
    BY <2>1 DEF CertsMove
<1>4. CASE Worker
  BY <1>1, <1>4
     DEF Worker, StartPass, Look, LookIdle, ChooseQueued, ChooseDurable, ChooseImplied, ChooseNone,
         StepClockAhead, StepWait, StepLegacy, StepReject, StepPublish, FinishPublished, StepFail,
         CanonicalWait, CanonicalPublish, InPlaceBegin, InPlaceCommit, InPlaceFinish, FinishLegacy,
         durable, candidates
<1>5. CASE Consensus
  BY <1>1, <1>2, <1>5
     DEF Consensus, Activate, Notarize, PutCandidate, FinalizeCanonical, Offer, durable, candidates
<1>6. CASE Sync
  BY <1>1, <1>3, <1>6 DEF Sync, SyncChain, GossipFrame, StoreSynced, candidates
<1>7. CASE Crash \/ Recover \/ UNCHANGED vars
  BY <1>1, <1>7 DEF Crash, Recover, vars, durable, candidates
<1> QED
  BY <1>4, <1>5, <1>6, <1>7 DEF Next

\* The bounds are kept.
LEMMA TailKept ==
    ASSUME IInv, IInv', TailBounded, ImpliedOnChain, [Next]_vars PROVE TailBounded'
<1>1. Latest \in Nat /\ Latest' \in Nat /\ Latest <= Latest'
  BY NextWrites, LatestGrows DEF ClockWrites
<1>2. \A f \in certs' : f.number <= Latest' + MaxAhead
  <2> SUFFICES ASSUME NEW f \in certs' PROVE f.number <= Latest' + MaxAhead
    OBVIOUS
  <2>1. f \in Frame /\ f.number \in Nat
    BY FrameFacts DEF IInv, TypeOK
  <2>2. MaxAhead \in Nat
    BY FinalizationAssumption
  <2>3. f.number <= Latest + MaxAhead
    <3>1. CASE f \in certs
      BY <3>1 DEF TailBounded
    <3>2. ASSUME NEW h \in Height, f = Main(h), Admits(h) PROVE f.number <= Latest + MaxAhead
      BY <1>1, <2>2, <3>2, FrameFacts DEF Admits
    <3> QED
      BY <3>1, <3>2, NextCerts DEF CertsMove
  <2> QED
    BY <1>1, <2>1, <2>2, <2>3
<1>3. Cardinality(DOMAIN queued') <= MaxQueued
  <2>1. CASE UNCHANGED queued
    BY <2>1 DEF TailBounded
  <2>2. CASE queued' = << >>
    <3>1. DOMAIN queued' = {}
      BY <2>2
    <3> QED
      BY <3>1, FS_EmptySet, FinalizationAssumption
  <2> QED
    BY <2>1, <2>2, NextQueue, DroppedBounded, OfferedBounded DEF QueueMoves
<1> QED
  BY <1>2, <1>3 DEF TailBounded
-----------------------------------------------------------------------------
(* What was handed over is held                                            *)

\* note_finalized notes the offered frame or nothing.
LEMMA NotedMoves ==
    ASSUME NEW f PROVE NotedAfter(f) \in {noted, f.number}
BY DEF NotedAfter

\* A step that stores what it takes and notes.
LEMMA HeldKept ==
    ASSUME IInv, IInv', ImpliedOnChain, DurablyHeld, [Next]_vars,
           ~StoreFails =>
              /\ offering' \subseteq offering \cup certs'
              /\ \A f \in taken' : f \in taken \/ f \in certs' \/ canon'[f.number] = f
              /\ \/ noted' \in {noted, 0}
                 \/ noted' \in Height /\ Main(noted') \in certs'
    PROVE  DurablyHeld'
<1> SUFFICES ASSUME ~StoreFails PROVE DurablyHeld'
  BY DEF DurablyHeld
<1>1. certs \subseteq certs'
  BY NextCerts DEF CertsMove
<1>2. \A f \in taken : canon[f.number] = f => canon'[f.number] = f
  <2> SUFFICES ASSUME NEW f \in taken, canon[f.number] = f PROVE canon'[f.number] = f
    OBVIOUS
  <2>1. f \in Frame /\ f.number \in Height /\ f # None
    BY FrameFacts DEF IInv, TypeOK
  <2>2. f = Main(f.number)
    BY <2>1 DEF IInv, StoreOnChain
  <2> QED
    BY <2>1, <2>2, NextWrites DEF ClockWrites
<1> QED
  BY <1>1, <1>2 DEF DurablyHeld

\* What was handed over stays held.
LEMMA NextHeld ==
    ASSUME IInv, IInv', ImpliedOnChain, DurablyHeld, [Next]_vars PROVE DurablyHeld'
<1>1. CASE UNCHANGED <<offering, taken, noted>>
  BY <1>1, HeldKept
<1>2. CASE ChooseDurable
  <2>1. PICK f \in certs : noted' = NotedAfter(f)
    BY <1>2 DEF ChooseDurable, Durable
  <2>2. f.number \in Height /\ f = Main(f.number)
    BY FrameFacts DEF IInv, TypeOK, StoreOnChain
  <2>3. UNCHANGED <<offering, taken, certs>>
    BY <1>2 DEF ChooseDurable, durable, candidates, history
  <2> QED
    BY <2>1, <2>2, <2>3, NotedMoves, HeldKept
<1>3. ASSUME NEW h \in Height, FinalizeAdmitted(h) PROVE DurablyHeld'
  <2>1. /\ UNCHANGED <<taken, noted>> /\ offering' = offering \cup {Main(h)}
        /\ ~StoreFails => certs' = certs \cup {Main(h)}
    BY <1>3 DEF FinalizeAdmitted, PutCandidate, pipeline, history
  <2> QED
    BY <2>1, HeldKept
<1>4. ASSUME NEW h \in Height, FinalizeCanonical(h) PROVE DurablyHeld'
  <2>1. UNCHANGED <<offering, noted>> /\ taken' = taken \cup {Main(h)}
    BY <1>4 DEF FinalizeCanonical, pipeline
  <2>2. canon'[h] = Main(h)
    BY <1>4, FrameFacts DEF FinalizeCanonical, WriteClock, clock, IInv, TypeOK
  <2>3. Main(h).number = h
    BY FrameFacts
  <2> QED
    BY <2>1, <2>2, <2>3, HeldKept
<1>5. ASSUME NEW f \in offering, Offer(f) PROVE DurablyHeld'
  <2>1. /\ UNCHANGED certs /\ offering' \subseteq offering /\ taken' = taken \cup {f}
        /\ noted' \in {noted, f.number}
    BY <1>5, NotedMoves DEF Offer, durable, candidates
  <2>2. f.number \in Height /\ f = Main(f.number)
    BY FrameFacts DEF IInv, TypeOK, StoreOnChain
  <2>3. ~StoreFails => f \in certs
    BY DEF DurablyHeld
  <2> QED
    BY <2>1, <2>2, <2>3, HeldKept
<1>6. ASSUME NEW lo \in Height, NEW top \in Height, TakeSynced(lo, top),
             taken' \in {taken, taken \cup {Main(top)}}
      PROVE  DurablyHeld'
  <2>1. /\ UNCHANGED offering /\ certs' = certs \cup {Main(top)}
        /\ noted' \in {noted, Main(top).number}
    BY <1>6, NotedMoves DEF TakeSynced
  <2>2. Main(top).number = top
    BY FrameFacts
  <2> QED
    BY <1>6, <2>1, <2>2, HeldKept
<1>7. ASSUME NEW lo \in Height, NEW top \in Height, StoreSynced(lo, top),
             taken' \in {taken, taken \cup {Main(top)}}
      PROVE  DurablyHeld'
  <2>1. UNCHANGED <<offering, noted>>
    BY <1>7 DEF StoreSynced, pipeline
  <2>2. ~StoreFails => canon'[top] = Main(top)
    BY <1>7, FrameFacts DEF StoreSynced
  <2>3. Main(top).number = top
    BY FrameFacts
  <2> QED
    BY <1>7, <2>1, <2>2, <2>3, HeldKept
<1>8. CASE Worker
  BY <1>1, <1>2, <1>8
     DEF Worker, StartPass, Look, LookIdle, ChooseQueued, ChooseImplied, ChooseNone,
         StepClockAhead, StepWait, StepLegacy, StepReject, StepPublish, FinishPublished, StepFail,
         CanonicalWait, CanonicalPublish, InPlaceBegin, InPlaceCommit, InPlaceFinish, FinishLegacy,
         pipeline, history
<1>9. CASE Consensus
  <2>1. ASSUME Activate \/ \E f \in Frame : Notarize(f) PROVE UNCHANGED <<offering, taken, noted>>
    BY <2>1 DEF Activate, Notarize, memory, pipeline, history
  <2> QED
    BY <1>1, <1>3, <1>4, <1>5, <1>9, <2>1 DEF Consensus
<1>10. CASE Sync
  BY <1>6, <1>7, <1>10 DEF Sync, SyncChain, GossipFrame
<1>11. CASE Crash
  BY <1>11, HeldKept DEF Crash
<1>12. CASE Recover \/ UNCHANGED vars
  BY <1>1, <1>12 DEF Recover, vars, memory, pipeline, history
<1> QED
  BY <1>8, <1>9, <1>10, <1>11, <1>12 DEF Next

-----------------------------------------------------------------------------
(* What is rejected, and what the choice rests on                          *)

\* A step other than a choice keeps what the choice rests on.
LEMMA ImpliedKept ==
    ASSUME IInv, ImpliedOnChain, work'.at # "chosen" \/ UNCHANGED <<work, applied>>
    PROVE  ImpliedOnChain'
BY DEF ImpliedOnChain, NextHeight, Cursor

\* A certified descendant is above the height it is chosen for.
LEMMA DescendantFacts ==
    ASSUME IInv, NextHeight \in Height, NEW d \in Descendants(NextHeight)
    PROVE  d.number \in Height /\ d = Main(d.number) /\ d.number >= NextHeight
<1>1. d \in {queued[h] : h \in {h \in DOMAIN queued : h > NextHeight}}
      \/ d \in {f \in certs : f.number \in (NextHeight + 1) .. (NextHeight + MaxAhead)
                              /\ f \notin rejected}
  BY DEF Descendants
<1>2. CASE d \in {queued[h] : h \in {h \in DOMAIN queued : h > NextHeight}}
  <2>1. PICK h \in DOMAIN queued : h > NextHeight /\ d = queued[h]
    BY <1>2
  <2>2. h \in Height /\ d = Main(h)
    BY <2>1 DEF IInv, TypeOK, StoreOnChain
  <2> QED
    BY <2>1, <2>2, FrameFacts
<1>3. CASE d \in {f \in certs : f.number \in (NextHeight + 1) .. (NextHeight + MaxAhead)
                               /\ f \notin rejected}
  <2>1. d \in certs /\ d.number \in (NextHeight + 1) .. (NextHeight + MaxAhead)
    BY <1>3
  <2>2. d.number \in Height /\ d = Main(d.number)
    BY <2>1, FrameFacts DEF IInv, TypeOK, StoreOnChain
  <2> QED
    BY <2>1, <2>2, FrameFacts, FinalizationAssumption
<1> QED
  BY <1>1, <1>2, <1>3

\* What the choice rests on is kept.
LEMMA NextImplied ==
    ASSUME IInv, ImpliedOnChain, [Next]_vars PROVE ImpliedOnChain'
<1>1. CASE ChooseQueued \/ ChooseDurable
  <2>1. work'.implied = None
    BY <1>1 DEF ChooseQueued, ChooseDurable, At
  <2> QED
    BY <2>1 DEF ImpliedOnChain
<1>2. CASE ChooseImplied
  <2>1. PICK d \in Descendants(NextHeight) :
           work' = At("chosen", Ancestor(d, NextHeight), d, work.attempts)
    BY <1>2 DEF ChooseImplied
  <2>2. NextHeight \in Height /\ UNCHANGED applied
    BY <1>2 DEF IInv, WorkerOnChain, ChooseImplied, durable, execution
  <2>3. work'.implied = d
    BY <2>1 DEF At
  <2> QED
    BY <2>2, <2>3, DescendantFacts DEF ImpliedOnChain, NextHeight, Cursor
<1>3. CASE Worker /\ ~(ChooseQueued \/ ChooseDurable \/ ChooseImplied)
  <2>1. work'.at # "chosen"
    <3>1. ASSUME work' \in {Top, Rest} PROVE work'.at # "chosen"
      BY <3>1 DEF Top, Rest, At
    <3>2. ASSUME Look PROVE work'.at # "chosen"
      BY <3>2 DEF Look, At
    <3>3. ASSUME StepPublish \/ CanonicalPublish \/ InPlaceBegin \/ InPlaceCommit \/ InPlaceFinish
          PROVE  work'.at # "chosen"
      BY <3>3 DEF StepPublish, CanonicalPublish, InPlaceBegin, InPlaceCommit, InPlaceFinish, At
    <3> QED
      BY <1>3, <3>1, <3>2, <3>3
         DEF Worker, StartPass, LookIdle, ChooseNone, StepClockAhead, StepWait, StepLegacy,
             StepReject, FinishPublished, StepFail, HandOver, EndPass, CanonicalWait, FinishLegacy
  <2> QED
    BY <2>1, ImpliedKept
<1>4. CASE Consensus \/ Sync \/ UNCHANGED vars
  <2>1. UNCHANGED <<work, applied>>
    BY <1>4
       DEF Consensus, Activate, Notarize, FinalizeAdmitted, FinalizeCanonical, Offer, Sync,
           SyncChain, GossipFrame, TakeSynced, StoreSynced, vars, durable, execution, memory
  <2> QED
    BY <2>1, ImpliedKept
<1>5. CASE Crash \/ Recover
  <2>1. work'.at # "chosen"
    BY <1>5 DEF Crash, Recover, At, Top
  <2> QED
    BY <2>1, ImpliedKept
<1> QED
  BY <1>1, <1>2, <1>3, <1>4, <1>5 DEF Next

\* A choice that is not authentic has a refused frame at or above it.
LEMMA RefusedAbove ==
    ASSUME IInv, ImpliedOnChain, work.at = "chosen", ~Authentic
    PROVE  \E g \in Refused : g.number >= NextHeight
<1>1. NextHeight \in Height /\ work.frame = Main(NextHeight) /\ NextHeight \in Nat
  BY FrameFacts DEF IInv, WorkerOnChain
<1>2. CASE work.implied = None
  BY <1>1, <1>2, FrameFacts DEF Authentic
<1>3. CASE work.implied # None
  <2>1. /\ work.implied.number \in Height
        /\ work.implied = Main(work.implied.number)
    BY <1>3 DEF ImpliedOnChain
  <2>2. PICK i \in NextHeight .. work.implied.number : Ancestor(work.implied, i) \in Refused
    BY <1>3 DEF Authentic
  <2>3. Ancestor(work.implied, i) = Main(i)
    BY <2>1 DEF Ancestor, Main
  <2>4. Main(i).number = i
    BY DEF Main
  <2>5. i >= NextHeight
    BY <1>1, <2>1, <2>2, FrameFacts
  <2> QED
    BY <2>2, <2>3, <2>4, <2>5
<1> QED
  BY <1>2, <1>3

\* A rejection keeps its cause.
LEMMA NextRejected ==
    ASSUME IInv, ImpliedOnChain, RejectedForCause, [Next]_vars PROVE RejectedForCause'
<1>1. CASE rejected' \subseteq rejected
  BY <1>1 DEF RejectedForCause
<1>2. CASE StepReject
  <2>1. work.at = "chosen" /\ ~Authentic /\ rejected' = rejected \cup {work.frame}
    BY <1>2 DEF StepReject
  <2>2. work.frame.number = NextHeight
    BY <2>1, FrameFacts DEF IInv, WorkerOnChain
  <2> QED
    BY <2>1, <2>2, RefusedAbove DEF RejectedForCause
<1>3. CASE Worker
  BY <1>1, <1>2, <1>3
     DEF Worker, StartPass, Look, LookIdle, ChooseQueued, ChooseDurable, ChooseImplied, ChooseNone,
         StepClockAhead, StepWait, StepLegacy, StepPublish, FinishPublished, StepFail,
         CanonicalWait, CanonicalPublish, InPlaceBegin, InPlaceCommit, InPlaceFinish, FinishLegacy,
         pipeline
<1>4. CASE Consensus \/ Sync
  BY <1>1, <1>4
     DEF Consensus, Activate, Notarize, FinalizeAdmitted, FinalizeCanonical, Offer, Sync,
         SyncChain, GossipFrame, TakeSynced, StoreSynced, memory, pipeline
<1>5. CASE Crash \/ Recover \/ UNCHANGED vars
  BY <1>1, <1>5 DEF Crash, Recover, vars, memory, pipeline
<1> QED
  BY <1>3, <1>4, <1>5 DEF Next
-----------------------------------------------------------------------------
(* The worker never sleeps on work                                         *)

\* Steps of others: a frame they hand over comes with a signal.
LEMMA OthersAwake ==
    ASSUME Awake, UNCHANGED <<work, active, applied, rejected>>, certs \subseteq certs',
           \/ wake' = TRUE
           \/ ~active
           \/ UNCHANGED <<wake, taken>>
    PROVE  Awake'
BY DEF Awake, NextHeight, Cursor

\* Away from the two places, and with a signal, nothing is asked.
LEMMA ElsewhereAwake ==
    ASSUME \/ work'.at \notin {"missing", "rest"}
           \/ work'.at = "rest" /\ wake' = TRUE
    PROVE  Awake'
BY DEF Awake

\* Looking: no canonical record means that what was handed over is a candidate.
LEMMA LookAwake ==
    ASSUME IInv, DurablyHeld, Awake, Look \/ LookIdle PROVE Awake'
<1>1. CASE Look
  <2>1. UNCHANGED <<applied, active, certs, taken, canon>> /\ NextHeight' = NextHeight
    BY <1>1 DEF Look, durable, clock, candidates, execution, history, NextHeight, Cursor
  <2>2. CASE canon[NextHeight] = None
    <3>1. work'.at = "missing" /\ active
      BY <1>1, <2>2 DEF Look, At
    <3>2. ~StoreFails => \A f \in taken : f.number = NextHeight => f \in certs
      BY <2>2, FrameFacts DEF DurablyHeld, IInv, TypeOK
    <3> QED
      BY <2>1, <3>1, <3>2 DEF Awake
  <2>3. CASE canon[NextHeight] # None
    <3>1. work'.at = "canonical"
      BY <1>1, <2>3 DEF Look, At
    <3> QED
      BY <3>1, ElsewhereAwake
  <2> QED
    BY <2>2, <2>3
<1>2. CASE LookIdle
  <2>1. work'.at = "rest" /\ UNCHANGED <<applied, active, taken>> /\ NextHeight' = NextHeight
    BY <1>2 DEF LookIdle, EndPass, Rest, At, durable, execution, history, NextHeight, Cursor
  <2>2. active => NextHeight \notin Height
    BY <1>2 DEF LookIdle
  <2>3. \A f \in taken : f.number \in Height
    BY FrameFacts DEF IInv, TypeOK
  <2> QED
    BY <2>1, <2>2, <2>3 DEF Awake
<1> QED
  BY <1>1, <1>2

\* Choosing: a certified candidate that is not chosen was rejected.
LEMMA ChooseAwake ==
    ASSUME IInv, Awake, ChooseQueued \/ ChooseDurable \/ ChooseImplied \/ ChooseNone PROVE Awake'
<1>1. CASE ChooseQueued \/ ChooseDurable \/ ChooseImplied
  <2>1. work'.at = "chosen"
    BY <1>1 DEF ChooseQueued, ChooseDurable, ChooseImplied, At
  <2> QED
    BY <2>1, ElsewhereAwake
<1>2. CASE ChooseNone
  <2>1. /\ work.at = "missing" /\ work'.at = "rest"
        /\ UNCHANGED <<applied, active, certs, rejected, taken>> /\ NextHeight' = NextHeight
        /\ wake' = (wake \/ FALSE)
    BY <1>2 DEF ChooseNone, EndPass, Rest, At, durable, candidates, execution, pipeline, history,
                NextHeight, Cursor
  <2>2. \A f \in certs : f.number = NextHeight => f \in rejected
    BY <1>2 DEF ChooseNone, Durable
  <2> QED
    BY <2>1, <2>2 DEF Awake
<1> QED
  BY <1>1, <1>2

\* Publishing, handing over and rejecting.
LEMMA StepAwake ==
    ASSUME IInv, DurablyHeld, Awake,
           StepClockAhead \/ StepWait \/ StepLegacy \/ StepReject \/ StepPublish
           \/ StepFail(TRUE) \/ StepFail(FALSE)
    PROVE  Awake'
<1>1. CASE StepReject
  <2>1. /\ work.at = "chosen" /\ rejected' = rejected \cup {work.frame} /\ work'.at = "rest"
        /\ UNCHANGED <<applied, active, taken>> /\ NextHeight' = NextHeight
        /\ Latest < NextHeight
    BY <1>1 DEF StepReject, EndPass, Rest, At, durable, execution, history, NextHeight, Cursor
  <2>2. work.frame = Main(NextHeight)
    BY <2>1 DEF IInv, WorkerOnChain
  <2>3. ~StoreFails => \A f \in taken : f.number = NextHeight => f = Main(NextHeight)
    <3> SUFFICES ASSUME ~StoreFails, NEW f \in taken, f.number = NextHeight
                 PROVE  f = Main(NextHeight)
      OBVIOUS
    <3>1. f.number \in Height /\ f # None
      BY FrameFacts DEF IInv, TypeOK
    <3>2. f \in certs \/ canon[f.number] = f
      BY DEF DurablyHeld
    <3> QED
      BY <3>1, <3>2 DEF IInv, StoreOnChain
  <2> QED
    BY <2>1, <2>2, <2>3 DEF Awake
<1>2. CASE StepPublish
  <2>1. work'.at = "published"
    BY <1>2 DEF StepPublish, At
  <2> QED
    BY <2>1, ElsewhereAwake
<1>3. CASE StepClockAhead \/ StepWait \/ StepLegacy \/ StepFail(TRUE) \/ StepFail(FALSE)
  <2>1. work' = Top \/ (work' = Rest /\ wake' = (wake \/ TRUE))
    BY <1>3 DEF StepClockAhead, StepWait, StepLegacy, StepFail, HandOver, EndPass
  <2>2. Top.at = "top" /\ Rest.at = "rest"
    BY DEF Top, Rest, At
  <2>3. CASE work' = Top
    BY <2>2, <2>3, ElsewhereAwake
  <2>4. CASE work' = Rest /\ wake' = (wake \/ TRUE)
    <3>1. work'.at = "rest" /\ wake' = TRUE
      BY <2>2, <2>4
    <3> QED
      BY <3>1, ElsewhereAwake
  <2> QED
    BY <2>1, <2>3, <2>4
<1> QED
  BY <1>1, <1>2, <1>3

\* Starting a pass, executing, stopping and restarting.
LEMMA ExecuteAwake ==
    ASSUME StartPass \/ FinishPublished \/ CanonicalWait \/ CanonicalPublish \/ InPlaceBegin
           \/ InPlaceCommit \/ InPlaceFinish \/ FinishLegacy \/ Crash \/ Recover
    PROVE  Awake'
<1>1. CASE CanonicalWait
  <2>1. work' = Rest /\ wake' = (wake \/ TRUE)
    BY <1>1 DEF CanonicalWait, EndPass
  <2>2. work'.at = "rest" /\ wake' = TRUE
    BY <2>1 DEF Rest, At
  <2> QED
    BY <2>2, ElsewhereAwake
<1>2. CASE StartPass \/ FinishPublished \/ FinishLegacy \/ Recover
  <2>1. work'.at = "top"
    BY <1>2 DEF StartPass, FinishPublished, FinishLegacy, Recover, Top, At
  <2> QED
    BY <2>1, ElsewhereAwake
<1>3. CASE CanonicalPublish \/ InPlaceBegin \/ InPlaceCommit \/ InPlaceFinish \/ Crash
  <2>1. work'.at \notin {"missing", "rest"}
    BY <1>3 DEF CanonicalPublish, InPlaceBegin, InPlaceCommit, InPlaceFinish, Crash, At
  <2> QED
    BY <2>1, ElsewhereAwake
<1> QED
  BY <1>1, <1>2, <1>3

\* Consensus, the poller and gossip.
LEMMA OutsideAwake ==
    ASSUME IInv, Awake, Consensus \/ Sync, [Next]_vars PROVE Awake'
<1>1. certs \subseteq certs'
  BY NextCerts DEF CertsMove
<1>2. CASE Activate
  <2>1. wake' = TRUE /\ active' = TRUE
    BY <1>2 DEF Activate
  <2> QED
    BY <2>1 DEF Awake
<1>3. ASSUME Consensus, ~Activate PROVE Awake'
  <2>1. UNCHANGED <<work, active, applied, rejected>> /\ (wake' = TRUE \/ UNCHANGED <<wake, taken>>)
    BY <1>3 DEF Consensus, Notarize, FinalizeAdmitted, FinalizeCanonical, Offer, durable,
                execution, memory, pipeline, history
  <2> QED
    BY <1>1, <2>1, OthersAwake
<1>4. CASE Sync
  <2>1. /\ UNCHANGED <<work, active, applied, rejected>>
        /\ wake' = TRUE \/ ~active \/ UNCHANGED <<wake, taken>>
    BY <1>4 DEF Sync, SyncChain, GossipFrame, TakeSynced, StoreSynced, execution, pipeline
  <2> QED
    BY <1>1, <2>1, OthersAwake
<1> QED
  BY <1>2, <1>3, <1>4

\* The worker stays awake in every step.
LEMMA NextAwake ==
    ASSUME IInv, DurablyHeld, Awake, [Next]_vars PROVE Awake'
<1>1. CASE UNCHANGED vars
  BY <1>1, OthersAwake
     DEF vars, durable, candidates, execution, memory, pipeline, history
<1> QED
  BY <1>1, LookAwake, ChooseAwake, StepAwake, ExecuteAwake, OutsideAwake DEF Next, Worker

-----------------------------------------------------------------------------
(* Theorems about what waits                                               *)

\* The initial state.
LEMMA InitHInv == Init => HInv
<1> SUFFICES ASSUME Init PROVE HInv
  OBVIOUS
<1>1. DOMAIN queued = {}
  BY DEF Init
<1>2. TailBounded
  BY <1>1, FS_EmptySet, FinalizationAssumption DEF Init, TailBounded
<1> QED
  BY <1>2 DEF Init, HInv, ImpliedOnChain, RejectedForCause, DurablyHeld, Awake, Top, At

\* What waits stays bounded, what was handed over stays held, and the worker is
\* awake for it.
THEOREM HeldInvariance == Spec => []HInv
<1>1. IInv /\ IInv' /\ HInv /\ [Next]_vars => HInv'
  BY TailKept, NextImplied, NextRejected, NextHeld, NextAwake DEF HInv
<1> QED
  BY <1>1, InitHInv, Invariance, PTL DEF Spec

\* A stalled worker bounds what waits: certified candidates stay within the
\* window above the canonical head, and the queue within its capacity.
THEOREM TailSafe == Spec => []TailBounded
<1>1. HInv => TailBounded
  BY DEF HInv
<1> QED
  BY <1>1, HeldInvariance, PTL

\* A finalized frame handed over, and the finalization proposals wait for, is
\* executed, canonical, queued or restorable from the candidate store.
THEOREM HeldSafe == Spec => []FinalizationHeld
<1>1. IInv /\ HInv => FinalizationHeld
  <2> SUFFICES ASSUME IInv, HInv, ~StoreFails
               PROVE  /\ \A f \in taken : Held(f)
                      /\ noted > Cursor => Held(Main(noted))
    BY DEF FinalizationHeld
  <2>1. \A f \in taken : Held(f)
    BY DEF HInv, DurablyHeld, Held
  <2>2. noted > Cursor => noted # 0
    BY CursorFacts DEF IInv
  <2> QED
    BY <2>1, <2>2 DEF HInv, DurablyHeld, Held
<1> QED
  BY <1>1, Invariance, HeldInvariance, PTL

\* The worker never rests without a signal while a frame handed over is next,
\* unless that frame, or one above it that was to finalize it, failed
\* authentication.
THEOREM WakeupSafe == Spec => []NoLostWakeup
<1>1. HInv => NoLostWakeup
  BY DEF HInv, Awake, RejectedForCause, NoLostWakeup
<1> QED
  BY <1>1, HeldInvariance, PTL

\* A frame the verifier refuses becomes canonical only where the pipeline does
\* not admit it.
THEOREM RefusedSafe == Spec => RefusedNotAdmitted
<1>1. IInv /\ HInv /\ [Next]_vars =>
        [\A h \in Height : canon'[h] # canon[h] /\ canon'[h] \in Refused => ~Admits(h)]_vars
  BY NextWrites DEF HInv, ClockWrites
<1> QED
  BY <1>1, Invariance, HeldInvariance, PTL DEF Spec, RefusedNotAdmitted
=============================================================================
