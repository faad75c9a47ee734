---------------------- MODULE UnheldFinalizationsProofs ---------------------
(***************************************************************************)
(* Proofs about UnheldFinalizations for every number of callers, views,    *)
(* entries kept and frames admitted, and whatever bytes peers send.        *)
(*                                                                         *)
(* An entry ends in the second critical section of a call, for a body the  *)
(* call read in the first and handed over between the two, while the       *)
(* worker and the other caller go on.  The invariant therefore says of a   *)
(* call in progress what remains true of the bodies it handed over         *)
(* (DoneHeld) and of the finalizations it asked about (CallsKnow).         *)
(***************************************************************************)
EXTENDS UnheldFinalizations, FiniteSetTheorems, WellFoundedInduction, TLAPS

Calls ==
    [at : {"idle", "bodies", "sequenced", "executing"}, parent : 0 .. MaxView,
     known : SUBSET Views, now : SUBSET Views,
     work : SUBSET (Views \X Bytes), taken : SUBSET Views,
     spurned : SUBSET (Views \X Bytes)]

\* A report in progress is of a view, and calls are records of their kind.
Shapes ==
    /\ reading # NoReport => reading.view \in Views
    /\ call \in [Callers -> Calls]

\* The pipeline holds, or the archive has published, v.
Pipelined(v) == v <= published \/ v \in queued \/ v \in canonical

\* A body taken stays in the pipeline until its frame publishes.
DoneHeld ==
    \A c \in Callers : \A v \in call[c].taken : Pipelined(v)

\* A queued frame was noted to the executor.
QueuedNoted == \A v \in queued : v <= finalized

\* A call asks about finalizations at or below its parent, and the patience it
\* read as ended has ended.  Past the first wait, each of them has published,
\* is excused, or is noted to the executor.
CallsKnow ==
    \A c \in Callers :
        /\ \A v \in call[c].known : v <= call[c].parent
        /\ call[c].now \subseteq expired
        /\ call[c].at = "sequenced" =>
              \A v \in call[c].known :
                  \/ v <= published \/ v \in expired \/ v \in givenUp \/ v \in canonical
                  \/ v <= finalized

IInv ==
    /\ EntriesInv
    /\ Shapes
    /\ DoneHeld
    /\ QueuedNoted
    /\ CallsKnow
    /\ NoPrivateExecution

-----------------------------------------------------------------------------
(* Lemmas                                                                  *)

\* A non-empty set of naturals has its minimum.
LEMMA MinOfNaturals ==
    ASSUME NEW S \in SUBSET Nat, S # {}
    PROVE  Min(S) \in S
<1> DEFINE T == {0 .. x : x \in S}
           R == StrictSubsetOrdering(Nat)
<1>1. T \subseteq FiniteSubsetsOf(Nat) /\ T # {}
  <2>1. \A x \in S : IsFiniteSet(0 .. x) /\ 0 .. x \in SUBSET Nat
    BY FS_Interval
  <2> QED
    BY <2>1 DEF FiniteSubsetsOf
<1>2. IsWellFoundedOn(R, FiniteSubsetsOf(Nat))
  BY FS_StrictSubsetOrderingWellFounded
<1>3. PICK I \in T : \A J \in T : <<J, I>> \notin R
  <2> HIDE DEF T, R
  <2> QED
    BY <1>1, <1>2, WFMin
<1>4. PICK x \in S : I = 0 .. x
  OBVIOUS
<1>5. \A y \in S : x <= y
  <2> SUFFICES ASSUME NEW y \in S, y < x PROVE FALSE
    OBVIOUS
  <2>1. 0 .. y \subseteq 0 .. x /\ 0 .. y # 0 .. x
    OBVIOUS
  <2>2. <<0 .. y, 0 .. x>> \in R
    BY <2>1 DEF StrictSubsetOrdering
  <2> QED
    BY <1>3, <1>4, <2>2
<1> QED
  BY <1>5 DEF Min

\* An idle call knows and does nothing.
LEMMA IdleFacts ==
    /\ Idle \in Calls
    /\ Idle.at = "idle" /\ Idle.known = {} /\ Idle.now = {} /\ Idle.work = {}
    /\ Idle.taken = {} /\ Idle.spurned = {} /\ Idle.parent = 0
  BY UnheldAssumption DEF Idle, Calls

\* Views are natural numbers.
LEMMA NaturalViews == \A v \in Views : v \in Nat /\ 1 <= v /\ v <= MaxView
  BY UnheldAssumption DEF Views

\* A body the finalizer takes enters the pipeline, and what was there stays.
LEMMA TakeKeeps ==
    ASSUME TypeOK, QueuedNoted, NEW v \in Views, Take(v)
    PROVE  /\ v <= published \/ v \in queued' \/ v \in canonical'
           /\ queued \subseteq queued' /\ canonical \subseteq canonical' /\ finalized <= finalized'
           /\ queued' \subseteq queued \cup {v} /\ canonical' \subseteq canonical \cup {v}
           /\ finalized' \in 0 .. MaxView
           /\ \A u \in queued' : u <= finalized'
<1>1. /\ v \in 0 .. MaxView /\ v \in Nat /\ published \in Nat
      /\ finalized \in Nat /\ finalized \in 0 .. MaxView
      /\ \A u \in queued : u \in Nat
  BY NaturalViews, UnheldAssumption DEF TypeOK
<1>2. CASE admits(v)
  <2>1. /\ queued' = queued \cup {v}
        /\ finalized' = IF v > finalized THEN v ELSE finalized
        /\ canonical' = canonical
    BY <1>2 DEF Take
  <2>2. finalized <= finalized' /\ v <= finalized' /\ finalized' \in 0 .. MaxView
    BY <1>1, <2>1
  <2>3. \A u \in queued : u <= finalized'
    BY <1>1, <2>1, <2>2 DEF QueuedNoted
  <2> QED
    BY <2>1, <2>2, <2>3
<1>3. CASE ~ admits(v)
  <2>1. /\ queued' = queued /\ finalized' = finalized
        /\ canonical' = IF v > published THEN canonical \cup {v} ELSE canonical
    BY <1>3 DEF Take
  <2>2. v <= published \/ v \in canonical'
    BY <1>1, <2>1
  <2> QED
    BY <1>1, <2>1, <2>2 DEF QueuedNoted
<1> QED
  BY <1>2, <1>3

\* Steps that only let the pipeline, the reports and the excuses grow.
Grows ==
    /\ reported \subseteq reported' /\ expired \subseteq expired' /\ givenUp \subseteq givenUp'
    /\ canonical \subseteq canonical' /\ published <= published' /\ finalized <= finalized'
    /\ \A v \in queued : v \in queued' \/ v <= published'

\* The invariant, as what it says of the archive ...
ArchiveHolds ==
    /\ body \in [Views -> Store] /\ refused \in [Views -> Store]
    /\ reading \in [view : 0 .. MaxView, bytes : Store]
    /\ reading # NoReport => reading.view \in Views
    /\ reported \subseteq Views /\ entries \subseteq reported /\ expired \subseteq reported
    /\ queued \subseteq reported /\ canonical \subseteq reported /\ givenUp \subseteq reported
    /\ finalized \in 0 .. MaxView /\ published \in 0 .. MaxView
    /\ NothingForgotten
    /\ QueuedNoted
    /\ call \in [Callers -> Calls]

\* ... and of a call.
CallHolds(c) ==
    /\ call[c].at \in {"idle", "bodies", "sequenced", "executing"}
    /\ call[c].known \cup call[c].now \subseteq reported
    /\ call[c].work \cup call[c].spurned \subseteq reported \X Bytes
    /\ call[c].taken \subseteq reported
    /\ \A v \in call[c].taken : Pipelined(v)
    /\ \A v \in call[c].known : v <= call[c].parent
    /\ call[c].now \subseteq expired
    /\ call[c].at = "sequenced" =>
          \A v \in call[c].known :
              \/ v <= published \/ v \in expired \/ v \in givenUp \/ v \in canonical
              \/ v <= finalized
    /\ call[c].at = "executing" =>
          \A v \in call[c].known :
              v <= published \/ v \in expired \/ v \in givenUp \/ v \in canonical

\* The invariant, by what it is about: the archive, and every call.
LEMMA InvariantSplits == IInv <=> ArchiveHolds /\ \A c \in Callers : CallHolds(c)
  BY DEF IInv, EntriesInv, TypeOK, Shapes, DoneHeld, CallsKnow, NoPrivateExecution,
         ArchiveHolds, CallHolds

\* Put together again after a step.
LEMMA InvariantJoins == ASSUME ArchiveHolds', \A c \in Callers : CallHolds(c)' PROVE IInv'
  BY DEF IInv, EntriesInv, TypeOK, Shapes, DoneHeld, CallsKnow, NoPrivateExecution,
         ArchiveHolds, CallHolds

\* A call's part holds while the rest only grows.
LEMMA CallsStay ==
    ASSUME IInv, Grows, published' \in Nat, finalized' \in Nat, NEW c \in Callers,
           call'[c] = call[c]
    PROVE  CallHolds(c)'
<1> published \in Nat /\ finalized \in Nat /\ \A v \in reported : v \in Nat
  BY NaturalViews, UnheldAssumption DEF IInv, EntriesInv, TypeOK
<1> call[c].known \subseteq reported /\ call[c].taken \subseteq reported
  BY DEF IInv, EntriesInv, TypeOK
<1>1. \A v \in call[c].taken : Pipelined(v)'
  <2> SUFFICES ASSUME NEW v \in call[c].taken PROVE Pipelined(v)'
    OBVIOUS
  <2>1. Pipelined(v) /\ v \in Nat
    BY DEF IInv, DoneHeld
  <2> QED
    BY <2>1 DEF Pipelined, Grows
<1>2. /\ \A v \in call[c].known : v <= call[c].parent
      /\ call[c].now \subseteq expired'
  BY DEF IInv, CallsKnow, Grows
<1>3. call[c].at = "sequenced" =>
         \A v \in call[c].known :
             \/ v <= published' \/ v \in expired' \/ v \in givenUp' \/ v \in canonical'
             \/ v <= finalized'
  BY DEF IInv, CallsKnow, Grows
<1>4. call[c].at = "executing" =>
         \A v \in call[c].known :
             v <= published' \/ v \in expired' \/ v \in givenUp' \/ v \in canonical'
  BY DEF IInv, NoPrivateExecution, Grows
<1>5. /\ call[c].at \in {"idle", "bodies", "sequenced", "executing"}
      /\ call[c].known \cup call[c].now \subseteq reported'
      /\ call[c].work \cup call[c].spurned \subseteq reported' \X Bytes
      /\ call[c].taken \subseteq reported'
  BY DEF IInv, EntriesInv, TypeOK, Grows
<1> QED
  BY <1>1, <1>2, <1>3, <1>4, <1>5 DEF CallHolds

\* Types as the steps need them.
LEMMA Numbers ==
    ASSUME ArchiveHolds
    PROVE  /\ published \in Nat /\ finalized \in Nat /\ MaxView \in Nat
           /\ \A v \in reported : v \in Nat /\ v \in 0 .. MaxView
  BY NaturalViews, UnheldAssumption DEF ArchiveHolds

-----------------------------------------------------------------------------
(* The archive's steps                                                     *)

\* Steps that leave the calls alone: the archive's part is enough.
LEMMA ArchiveStep ==
    ASSUME IInv, ArchiveHolds', Grows, UNCHANGED call
    PROVE  IInv'
<1>1. published' \in Nat /\ finalized' \in Nat
  BY UnheldAssumption DEF ArchiveHolds
<1>2. \A c \in Callers : CallHolds(c)'
  BY <1>1, CallsStay
<1> QED
  BY <1>2, InvariantJoins

\* A body sent by a peer keeps the invariant.
LEMMA BodyArrivesIInv ==
    ASSUME IInv, NEW v \in Views, NEW b \in Sent[v], BodyArrives(v, b) PROVE IInv'
<1>1. ArchiveHolds /\ published \in Nat /\ finalized \in Nat
  BY InvariantSplits, Numbers
<1>2. b \in Store
  BY UnheldAssumption DEF Store
<1>3. ArchiveHolds'
  BY <1>1, <1>2 DEF ArchiveHolds, BodyArrives, NothingForgotten, QueuedNoted
<1>4. Grows
  BY <1>1 DEF Grows, BodyArrives
<1> QED
  BY <1>3, <1>4, ArchiveStep DEF BodyArrives

\* Reading a body keeps it.
LEMMA ReadBodyIInv ==
    ASSUME IInv, NEW v \in Views, ReadBody(v) PROVE IInv'
<1>1. ArchiveHolds /\ published \in Nat /\ finalized \in Nat
  BY InvariantSplits, Numbers
<1>2. v \in 0 .. MaxView /\ body[v] \in Store
  BY <1>1, NaturalViews, UnheldAssumption DEF ArchiveHolds
<1>3. ArchiveHolds'
  BY <1>1, <1>2 DEF ArchiveHolds, ReadBody, NothingForgotten, QueuedNoted
<1>4. Grows
  BY <1>1 DEF Grows, ReadBody
<1> QED
  BY <1>3, <1>4, ArchiveStep DEF ReadBody

\* Running out of patience keeps it.
LEMMA PatienceEndsIInv ==
    ASSUME IInv, NEW v \in Views, PatienceEnds(v) PROVE IInv'
<1>1. ArchiveHolds /\ published \in Nat /\ finalized \in Nat
  BY InvariantSplits, Numbers
<1>2. ArchiveHolds'
  BY <1>1 DEF ArchiveHolds, PatienceEnds, NothingForgotten, QueuedNoted
<1>3. Grows
  BY <1>1 DEF Grows, PatienceEnds
<1> QED
  BY <1>2, <1>3, ArchiveStep DEF PatienceEnds

\* The frame published leaves the queue, and was next.
LEMMA PublishIInv ==
    ASSUME IInv, Publish PROVE IInv'
<1>1. ArchiveHolds /\ published \in Nat /\ finalized \in Nat /\ MaxView \in Nat
  BY InvariantSplits, Numbers
<1>2. PICK v \in reported : published < v
  BY DEF Publish
<1>3. v \in 0 .. MaxView /\ \A u \in reported : u \in Nat
  BY <1>1, Numbers
<1>4. published' = published + 1 /\ published' \in 0 .. MaxView
  BY <1>1, <1>2, <1>3 DEF Publish
<1>5. queued' = queued \ {published + 1}
  BY DEF Publish
<1>6. NothingForgotten'
  BY <1>1, <1>3, <1>4, <1>5 DEF NothingForgotten, ArchiveHolds, Publish
<1>7. ArchiveHolds'
  BY <1>1, <1>4, <1>5, <1>6 DEF ArchiveHolds, Publish, QueuedNoted
<1>8. Grows
  BY <1>1, <1>4, <1>5 DEF Grows, Publish
<1> QED
  BY <1>7, <1>8, ArchiveStep DEF Publish

\* A report becomes an entry, a queued or canonical frame, or is given up.
LEMMA OnFinalizedIInv ==
    ASSUME IInv, OnFinalized PROVE IInv'
<1> DEFINE v == reading.view
<1>1. ArchiveHolds /\ published \in Nat /\ finalized \in Nat
  BY InvariantSplits, Numbers
<1>2. v \in Views
  BY <1>1 DEF ArchiveHolds, OnFinalized
<1>3. /\ reported' = reported \cup {v} /\ reading' = NoReport
      /\ UNCHANGED <<body, refused, expired, published, call>>
  BY DEF OnFinalized
<1>4. NoReport \in [view : 0 .. MaxView, bytes : Store]
  BY UnheldAssumption DEF NoReport, Store
<1>5. CASE reading.bytes = "none" /\ Note(v)
  <2> DEFINE all == entries \cup {v}
             over == IF Cardinality(all) > Kept THEN {Min(all)} ELSE {}
  <2>1. all \subseteq reported' /\ all \in SUBSET Nat /\ all # {}
    BY <1>1, <1>2, <1>3, NaturalViews DEF ArchiveHolds
  <2>2. over \subseteq all
    BY <2>1, MinOfNaturals
  <2>3. /\ entries' = all \ over /\ givenUp' = givenUp \cup over
        /\ UNCHANGED <<queued, finalized, canonical>>
    BY <1>5 DEF Note
  <2> HIDE DEF all, over
  <2>4. entries \cup {v} = all
    BY DEF all
  <2>5. NothingForgotten'
    BY <1>1, <1>3, <2>2, <2>3, <2>4 DEF NothingForgotten, ArchiveHolds
  <2>6. ArchiveHolds'
    BY <1>1, <1>2, <1>3, <1>4, <2>1, <2>2, <2>3, <2>5 DEF ArchiveHolds, QueuedNoted
  <2>7. Grows
    BY <1>1, <1>3, <2>3 DEF Grows
  <2> QED
    BY <1>3, <2>6, <2>7, ArchiveStep
<1>6. CASE Take(v) /\ UNCHANGED <<entries, givenUp>>
  <2>1. /\ v <= published \/ v \in queued' \/ v \in canonical'
        /\ queued \subseteq queued' /\ canonical \subseteq canonical' /\ finalized <= finalized'
        /\ queued' \subseteq queued \cup {v} /\ canonical' \subseteq canonical \cup {v}
        /\ finalized' \in 0 .. MaxView
        /\ \A u \in queued' : u <= finalized'
    BY <1>2, <1>6, TakeKeeps DEF IInv, EntriesInv
  <2>2. NothingForgotten'
    BY <1>1, <1>3, <1>6, <2>1 DEF NothingForgotten, ArchiveHolds
  <2>3. ArchiveHolds'
    BY <1>1, <1>2, <1>3, <1>4, <1>6, <2>1, <2>2 DEF ArchiveHolds, QueuedNoted
  <2>4. Grows
    BY <1>1, <1>3, <1>6, <2>1 DEF Grows
  <2> QED
    BY <1>3, <2>3, <2>4, ArchiveStep
<1>7. CASE /\ givenUp' = givenUp \cup {v}
           /\ UNCHANGED <<entries, queued, finalized, canonical>>
  <2>1. NothingForgotten'
    BY <1>1, <1>3, <1>7 DEF NothingForgotten, ArchiveHolds
  <2>2. ArchiveHolds'
    BY <1>1, <1>2, <1>3, <1>4, <1>7, <2>1 DEF ArchiveHolds, QueuedNoted
  <2>3. Grows
    BY <1>1, <1>3, <1>7 DEF Grows
  <2> QED
    BY <1>3, <2>2, <2>3, ArchiveStep
<1> QED
  BY <1>5, <1>6, <1>7 DEF OnFinalized

-----------------------------------------------------------------------------
(* The callers' steps                                                      *)

\* Steps of one call.
LEMMA CallStep ==
    ASSUME IInv, ArchiveHolds', Grows, NEW c \in Callers, CallHolds(c)',
           \A d \in Callers \ {c} : call'[d] = call[d]
    PROVE  IInv'
<1>1. published' \in Nat /\ finalized' \in Nat
  BY UnheldAssumption DEF ArchiveHolds
<1>2. \A d \in Callers : CallHolds(d)'
  BY <1>1, CallsStay
<1> QED
  BY <1>2, InvariantJoins

\* With no entry left, each report has published, is held or is excused.
LEMMA BeginIInv ==
    ASSUME IInv, NEW c \in Callers, NEW p \in Views, Begin(c, p) PROVE IInv'
<1> DEFINE left == published_through(entries)
           free == [Idle EXCEPT !.at = "sequenced", !.parent = p, !.known = reported]
           asking == [at |-> "bodies", parent |-> p, known |-> reported, now |-> expired,
                      work |-> arrived(p, left), taken |-> {}, spurned |-> {}]
<1>1. ArchiveHolds /\ published \in Nat /\ finalized \in Nat /\ \A v \in reported : v \in Nat
  BY InvariantSplits, Numbers
<1>2. /\ entries' = left
      /\ call' = [call EXCEPT ![c] = IF entries = {} THEN free ELSE asking]
      /\ \A v \in reported : v <= p
      /\ UNCHANGED <<body, reading, reported, refused, expired, queued, finalized, canonical,
                     published, givenUp>>
  BY DEF Begin
<1>3. left \subseteq entries /\ \A v \in entries : v \in left \/ v <= published
  BY <1>1 DEF published_through, ArchiveHolds
<1>4. arrived(p, left) \subseteq reported \X Bytes
  BY <1>1, <1>3 DEF arrived, ArchiveHolds, Store
<1>5. p \in 0 .. MaxView /\ reported \subseteq Views /\ expired \subseteq reported
  BY <1>1, NaturalViews, UnheldAssumption DEF ArchiveHolds
<1>6. /\ free.at = "sequenced" /\ free.parent = p /\ free.known = reported /\ free.now = {}
      /\ free.work = {} /\ free.taken = {} /\ free.spurned = {} /\ free \in Calls
  BY <1>5 DEF Idle, Calls
<1>7. asking \in Calls
  BY <1>4, <1>5 DEF Calls
<1> HIDE DEF free, left
<1>8. ArchiveHolds'
  <2>1. NothingForgotten'
    BY <1>1, <1>2, <1>3 DEF NothingForgotten, ArchiveHolds
  <2>2. call' \in [Callers -> Calls]
    BY <1>1, <1>2, <1>6, <1>7 DEF ArchiveHolds
  <2> QED
    BY <1>1, <1>2, <1>3, <2>1, <2>2 DEF ArchiveHolds, QueuedNoted
<1>9. ASSUME entries = {} PROVE CallHolds(c)'
  <2>1. call'[c] = free
    BY <1>1, <1>2, <1>9 DEF ArchiveHolds
  <2>2. \A v \in reported : \/ v <= published \/ v \in givenUp \/ v \in canonical
                            \/ v <= finalized
    BY <1>1, <1>9 DEF NothingForgotten, QueuedNoted, ArchiveHolds
  <2> QED
    BY <1>2, <1>6, <2>1, <2>2 DEF CallHolds
<1>10. ASSUME entries # {} PROVE CallHolds(c)'
  <2>1. call'[c] = asking
    BY <1>1, <1>2, <1>10 DEF ArchiveHolds
  <2>2. /\ call'[c].at = "bodies" /\ call'[c].parent = p /\ call'[c].known = reported
        /\ call'[c].now = expired /\ call'[c].work = arrived(p, left)
        /\ call'[c].taken = {} /\ call'[c].spurned = {}
    BY <2>1
  <2> QED
    BY <1>2, <1>4, <1>5, <2>2 DEF CallHolds
<1>11. Grows
  BY <1>1, <1>2 DEF Grows
<1> QED
  BY <1>1, <1>2, <1>8, <1>9, <1>10, <1>11, CallStep DEF ArchiveHolds

\* A body handed over is in the pipeline, if it is taken.
LEMMA HandOverIInv ==
    ASSUME IInv, NEW c \in Callers, HandOver(c) PROVE IInv'
<1>1. /\ ArchiveHolds /\ CallHolds(c)
      /\ published \in Nat /\ finalized \in Nat /\ \A v \in reported : v \in Nat
  BY InvariantSplits, Numbers
<1>2. PICK w \in call[c].work :
         \/ /\ Take(w[1])
            /\ call' = [call EXCEPT ![c].work = @ \ {w}, ![c].taken = @ \cup {w[1]}]
         \/ /\ call' = [call EXCEPT ![c].work = @ \ {w}, ![c].spurned = @ \cup {w}]
            /\ UNCHANGED <<queued, finalized, canonical>>
  BY DEF HandOver
<1>3. /\ w \in reported \X Bytes /\ w[1] \in Views /\ w[1] \in reported
      /\ call[c] \in Calls /\ call[c].at = "bodies"
      /\ UNCHANGED <<body, reading, reported, entries, refused, expired, published, givenUp>>
  BY <1>1 DEF CallHolds, ArchiveHolds, HandOver
<1>4. /\ queued \subseteq queued' /\ canonical \subseteq canonical' /\ finalized <= finalized'
      /\ queued' \subseteq queued \cup {w[1]} /\ canonical' \subseteq canonical \cup {w[1]}
      /\ finalized' \in 0 .. MaxView
      /\ \A u \in queued' : u <= finalized'
      /\ Take(w[1]) => Pipelined(w[1])'
  <2>1. CASE Take(w[1])
    BY <1>2, <1>3, <2>1, TakeKeeps DEF IInv, EntriesInv, Pipelined
  <2>2. CASE ~ Take(w[1])
    BY <1>1, <1>2, <2>2 DEF ArchiveHolds, QueuedNoted
  <2> QED
    BY <2>1, <2>2
<1>5. Grows
  BY <1>1, <1>3, <1>4 DEF Grows
<1>6. /\ \A d \in Callers \ {c} : call'[d] = call[d]
      /\ \/ Take(w[1]) /\ call'[c] = [call[c] EXCEPT !.work = @ \ {w}, !.taken = @ \cup {w[1]}]
         \/ call'[c] = [call[c] EXCEPT !.work = @ \ {w}, !.spurned = @ \cup {w}]
  BY <1>1, <1>2 DEF ArchiveHolds
<1>7. /\ call'[c].at = "bodies" /\ call'[c].parent = call[c].parent
      /\ call'[c].known = call[c].known /\ call'[c].now = call[c].now
      /\ call'[c].work \subseteq call[c].work
      /\ call'[c].spurned \subseteq call[c].spurned \cup {w}
      /\ \A v \in call'[c].taken : v \in call[c].taken \/ (v = w[1] /\ Take(w[1]))
      /\ call'[c] \in Calls
  <2>1. CASE /\ Take(w[1])
             /\ call'[c] = [call[c] EXCEPT !.work = @ \ {w}, !.taken = @ \cup {w[1]}]
    <3>1. call'[c] = [at |-> "bodies", parent |-> call[c].parent, known |-> call[c].known,
                      now |-> call[c].now, work |-> call[c].work \ {w},
                      taken |-> call[c].taken \cup {w[1]}, spurned |-> call[c].spurned]
      BY <1>3, <2>1 DEF Calls
    <3> QED
      BY <1>3, <2>1, <3>1 DEF Calls
  <2>2. CASE call'[c] = [call[c] EXCEPT !.work = @ \ {w}, !.spurned = @ \cup {w}]
    <3>1. call'[c] = [at |-> "bodies", parent |-> call[c].parent, known |-> call[c].known,
                      now |-> call[c].now, work |-> call[c].work \ {w},
                      taken |-> call[c].taken, spurned |-> call[c].spurned \cup {w}]
      BY <1>3, <2>2 DEF Calls
    <3> QED
      BY <1>1, <1>3, <3>1 DEF Calls, ArchiveHolds
  <2> QED
    BY <1>6, <2>1, <2>2
<1>8. ArchiveHolds'
  <2>1. NothingForgotten'
    BY <1>1, <1>3, <1>4 DEF NothingForgotten, ArchiveHolds
  <2>2. call' \in [Callers -> Calls]
    BY <1>1, <1>2, <1>6, <1>7 DEF ArchiveHolds
  <2> QED
    BY <1>1, <1>3, <1>4, <2>1, <2>2 DEF ArchiveHolds, QueuedNoted
<1>9. CallHolds(c)'
  <2>1. \A v \in call[c].taken : Pipelined(v)'
    BY <1>1, <1>5, <1>3 DEF CallHolds, Pipelined, Grows
  <2> QED
    BY <1>1, <1>3, <1>4, <1>7, <2>1 DEF CallHolds
<1> QED
  BY <1>1, <1>2, <1>5, <1>8, <1>9, CallStep DEF ArchiveHolds

\* Only entries whose bodies were taken end, and a call that goes on
\* leaves no entry at or below its parent within patience.
LEMMA DecideIInv ==
    ASSUME IInv, NEW c \in Callers, Decide(c) PROVE IInv'
<1> DEFINE k == call[c]
           left == entries \ Taken(k)
           free == [Idle EXCEPT !.at = "sequenced", !.parent = k.parent, !.known = k.known]
<1>1. /\ ArchiveHolds /\ CallHolds(c) /\ k \in Calls
      /\ published \in Nat /\ finalized \in Nat /\ \A v \in reported : v \in Nat
  BY InvariantSplits, Numbers DEF ArchiveHolds
<1>2. /\ entries' = left
      /\ refused' = [v \in Views |->
            IF v \in left /\ \E b \in Bytes : <<v, b>> \in k.spurned
            THEN CHOOSE b \in Bytes : <<v, b>> \in k.spurned ELSE refused[v]]
      /\ call' = [call EXCEPT ![c] = IF decide(k.parent, left, k.now) # {} THEN Idle ELSE free]
      /\ UNCHANGED <<body, reading, reported, expired, queued, finalized, canonical, published,
                     givenUp>>
  BY DEF Decide
<1>3. \A v \in Taken(k) : Pipelined(v)
  BY <1>1 DEF Taken, CallHolds
<1>4. refused' \in [Views -> Store]
  BY <1>1, <1>2 DEF ArchiveHolds, Store, Bytes
<1>5. /\ free.at = "sequenced" /\ free.parent = k.parent /\ free.known = k.known
      /\ free.now = {} /\ free.work = {} /\ free.taken = {} /\ free.spurned = {} /\ free \in Calls
  BY <1>1 DEF Idle, Calls
<1>6. NothingForgotten'
  BY <1>1, <1>2, <1>3 DEF NothingForgotten, ArchiveHolds, Pipelined
<1> HIDE DEF free
<1>7. ArchiveHolds'
  <2>1. call' \in [Callers -> Calls]
    BY <1>1, <1>2, <1>5, IdleFacts DEF ArchiveHolds
  <2> QED
    BY <1>1, <1>2, <1>4, <1>6, <2>1 DEF ArchiveHolds, QueuedNoted
<1>8. ASSUME decide(k.parent, left, k.now) # {} PROVE CallHolds(c)'
  <2>1. call'[c] = Idle
    BY <1>1, <1>2, <1>8 DEF ArchiveHolds
  <2> QED
    BY <2>1, IdleFacts DEF CallHolds
<1>9. ASSUME decide(k.parent, left, k.now) = {} PROVE CallHolds(c)'
  <2>1. call'[c] = free
    BY <1>1, <1>2, <1>9 DEF ArchiveHolds
  <2>2. ASSUME NEW v \in k.known
        PROVE  v <= published \/ v \in expired \/ v \in givenUp \/ v \in canonical
               \/ v <= finalized
    <3>1. v \in reported /\ v <= k.parent /\ k.now \subseteq expired
      BY <1>1 DEF CallHolds
    <3>2. v \in left => v \in expired
      BY <1>9, <3>1 DEF decide
    <3> QED
      BY <1>1, <1>2, <1>6, <3>1, <3>2 DEF NothingForgotten, ArchiveHolds, QueuedNoted
  <2> QED
    BY <1>1, <1>2, <1>5, <2>1, <2>2 DEF CallHolds
<1>10. Grows
  BY <1>1, <1>2 DEF Grows
<1> QED
  BY <1>1, <1>2, <1>7, <1>8, <1>9, <1>10, CallStep DEF ArchiveHolds

\* Nothing noted waits to publish when the parent executes.
LEMMA ExecuteIInv ==
    ASSUME IInv, NEW c \in Callers, Execute(c) PROVE IInv'
<1> DEFINE k == call[c]
<1>1. /\ ArchiveHolds /\ CallHolds(c) /\ k \in Calls /\ k.parent \in Nat
      /\ published \in Nat /\ finalized \in Nat /\ \A v \in reported : v \in Nat
  BY InvariantSplits, Numbers, UnheldAssumption DEF ArchiveHolds, Calls
<1>2. /\ k.at = "sequenced"
      /\ call' = [call EXCEPT ![c] = IF sequenced_publication_wait(k.parent) THEN Idle
                                     ELSE [k EXCEPT !.at = "executing"]]
      /\ UNCHANGED <<body, reading, reported, entries, refused, expired, queued, finalized,
                     canonical, published, givenUp>>
  BY DEF Execute
<1>3. [k EXCEPT !.at = "executing"] \in Calls
  BY <1>1 DEF Calls
<1>4. ArchiveHolds'
  <2>1. call' \in [Callers -> Calls]
    BY <1>1, <1>2, <1>3, IdleFacts DEF ArchiveHolds
  <2> QED
    BY <1>1, <1>2, <2>1 DEF ArchiveHolds, QueuedNoted, NothingForgotten
<1>5. ASSUME sequenced_publication_wait(k.parent) PROVE CallHolds(c)'
  <2>1. call'[c] = Idle
    BY <1>1, <1>2, <1>5 DEF ArchiveHolds
  <2> QED
    BY <2>1, IdleFacts DEF CallHolds
<1>6. ASSUME ~ sequenced_publication_wait(k.parent) PROVE CallHolds(c)'
  <2>1. call'[c] = [k EXCEPT !.at = "executing"]
    BY <1>1, <1>2, <1>6 DEF ArchiveHolds
  <2>2. ASSUME NEW v \in k.known
        PROVE  v <= published \/ v \in expired \/ v \in givenUp \/ v \in canonical
    <3>1. v \in Nat /\ v <= k.parent
      BY <1>1 DEF CallHolds
    <3>2. v <= published \/ v \in expired \/ v \in givenUp \/ v \in canonical \/ v <= finalized
      BY <1>1, <1>2 DEF CallHolds
    <3> QED
      BY <1>1, <1>6, <3>1, <3>2 DEF sequenced_publication_wait
  <2>3. /\ call'[c].at = "executing" /\ call'[c].parent = k.parent /\ call'[c].known = k.known
        /\ call'[c].now = k.now /\ call'[c].work = k.work
        /\ call'[c].taken = k.taken /\ call'[c].spurned = k.spurned
    BY <1>1, <2>1 DEF Calls
  <2> QED
    BY <1>1, <1>2, <2>2, <2>3 DEF CallHolds, Pipelined
<1>7. Grows
  BY <1>1, <1>2 DEF Grows
<1> QED
  BY <1>1, <1>2, <1>4, <1>5, <1>6, <1>7, CallStep DEF ArchiveHolds

\* The return of a call keeps it.
LEMMA ReturnIInv ==
    ASSUME IInv, NEW c \in Callers, Return(c) PROVE IInv'
<1>1. ArchiveHolds /\ published \in Nat /\ finalized \in Nat
  BY InvariantSplits, Numbers
<1>2. call' \in [Callers -> Calls] /\ call'[c] = Idle
  BY <1>1, IdleFacts DEF ArchiveHolds, Return
<1>3. ArchiveHolds'
  BY <1>1, <1>2 DEF ArchiveHolds, Return, QueuedNoted, NothingForgotten
<1>4. CallHolds(c)'
  BY <1>2, IdleFacts DEF CallHolds
<1>5. Grows
  BY <1>1 DEF Grows, Return
<1> QED
  BY <1>3, <1>4, <1>5, CallStep DEF Return

-----------------------------------------------------------------------------
(* The theorems                                                            *)

\* The initial state.
LEMMA InitIInv == ASSUME Init PROVE IInv
<1>1. ArchiveHolds
  BY UnheldAssumption, IdleFacts
     DEF Init, ArchiveHolds, NoReport, Store, NothingForgotten, QueuedNoted
<1>2. \A c \in Callers : CallHolds(c)
  BY IdleFacts DEF Init, CallHolds
<1> QED
  BY <1>1, <1>2, InvariantSplits

\* Every step, and stuttering.
LEMMA NextIInv == ASSUME IInv, [Next]_vars PROVE IInv'
<1>1. CASE \E v \in Views : \E b \in Sent[v] : BodyArrives(v, b)
  BY <1>1, BodyArrivesIInv
<1>2. CASE Finalizer
  BY <1>2, ReadBodyIInv, OnFinalizedIInv DEF Finalizer
<1>3. CASE \E v \in Views : PatienceEnds(v)
  BY <1>3, PatienceEndsIInv
<1>4. CASE Publish
  BY <1>4, PublishIInv
<1>5. CASE \E c \in Callers : Caller(c) \/ \E p \in Views : Begin(c, p)
  BY <1>5, BeginIInv, HandOverIInv, DecideIInv, ExecuteIInv, ReturnIInv DEF Caller
<1>6. CASE UNCHANGED vars
  <2>1. ArchiveHolds /\ published \in Nat /\ finalized \in Nat
    BY InvariantSplits, Numbers
  <2>2. ArchiveHolds' /\ Grows
    BY <1>6, <2>1 DEF vars, ArchiveHolds, NothingForgotten, QueuedNoted, Grows
  <2> QED
    BY <1>6, <2>2, ArchiveStep DEF vars
<1> QED
  BY <1>1, <1>2, <1>3, <1>4, <1>5, <1>6 DEF Next

\* The invariant holds of every behavior of the archive's late-body protocol.
THEOREM Invariance == Spec => []IInv
<1>1. Init => IInv
  BY InitIInv
<1>2. IInv /\ [Next]_vars => IInv'
  BY NextIInv
<1> QED
  BY <1>1, <1>2, PTL DEF Spec

\* Entries are reported views, and a report is never lost between the two locks
\* of await_unheld, whatever bodies arrive, are replaced or are refused.
THEOREM EntriesSafe == Spec => []EntriesInv
<1>1. IInv => EntriesInv
  BY DEF IInv
<1> QED
  BY <1>1, Invariance, PTL

\* No proposal or vote executes a parent privately above a reported frame that
\* still has to publish, unless the code's own exceptions excuse it.
THEOREM PrivateExecutionSafe == Spec => []NoPrivateExecution
<1>1. IInv => NoPrivateExecution
  BY DEF IInv
<1> QED
  BY <1>1, Invariance, PTL

=============================================================================
