------------------------- MODULE GlobalFinalization -------------------------
(***************************************************************************)
(* Publication of consensus-finalized GLOBAL frames on one archive.        *)
(*                                                                         *)
(* The consensus finalizer (cw_global_seams.rs) and the archive poller     *)
(* (frame_sync.rs) store certified bodies as durable candidates and queue  *)
(* them (global_finalization.rs); a single worker (archive_sync.rs)        *)
(* publishes the frame above the executed cursor: clock record, state,     *)
(* receipt and cursor in one batch, or, when it cannot, through the        *)
(* canonical clock and the in-place materializer, which brackets the state *)
(* batch with a durable marker.  The process may stop between any two      *)
(* steps; a restart resolves the marker from the cursor.                   *)
(*                                                                         *)
(* A frame is a height and a branch.  "main" is the finalized chain; a     *)
(* "fork" frame was notarized or proposed in a view that was nullified, so *)
(* it may be a candidate but is never certified.  `applied' is the durable *)
(* execution state as the sequence of frames executed into it; the cursor  *)
(* rides its batch (commit_frame_with_global_cursor), so it is its length. *)
(***************************************************************************)
EXTENDS Integers, Sequences, FiniteSets, Functions

CONSTANTS
    MaxHeight,    \* bound: heights the finalized chain reaches
    ForkAt,       \* the height the abandoned branch leaves the chain at
    Direct,       \* heights whose frame gets a certificate of its own
    Refused,      \* frames whose header this node's verifier refuses
    MaxQueued,    \* GlobalFinalizationLimits::max_queued
    MaxAttempts,  \* GlobalFinalizationLimits::max_attempts
    MaxAhead,     \* GlobalFinalizationLimits::max_ahead
    StoreFails,   \* whether candidate and canonical writes may fail
    MaxCrashes    \* bound: times the process stops

Height == 1 .. MaxHeight
Main(h) == [number |-> h, branch |-> "main"]
Fork(h) == [number |-> h, branch |-> "fork"]
Frame == {Main(h) : h \in Height} \cup {Fork(h) : h \in {h \in Height : h >= ForkAt}}
None == [number |-> 0, branch |-> "none"]

ASSUME FinalizationAssumption ==
    /\ MaxHeight \in Nat /\ MaxCrashes \in Nat
    /\ ForkAt \in Nat \ {0}
    /\ Direct \subseteq Height
    /\ Refused \subseteq Frame
    /\ MaxQueued \in Nat \ {0}
    /\ MaxAttempts \in Nat \ {0}
    /\ MaxAhead \in Nat \ {0}
    /\ StoreFails \in BOOLEAN

VARIABLES
    (* durable *)
    canon,      \* canonical clock records, by height
    vouched,    \* heights whose canonical record carries its certificate
    cands,      \* candidate frames stored
    certs,      \* the candidates whose stored header carries a certificate
    applied,    \* frames executed into the state; the cursor is its length
    receipt,    \* the frame of the completed-execution receipt
    pending,    \* the frame of the unfinished-execution marker
    (* in memory *)
    queued,     \* certified frames waiting, by height
    episode,    \* failed atomic attempts at one height
    rejected,   \* frames that failed authentication
    noted,      \* highest finalization noted to the executor
    offering,   \* bodies a finalizer has stored and not yet queued
    active,     \* the pipeline is set: consensus has started
    wake,       \* the worker has a signal or a retry timer
    handed,     \* the height this pass handed to the in-place materializer
    work,       \* where the worker is
    (* bookkeeping *)
    announced,  \* frames announced to the network
    taken,      \* finalized frames handed over, with a signal to the worker
    crashes

clock == <<canon, vouched>>
candidates == <<cands, certs>>
execution == <<applied, receipt, pending>>
durable == <<clock, candidates, execution>>
pipeline == <<queued, episode, rejected, noted>>
memory == <<pipeline, offering, active, wake, handed, work>>
history == <<announced, taken, crashes>>
vars == <<durable, memory, history>>

-----------------------------------------------------------------------------
(* Chain structure                                                         *)

\* The ancestor of f at height n <= f.number.
Ancestor(f, n) ==
    IF f.branch = "main" \/ n < ForkAt THEN Main(n) ELSE Fork(n)

ParentOf(f) == IF f.number = 1 THEN None ELSE Ancestor(f, f.number - 1)

Cursor == Len(applied)
NextHeight == Cursor + 1

\* get_global_frame
Record(h) == IF h \in Height THEN canon[h] ELSE None

\* get_latest_global_clock_frame
Latest ==
    IF \A h \in Height : canon[h] = None THEN 0
    ELSE CHOOSE h \in Height : canon[h] # None /\ \A i \in Height : canon[i] # None => i <= h

NoEpisode == [frame |-> 0, counted |-> 0]

\* The executed frame publication extends.
Base == IF Cursor = 0 THEN None ELSE applied[Cursor]

-----------------------------------------------------------------------------
(* Candidates and the queue                                                *)

\* put_global_frame: the record at its height is replaced, certificate and all.
WriteClock(f, cert) ==
    /\ canon' = [canon EXCEPT ![f.number] = f]
    /\ vouched' = IF cert THEN vouched \cup {f.number} ELSE vouched \ {f.number}

\* Mutant: a certificate-less write replaces the certified header.
PutCandidateOverwrites(f, cert) ==
    /\ cands' = cands \cup {f}
    /\ certs' = IF cert THEN certs \cup {f} ELSE certs \ {f}

\* put_global_clock_frame_candidate: a write without a certificate keeps a
\* stored one.
PutCandidate(f, cert) ==
    /\ cands' = cands \cup {f}
    /\ certs' = IF cert THEN certs \cup {f} ELSE certs

\* Mutant: a frame far above the canonical head is admitted too.
AdmitsAnyAbove(number) == number > Latest

Admits(number) == number > Latest /\ number - Latest <= MaxAhead

Highest(q) == CHOOSE h \in DOMAIN q : \A i \in DOMAIN q : i <= h

\* Mutant: the frame is filed under the height above its own.
InsertAbove(q, f) ==
    [h \in DOMAIN q \cup {f.number + 1} |-> IF h = f.number + 1 THEN f ELSE q[h]]

\* The queue with f filed under its height.
Insert(q, f) == [h \in DOMAIN q \cup {f.number} |-> IF h = f.number THEN f ELSE q[h]]

\* offer: the queue after f is offered.  The first body at a height is kept;
\* a full queue keeps the lowest heights.
Offered(f) ==
    IF f.number \in DOMAIN queued THEN queued
    ELSE IF Cardinality(DOMAIN queued) < MaxQueued THEN Insert(queued, f)
    ELSE IF Highest(queued) > f.number
         THEN Insert(Restrict(queued, DOMAIN queued \ {Highest(queued)}), f)
    ELSE queued

\* note_finalized runs only where offer inserted the frame.
NotedAfter(f) ==
    IF f.number \in DOMAIN Offered(f) \ DOMAIN queued /\ f.number > noted
    THEN f.number ELSE noted

-----------------------------------------------------------------------------
(* Consensus, the poller and gossip                                        *)

\* Mutant: activation only stores the pipeline.
ActivateSilently ==
    /\ work.at # "down" /\ ~active
    /\ active' = TRUE
    /\ UNCHANGED <<durable, pipeline, offering, wake, handed, work, history>>

\* Consensus starts: the pipeline is set, and the worker is signalled to look
\* for certified candidates stored before a restart.
Activate ==
    /\ work.at # "down" /\ ~active
    /\ active' = TRUE
    /\ wake' = TRUE
    /\ UNCHANGED <<durable, pipeline, offering, handed, work, history>>

\* on_notarized, and a proposal or vote persisting an ancestor.
Notarize(f) ==
    /\ active
    /\ PutCandidate(f, FALSE)
    /\ UNCHANGED <<clock, execution, memory, history>>

\* finalize_body of an admitted body: the certified candidate is stored
\* (a failed write is only logged); queueing it is a later step of the task.
FinalizeAdmitted(h) ==
    /\ active /\ h \in Direct /\ Admits(h)
    /\ \/ PutCandidate(Main(h), TRUE)
       \/ StoreFails /\ UNCHANGED candidates
    /\ offering' = offering \cup {Main(h)}
    /\ UNCHANGED <<clock, execution, pipeline, active, wake, handed, work, history>>

\* The rest of the hand-over: queue the body, then signal the worker.
Offer(f) ==
    /\ f \in offering
    /\ offering' = offering \ {f}
    /\ queued' = Offered(f)
    /\ noted' = NotedAfter(f)
    /\ wake' = TRUE
    /\ taken' = taken \cup {f}
    /\ UNCHANGED <<durable, episode, rejected, active, handed, work, announced, crashes>>

\* finalize_body of a body that is not admitted: already canonical (a journal
\* replay), beyond the window or in a hole below the head.  It is written
\* canonically and announced unless the same frame is already there.
FinalizeCanonical(h) ==
    /\ active /\ h \in Direct /\ ~Admits(h)
    /\ IF canon[h] = Main(h) THEN UNCHANGED <<clock, announced>>
       ELSE /\ WriteClock(Main(h), TRUE)
            /\ announced' = announced \cup {Main(h)}
    /\ wake' = TRUE
    /\ taken' = taken \cup {Main(h)}
    /\ UNCHANGED <<candidates, execution, pipeline, offering, active, handed, work, crashes>>

\* The pipeline takes a chain lo..top fetched from a peer (offer_synced_chain,
\* offer_synced): its top is certified, all of it is admitted, and the
\* ancestors are kept as candidates.  The receiver validated every frame.
TakeSynced(lo, top) ==
    /\ active /\ lo <= top /\ top \in Direct
    /\ \A h \in lo .. top : Admits(h) /\ Main(h) \notin Refused
    /\ cands' = cands \cup {Main(h) : h \in lo .. top}
    /\ certs' = certs \cup {Main(top)}
    /\ queued' = Offered(Main(top))
    /\ noted' = NotedAfter(Main(top))
    /\ UNCHANGED <<clock, execution, episode, rejected, offering, active, handed, work,
                   announced, crashes>>

\* The pipeline declines the chain: not set yet, a frame of it not admitted, or
\* a failed candidate write.  It is stored canonically, lowest first, only the
\* top with a certificate; a failed write leaves a prefix.
StoreSynced(lo, top) ==
    /\ work.at # "down" /\ lo <= top /\ top \in Direct
    /\ \A h \in lo .. top : Main(h) \notin Refused
    /\ ~active \/ StoreFails \/ \E h \in lo .. top : ~Admits(h)
    /\ \E stored \in IF StoreFails THEN lo .. top ELSE {top} :
          /\ canon' = [h \in Height |-> IF h \in lo .. stored THEN Main(h) ELSE canon[h]]
          /\ vouched' = (vouched \ (lo .. stored)) \cup (IF stored = top THEN {top} ELSE {})
    /\ UNCHANGED <<candidates, execution, pipeline, offering, active, handed, work,
                   announced, crashes>>

\* store_chain of the archive poller signals the worker for every frame; a
\* signal before the worker runs is lost.
SyncChain(lo, top) ==
    /\ TakeSynced(lo, top) \/ StoreSynced(lo, top)
    /\ wake' \in IF active THEN {TRUE} ELSE {wake, TRUE}
    /\ taken' = taken \cup {Main(top)}

\* A certified frame received over gossip takes the same path without a signal.
GossipFrame(h) ==
    /\ TakeSynced(h, h) \/ StoreSynced(h, h)
    /\ UNCHANGED <<wake, taken>>

-----------------------------------------------------------------------------
(* The worker                                                              *)

At(place, frame, implied, attempts) ==
    [at |-> place, frame |-> frame, implied |-> implied, attempts |-> attempts]

Rest == At("rest", None, None, 0)
Top == At("top", None, None, 0)

\* A pass ends; `retry' when it set a timer.
EndPass(retry) ==
    /\ work' = Rest
    /\ wake' = (wake \/ retry)

\* A signal or the timer starts a pass.
StartPass ==
    /\ work.at = "rest" /\ wake
    /\ wake' = FALSE
    /\ handed' = 0
    /\ work' = Top
    /\ UNCHANGED <<durable, pipeline, offering, active, history>>

\* prune_through the cursor, then read the canonical record above it.
\* Outside a catch-up the frame gets MaxAttempts atomic attempts, else none.
Look ==
    /\ work.at = "top" /\ NextHeight \in Height
    /\ active \/ canon[NextHeight] # None
    /\ queued' = Restrict(queued, {h \in DOMAIN queued : h > Cursor})
    /\ rejected' = {f \in rejected : f.number > Cursor}
    /\ episode' = IF episode.frame <= Cursor THEN NoEpisode ELSE episode
    /\ \E attempts \in {0, MaxAttempts} :
          work' = IF canon[NextHeight] = None
                  THEN At("missing", None, None, attempts)
                  ELSE At("canonical", canon[NextHeight], None,
                          IF handed = NextHeight THEN 0 ELSE attempts)
    /\ UNCHANGED <<durable, noted, offering, active, wake, handed, history>>

\* Nothing above the bound, or no record and no pipeline yet.
LookIdle ==
    /\ work.at = "top"
    /\ NextHeight \notin Height \/ (Record(NextHeight) = None /\ ~active)
    /\ EndPass(FALSE)
    /\ UNCHANGED <<durable, pipeline, offering, active, handed, history>>

\* Mutant: a restored candidate needs no certificate.
DurableAnyCandidate(n) == {f \in cands : f.number = n /\ f \notin rejected}

\* load_durable: the certified candidate stored at n.
Durable(n) == {f \in certs : f.number = n /\ f \notin rejected}

\* implied: the lowest certified frame above n, queued or else durable.
Descendants(n) ==
    LET waiting == {h \in DOMAIN queued : h > n}
        stored == {f \in certs : f.number \in (n + 1) .. (n + MaxAhead) /\ f \notin rejected}
        above == IF waiting # {} THEN {queued[h] : h \in waiting} ELSE stored
    IN  {f \in above : \A g \in above : f.number <= g.number}

\* The candidates link d down to n.
Linked(d, n) == \A i \in n .. (d.number - 1) : Ancestor(d, i) \in cands

\* step_within picks the frame at the next height: queued, else restored from
\* the candidate store (and queued again), else an ancestor of a certified
\* descendant.  Nothing there ends the pass.
ChooseQueued ==
    /\ work.at = "missing" /\ NextHeight \in DOMAIN queued
    /\ work' = At("chosen", queued[NextHeight], None, work.attempts)
    /\ UNCHANGED <<durable, pipeline, offering, active, wake, handed, history>>

ChooseDurable ==
    /\ work.at = "missing" /\ NextHeight \notin DOMAIN queued
    /\ \E f \in Durable(NextHeight) :
          /\ queued' = Offered(f)
          /\ noted' = NotedAfter(f)
          /\ work' = At("chosen", f, None, work.attempts)
    /\ UNCHANGED <<durable, episode, rejected, offering, active, wake, handed, history>>

ChooseImplied ==
    /\ work.at = "missing"
    /\ NextHeight \notin DOMAIN queued /\ Durable(NextHeight) = {}
    /\ \E d \in Descendants(NextHeight) :
          /\ Linked(d, NextHeight)
          /\ work' = At("chosen", Ancestor(d, NextHeight), d, work.attempts)
    /\ UNCHANGED <<durable, pipeline, offering, active, wake, handed, history>>

ChooseNone ==
    /\ work.at = "missing"
    /\ NextHeight \notin DOMAIN queued /\ Durable(NextHeight) = {}
    /\ \A d \in Descendants(NextHeight) : ~Linked(d, NextHeight)
    /\ EndPass(FALSE)
    /\ UNCHANGED <<durable, pipeline, offering, active, handed, history>>

\* Mutant: an implied ancestor is authenticated by its descendant alone.
AuthenticTopOnly ==
    (IF work.implied = None THEN work.frame ELSE work.implied) \notin Refused

\* authenticate_finalization, or authenticate_implied over the whole chain.
Authentic ==
    IF work.implied = None THEN work.frame \notin Refused
    ELSE \A i \in NextHeight .. work.implied.number : Ancestor(work.implied, i) \notin Refused

\* write_canonical, then the worker's Legacy arm; a failed write is retried.
HandOver(ep) ==
    \/ /\ WriteClock(work.frame, work.implied = None)
       /\ handed' = IF work.attempts = 0 \/ ep.frame = NextHeight THEN NextHeight ELSE handed
       /\ work' = Top
       /\ UNCHANGED wake
    \/ /\ StoreFails
       /\ EndPass(TRUE)
       /\ UNCHANGED <<clock, handed>>

\* A canonical record above the cursor: no authentication, no attempt.
StepClockAhead ==
    /\ work.at = "chosen" /\ Latest >= NextHeight
    /\ HandOver(episode)
    /\ UNCHANGED <<candidates, execution, pipeline, offering, active, history>>

\* ingest_before waits for application frames, or another execution holds the
\* lease (Busy): nothing changed, try again on the timer.
StepWait ==
    /\ work.at = "chosen" /\ Latest < NextHeight
    /\ EndPass(TRUE)
    /\ UNCHANGED <<durable, pipeline, offering, active, handed, history>>

\* No attempts during a catch-up, and inputs over the private budget: an
\* authentic frame goes to the in-place materializer.
StepLegacy ==
    /\ work.at = "chosen" /\ Latest < NextHeight /\ Authentic
    /\ HandOver(episode)
    /\ UNCHANGED <<candidates, execution, pipeline, offering, active, history>>

StepReject ==
    /\ work.at = "chosen" /\ Latest < NextHeight /\ ~Authentic
    /\ rejected' = rejected \cup {work.frame}
    /\ queued' = Restrict(queued, DOMAIN queued \ {NextHeight})
    /\ episode' = NoEpisode
    /\ EndPass(FALSE)
    /\ UNCHANGED <<durable, noted, offering, active, handed, history>>

\* publish_finalization finds the base usable: no unfinished execution, the
\* canonical head executed, described by the receipt, authentic and carrying
\* a certificate of its own (executed_base), the frame its child.
Extends(f) ==
    /\ pending = None
    /\ Latest = Cursor
    /\ (Cursor > 0 =>
          /\ canon[Cursor] \notin Refused /\ Cursor \in vouched
          /\ (receipt # None => receipt = canon[Cursor]))
    /\ f.number = NextHeight
    /\ ParentOf(f) = Base

\* One batch: clock record, state, cursor and receipt.
StepPublish ==
    /\ work.at = "chosen" /\ work.attempts > 0 /\ Latest < NextHeight /\ Authentic
    /\ Extends(work.frame)
    /\ WriteClock(work.frame, work.implied = None)
    /\ applied' = Append(applied, work.frame)
    /\ receipt' = work.frame
    /\ work' = At("published", work.frame, None, 0)
    /\ UNCHANGED <<candidates, pending, pipeline, offering, active, wake, handed, history>>

\* finish the height, then announce.
FinishPublished ==
    /\ work.at = "published"
    /\ queued' = Restrict(queued, DOMAIN queued \ {work.frame.number})
    /\ episode' = NoEpisode
    /\ announced' = announced \cup {work.frame}
    /\ work' = Top
    /\ UNCHANGED <<durable, rejected, noted, offering, active, wake, handed, taken, crashes>>

\* Mutant: every failure starts a new episode.
EpisodeAfterRestarted(counts) ==
    [frame |-> NextHeight, counted |-> IF counts THEN 1 ELSE 0]

\* The episode at this height after one more failure.
EpisodeAfter(counts) ==
    LET before == IF episode.frame = NextHeight THEN episode.counted ELSE 0
    IN  [frame |-> NextHeight,
         counted |-> IF counts /\ before < MaxAttempts THEN before + 1 ELSE before]

\* A retryable failure (a capture or commit conflict, or a base that is not
\* the executed parent).  It counts unless the source was only busy; the last
\* counted one hands the frame over.
StepFail(counts) ==
    /\ work.at = "chosen" /\ work.attempts > 0 /\ Latest < NextHeight /\ Authentic
    /\ episode' = EpisodeAfter(counts)
    /\ IF counts /\ episode'.counted >= work.attempts THEN HandOver(episode')
       ELSE EndPass(TRUE) /\ UNCHANGED <<clock, handed>>
    /\ UNCHANGED <<candidates, execution, queued, rejected, noted, offering, active, history>>

\* The canonical record at the next height: its application frames are missing.
CanonicalWait ==
    /\ work.at = "canonical"
    /\ EndPass(TRUE)
    /\ UNCHANGED <<durable, pipeline, offering, active, handed, history>>

\* materialize_canonical_atomically: state, cursor and receipt in one batch,
\* only while the frame is still the canonical record.
CanonicalPublish ==
    /\ work.at = "canonical" /\ work.attempts > 0
    /\ pending = None
    /\ canon[NextHeight] = work.frame
    /\ (receipt # None => Cursor > 0 /\ receipt = canon[Cursor])
    /\ applied' = Append(applied, work.frame)
    /\ receipt' = work.frame
    /\ work' = At("executed", work.frame, None, 0)
    /\ UNCHANGED <<clock, candidates, pending, pipeline, offering, active, wake, handed,
                   history>>

\* materialize in place: the marker first (begin_execution_checkpoint), ...
InPlaceBegin ==
    /\ work.at = "canonical"
    /\ pending = None /\ work.frame.number = NextHeight
    /\ pending' = work.frame
    /\ work' = At("begun", work.frame, None, 0)
    /\ UNCHANGED <<clock, candidates, applied, receipt, pipeline, offering, active, wake, handed,
                   history>>

\* ... then state and cursor (commit_frame_with_global_cursor), ...
InPlaceCommit ==
    /\ work.at = "begun"
    /\ applied' = Append(applied, work.frame)
    /\ work' = At("committed", work.frame, None, 0)
    /\ UNCHANGED <<clock, candidates, receipt, pending, pipeline, offering, active, wake, handed,
                   history>>

\* ... then the receipt, and the marker goes (finish_execution_checkpoint).
InPlaceFinish ==
    /\ work.at = "committed"
    /\ receipt' = work.frame
    /\ pending' = None
    /\ work' = At("executed", work.frame, None, 0)
    /\ UNCHANGED <<clock, candidates, applied, pipeline, offering, active, wake, handed,
                   history>>

\* finish_legacy: announce it if it was the queued finalization.
FinishLegacy ==
    /\ work.at = "executed"
    /\ LET n == work.frame.number
       IN  /\ queued' = Restrict(queued, DOMAIN queued \ {n})
           /\ episode' = IF episode.frame = n THEN NoEpisode ELSE episode
           /\ announced' = IF n \in DOMAIN queued /\ queued[n] = work.frame
                           THEN announced \cup {work.frame} ELSE announced
    /\ work' = Top
    /\ UNCHANGED <<durable, rejected, noted, offering, active, wake, handed, taken, crashes>>

-----------------------------------------------------------------------------
(* Failure                                                                 *)

\* The process stops, or the node exits because a frame failed to
\* materialize.  Only the store survives.
Crash ==
    /\ work.at # "down" /\ crashes < MaxCrashes
    /\ crashes' = crashes + 1
    /\ queued' = << >> /\ episode' = NoEpisode /\ rejected' = {} /\ noted' = 0
    /\ offering' = {} /\ active' = FALSE /\ wake' = FALSE /\ handed' = 0
    /\ work' = At("down", None, None, 0)
    /\ UNCHANGED <<durable, announced, taken>>

\* Mutant: the receipt of the frame before the marked one is kept.
ReceiptAfterRecoveryKept == receipt

\* Recovery keeps the receipt only while it describes the cursor's state.
ReceiptAfterRecovery ==
    IF Cursor > 0 /\ receipt = applied[Cursor] THEN receipt ELSE None

\* Mutant: a restart executes the marked frame again, landed or not.
RecoverReexecutes ==
    /\ work.at = "down"
    /\ pending # None => pending.number \in {Cursor, NextHeight}
    /\ pending' = None
    /\ receipt' = IF pending = None THEN receipt ELSE ReceiptAfterRecovery
    /\ applied' = IF pending = None THEN applied ELSE Append(applied, pending)
    /\ work' = Top
    /\ UNCHANGED <<clock, candidates, pipeline, offering, active, wake, handed, history>>

\* A restart.  recover_unfinished_execution: the cursor tells whether the marked
\* frame's batch landed; any other cursor is refused.  Then the canonical
\* records above the cursor are executed, as in a pass of the worker.
Recover ==
    /\ work.at = "down"
    /\ pending # None => pending.number \in {Cursor, NextHeight}
    /\ pending' = None
    /\ receipt' = IF pending = None THEN receipt ELSE ReceiptAfterRecovery
    /\ work' = Top
    /\ UNCHANGED <<clock, candidates, applied, pipeline, offering, active, wake, handed,
                   history>>

-----------------------------------------------------------------------------
Init ==
    /\ canon = [h \in Height |-> None] /\ vouched = {}
    /\ cands = {} /\ certs = {}
    /\ applied = << >> /\ receipt = None /\ pending = None
    /\ queued = << >> /\ episode = NoEpisode /\ rejected = {}
    /\ noted = 0 /\ offering = {} /\ active = FALSE /\ wake = FALSE /\ handed = 0
    /\ work = Top
    /\ announced = {} /\ taken = {} /\ crashes = 0

Worker ==
    \/ StartPass \/ Look \/ LookIdle
    \/ ChooseQueued \/ ChooseDurable \/ ChooseImplied \/ ChooseNone
    \/ StepClockAhead \/ StepWait \/ StepLegacy \/ StepReject \/ StepPublish
    \/ FinishPublished \/ StepFail(TRUE) \/ StepFail(FALSE)
    \/ CanonicalWait \/ CanonicalPublish
    \/ InPlaceBegin \/ InPlaceCommit \/ InPlaceFinish \/ FinishLegacy

Consensus ==
    \/ Activate
    \/ \E f \in Frame : Notarize(f)
    \/ \E h \in Height : FinalizeAdmitted(h) \/ FinalizeCanonical(h)
    \/ \E f \in offering : Offer(f)

Sync ==
    \/ \E lo, top \in Height : SyncChain(lo, top)
    \/ \E h \in Height : GossipFrame(h)

Next == Worker \/ Consensus \/ Sync \/ Crash \/ Recover

Spec == Init /\ [][Next]_vars

\* A step other than a wait or a busy source.
StepAnswers == StepClockAhead \/ StepLegacy \/ StepReject \/ StepPublish \/ StepFail(TRUE)

\* The tasks of a running process make progress and a stopped one is restarted
\* (WF).  A wait ends: the lease is released, the application frames arrive, a
\* busy source counts as a failure after busy_patience (SF).  No atomic attempt
\* is assumed ever to succeed, and nothing is assumed of peers.
LiveSpec ==
    /\ Spec
    /\ WF_vars(Worker) /\ WF_vars(Recover) /\ WF_vars(Activate)
    /\ \A h \in Height : WF_vars(Offer(Main(h)))
    /\ SF_vars(StepAnswers)
    /\ SF_vars(CanonicalPublish \/ InPlaceBegin)

-----------------------------------------------------------------------------
(* Properties                                                              *)

Places == {"rest", "top", "missing", "chosen", "published", "canonical", "begun",
           "committed", "executed", "down"}

\* Types of the store, the pipeline, the worker and the histories.
TypeOK ==
    /\ canon \in [Height -> Frame \cup {None}] /\ vouched \subseteq Height
    /\ cands \subseteq Frame /\ certs \subseteq Frame
    /\ applied \in Seq(Frame)
    /\ receipt \in Frame \cup {None} /\ pending \in Frame \cup {None}
    /\ DOMAIN queued \subseteq Height /\ queued \in [DOMAIN queued -> Frame]
    /\ episode \in [frame : Nat, counted : Nat]
    /\ rejected \subseteq Frame /\ noted \in Nat /\ offering \subseteq Frame
    /\ active \in BOOLEAN /\ wake \in BOOLEAN /\ handed \in Nat
    /\ work \in [at : Places, frame : Frame \cup {None}, implied : Frame \cup {None},
                 attempts : Nat]
    /\ announced \subseteq Frame /\ taken \subseteq Frame /\ crashes \in Nat

\* The execution state is the finalized chain: every height once, in order, and
\* never a frame of a nullified view, whichever of the paths (atomic, implied,
\* canonical, in place, startup) executed it and wherever the process stopped.
ExecutedIsFinalized ==
    /\ Cursor <= MaxHeight
    /\ \A i \in 1 .. Cursor : applied[i] = Main(i)

\* A frame is executed only with or after its canonical clock record, so a
\* restart never finds state above the clock (publish_atomically's one batch,
\* the worker's read of the record).
ExecutesCanonicalRecord ==
    [][applied' # applied => applied' = Append(applied, canon'[NextHeight])]_vars

\* "Call only after the frame is canonical" (announce): head and gossip never
\* run ahead of the durable clock, and a crash does not make them so.
AnnouncedIsCanonical == \A f \in announced : canon[f.number] = f

\* Wherever the process stops, a restart resolves it: an unfinished-execution
\* marker names the frame at the cursor, executed, or the next one, not
\* executed; without a marker the receipt describes the executed state, so the
\* base of the next publication is authenticated against the right frame.
CrashConsistent ==
    /\ pending # None =>
          \/ pending.number = NextHeight
          \/ pending.number = Cursor /\ applied[Cursor] = pending
    /\ pending = None /\ receipt # None => receipt = Base

\* The pipeline has f, or needs it no longer.
Held(f) ==
    \/ f.number <= Cursor
    \/ f.number \in DOMAIN queued
    \/ f \in certs
    \/ canon[f.number] = f

\* While candidate writes succeed, a finalized frame handed over is executed,
\* canonical, queued or restorable from the candidate store, through evictions,
\* rejections, certificate-less rewrites of its candidate and restarts; and so
\* is the finalization that proposals and votes wait for (note_finalized).
FinalizationHeld ==
    ~StoreFails =>
        /\ \A f \in taken : Held(f)
        /\ noted > Cursor => Held(Main(noted))

\* The worker never sleeps on work: while it rests with no signal and no timer,
\* a frame handed over at the next height has failed authentication, for itself
\* or for a frame above it that was to finalize it, and waits for peers or a
\* restart; a restart's activation wakes the worker for the frames stored
\* before (step_within, reject, the global-materializer task).
NoLostWakeup ==
    active /\ work.at = "rest" /\ ~wake /\ ~StoreFails =>
        \A f \in taken : f.number = NextHeight =>
            f \in rejected /\ \E g \in Refused : g.number >= f.number

\* The frames with a canonical record.
Recorded == {canon[h] : h \in Height} \ {None}

\* The archive as its clients see it.
Ledger == INSTANCE FinalizedLedger WITH
    Chain <- [h \in Height |-> Main(h)],
    clock <- Recorded,
    ledger <- applied

\* Clock, state and announcements are those of an append-only ledger of the
\* finalized chain: no restart, replayed journal, hole in the clock, rewritten
\* record or second path to execution takes a frame back, executes one twice or
\* lets the state or an announcement run ahead of the clock.
ImplementsLedger == Ledger!Spec

\* A stalled worker bounds what waits: certified candidates stay within
\* max_ahead of the canonical head, and the queue within max_queued.
TailBounded ==
    /\ \A f \in certs : f.number <= Latest + MaxAhead
    /\ Cardinality(DOMAIN queued) <= MaxQueued

\* A frame that fails authentication becomes canonical only where the pipeline
\* does not admit it (a hole below the canonical head, or beyond the window):
\* neither the atomic nor the implied path publishes it on the strength of a
\* certificate, its own or a descendant's.
RefusedNotAdmitted ==
    [][\A h \in Height : canon'[h] # canon[h] /\ canon'[h] \in Refused => ~Admits(h)]_vars

\* A finalized prefix that has been handed over is executed in the end, however
\* many atomic attempts fail and through restarts: the attempts are bounded and
\* the in-place path follows.
FinalizedExecutes ==
    \A h \in Height : (\A i \in 1 .. h : Main(i) \in taken) ~> (Cursor >= h)

=============================================================================
