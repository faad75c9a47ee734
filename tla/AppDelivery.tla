---------------------------- MODULE AppDelivery -----------------------------
(***************************************************************************)
(* Delivery of finalized application frames from a consensus host to its   *)
(* shard engine (quil-engine/src/cw_app_seams.rs, AppSeamFinalizer), the   *)
(* durable records that survive a restart (FinalizedRecords, SealedBodies, *)
(* ClosingCertificate), and the engine's run loop that materializes them   *)
(* in order (app_engine.rs).                                               *)
(*                                                                         *)
(* One committee session finalizes frames 1 .. MaxFrame and then a seal    *)
(* whose checkpoint is the last of them.  A frame either gets a            *)
(* finalization of its own or becomes final with a descendant.  A          *)
(* successor's host starts only on the sealed state, materialized          *)
(* (successor_state_matches_held), so a record never crosses sessions.     *)
(*                                                                         *)
(* A body is absent, a candidate, a candidate whose requests were swapped  *)
(* under the same header (the digest covers the header only), or sealed:   *)
(* this node built or validated those bytes.                               *)
(***************************************************************************)
EXTENDS Integers, Sequences, FiniteSets, FiniteSetsExt

CONSTANTS
    MaxFrame,   \* bound: frames of the chain
    QueueCap,   \* the engine channel's capacity
    Retries,    \* MAX_MATERIALIZE_RETRIES: hard failures before a kept frame is dropped
    Threads,    \* who retries: the host's reporter, and the timer or ingress
    Host,       \* the reporter's thread
    Deployments \* the surroundings a node may find itself in

Frames == 1 .. MaxFrame
Seal == 0
Digests == Frames \cup {Seal}

\* sole: this node is the shard's only member, and no archive has its frames;
\* arrivals: the bodies gossip brings; late: the blocks whose validation may end
\* after they finalized; fails: the writes that may fail, a durable record's or the
\* commit of a frame's state; retries: the threads besides the host's that
\* retry; stops: bound on the stops of the process or the host.
Deployment ==
    [sole : BOOLEAN, arrivals : SUBSET (Digests \X {"cand", "swap"}), late : SUBSET Digests,
     fails : SUBSET {"record", "commit"}, retries : SUBSET (Threads \ {Host}), stops : Nat]

ASSUME DeliveryAssumption ==
    /\ MaxFrame \in Nat \ {0} /\ QueueCap \in Nat \ {0} /\ Retries \in Nat \ {0}
    /\ Host \in Threads
    /\ \A c \in Deployments : c \in Deployment

VARIABLES
    (* durable *)
    top,        \* the highest frame final
    sealFinal,  \* the session's seal is final
    bodies,     \* SealedBodies
    recorded,   \* by frame: the body of its certified record
    implied,    \* by frame: the body of its implied record
    closing,    \* the closing certificate is stored
    cursor,     \* the engine's materialized cursor
    (* the host's memory *)
    up,         \* the host runs
    store,      \* by digest: the body the block store holds
    announced,  \* finalizations the voter has reported (broadcast_finalization)
    pending,    \* finalizations not yet handed to the engine
    replayed,   \* those replayed from a record, not reported
    delivered,  \* the highest frame handed to the engine
    scanned,    \* the cursor and pending count of the last drop scan
    thread,     \* by thread: its pass over the pending finalizations
    (* the engine's memory *)
    queue,      \* messages from the host
    kept,       \* frames held ahead of the cursor (received_full_frames)
    attempts,   \* hard failures of the frame after the cursor (materialize_failures)
    sealed_session, \* the seal was handled: its session's host is not started again
    (* bookkeeping *)
    handed,     \* frames the engine accepted
    unwritten,  \* those of them a failed record write left to the engine's memory
    abandoned,  \* the engine dropped the frame after its cursor
    stops,
    deployment  \* the node's surroundings, which do not change

consensus == <<top, sealFinal>>
disk == <<bodies, recorded, implied, closing>>
host == <<up, store, announced, pending, replayed, delivered, scanned, thread>>
engine == <<cursor, queue, kept, attempts, sealed_session>>
ghosts == <<handed, unwritten, abandoned>>
vars == <<consensus, disk, host, engine, ghosts, stops, deployment>>

Held == {"cand", "swap", "sealed"}
NoScan == <<-1, -1>>
Resting == [at |-> "rest", todo |-> {}, again |-> FALSE, unseen |-> {}]

\* The view a pending finalization is filed under.
View(d) == IF d = Seal THEN MaxFrame + 1 ELSE d

\* The highest frame a finalization makes final.
Through(d) == IF d = Seal THEN MaxFrame ELSE d

-----------------------------------------------------------------------------
(* Bodies                                                                  *)

\* Peer ingress stores a block under the digest of its own header.
BodyArrives(d, b) ==
    /\ up /\ ~deployment.sole /\ <<d, b>> \in deployment.arrivals
    /\ store[d] \notin {"sealed", b}
    /\ d = Seal => b = "cand"
    /\ store' = [store EXCEPT ![d] = b]
    /\ UNCHANGED <<consensus, disk, up, announced, pending, replayed, delivered, scanned,
                   thread, engine,
                   ghosts, stops, deployment>>

\* The automaton built or validated the block, having executed its ancestors
\* above the cursor: sealed, and kept durably first.
Verify(d) ==
    /\ up
    /\ store[d] # "sealed"
    /\ \A n \in cursor + 1 .. (IF d = Seal THEN MaxFrame ELSE d - 1) : store[n] \in {"cand", "sealed"}
    /\ d \in deployment.late \/ IF d = Seal THEN ~sealFinal ELSE d > top
    /\ store' = [store EXCEPT ![d] = "sealed"]
    /\ bodies' = bodies \cup {d}
    /\ UNCHANGED <<consensus, recorded, implied, closing, up, announced, pending, replayed,
                   delivered, scanned, thread, engine, ghosts, stops, deployment>>

\* The host stops and its memory is gone, the block store included.
HostDown ==
    /\ up' = FALSE
    /\ store' = [d \in Digests |-> "none"]
    /\ announced' = {} /\ pending' = {} /\ replayed' = {} /\ delivered' = 0 /\ scanned' = NoScan
    /\ thread' = [t \in Threads |-> Resting]

-----------------------------------------------------------------------------
(* Handing finalizations to the engine                                     *)

\* A pass over the pending finalizations it saw; unseen are those queued since.
Sweep(todo, again) == [at |-> "deliver", todo |-> todo, again |-> again, unseen |-> {}]

Missed(t, new) ==
    IF thread[t].at = "deliver" THEN [thread[t] EXCEPT !.unseen = @ \cup new] ELSE thread[t]

\* on_finalized: the report is queued and delivery retried.  Reports come in any
\* order, each once, and again from a host started anew.  A sole member's own
\* votes finalize, view by view, and nothing on a frame it does not hold.
OnFinalized(d) ==
    /\ up /\ thread[Host].at = "rest"
    /\ d \notin announced
    /\ deployment.sole => /\ \A e \in announced : View(e) < View(d)
                          /\ store[d] = "sealed"
                          /\ \A n \in cursor + 1 .. Through(d) : store[n] = "sealed"
    /\ top' = IF Through(d) > top THEN Through(d) ELSE top
    /\ sealFinal' = (sealFinal \/ d = Seal)
    /\ announced' = announced \cup {d}
    /\ pending' = pending \cup {d}
    /\ thread' = [t \in Threads |-> IF t = Host THEN Sweep(pending', FALSE)
                                   ELSE Missed(t, {d} \ pending)]
    /\ UNCHANGED <<disk, up, store, replayed, delivered, scanned, engine, ghosts, stops, deployment>>

\* retry_pending from the timer or after a block arrived.
Retry(t) ==
    /\ up /\ t \in deployment.retries
    /\ thread[t].at = "rest"
    /\ pending # {}
    /\ thread' = [thread EXCEPT ![t] = Sweep(pending, FALSE)]
    /\ UNCHANGED <<consensus, disk, up, store, announced, pending, replayed, delivered, scanned, engine,
                   ghosts, stops, deployment>>

\* implied_ancestors of frame n: every frame from above the engine's cursor and
\* the last delivered frame, or none if one is not held.
Ancestors(n) ==
    LET floor == IF cursor > delivered THEN cursor ELSE delivered
        chain == floor + 1 .. n - 1
    IN  IF \A m \in chain : store[m] # "none" THEN chain ELSE {}

\* seal_implied: the checkpoint with its own ancestors.
Checkpoint ==
    LET floor == IF cursor > delivered THEN cursor ELSE delivered
        chain == floor + 1 .. MaxFrame
    IN  IF \A m \in chain : store[m] # "none" THEN chain ELSE {}

\* Mutant: records end with the delivery instead of the materialization.
Pruned_delivered(number) == number

\* prune_delivered: records and bodies at or below it are dropped.
Pruned(number) == cursor

Keep(rs, through) == [n \in Frames |-> IF n <= through THEN "none" ELSE rs[n]]

\* persist_implied
RecordImplied(ns) == [n \in Frames |-> IF n \in ns THEN store[n] ELSE implied[n]]

Message(d, ns) == [digest |-> d, bodies |-> [n \in ns \cup (Frames \cap {d}) |-> store[n]]]

\* The record writes that fail: each is logged, and its frame is sent anyway.
Failing(ns) == IF "record" \in deployment.fails THEN SUBSET ns ELSE {{}}

\* A frame waits on its own record and on those of the frames sent after it.
Send(d, ns, bad) ==
    LET sent == ns \cup (Frames \cap {d}) IN
    /\ queue' = Append(queue, Message(d, ns))
    /\ handed' = handed \cup sent
    /\ unwritten' = (unwritten \ sent) \cup {m \in sent : \E b \in bad : m <= b}

\* A finalized data frame: recorded with its ancestors, then sent.
DeliverFrame(n) ==
    LET ns == Ancestors(n) IN
    \E bad \in Failing(ns \cup {n}) :
        LET rec == IF n \in bad THEN recorded ELSE [recorded EXCEPT ![n] = store[n]]
            imp == RecordImplied(ns \ bad)
        IN  IF Len(queue) < QueueCap
            THEN /\ Send(n, ns, bad)
                 /\ recorded' = Keep(rec, Pruned(n))
                 /\ implied' = Keep(imp, Pruned(n))
                 /\ bodies' = {d \in bodies : d = Seal \/ d > Pruned(n)}
                 /\ delivered' = IF n > delivered THEN n ELSE delivered
                 /\ pending' = pending \ {n} /\ replayed' = replayed \ {n}
                 /\ UNCHANGED closing
            ELSE /\ recorded' = rec /\ implied' = imp
                 /\ UNCHANGED <<queue, handed, unwritten, bodies, delivered, pending, replayed,
                                closing>>

\* A finalized seal: the closing certificate and the frames the seal makes
\* final are stored, then sent.
DeliverSeal ==
    LET ns == Checkpoint IN
    \E bad \in Failing(ns) :
        /\ closing' = TRUE
        /\ implied' = RecordImplied(ns \ bad)
        /\ IF Len(queue) < QueueCap
           THEN /\ Send(Seal, ns, bad)
                /\ delivered' = IF ns # {} THEN MaxFrame ELSE delivered
                /\ pending' = pending \ {Seal}
           ELSE UNCHANGED <<queue, handed, unwritten, delivered, pending>>
        /\ UNCHANGED <<recorded, bodies, replayed>>

\* BodyMissing, and SealNotPersisted: a seal is not sent before its closing
\* certificate is stored.
Withheld(d) == store[d] = "none" \/ (d = Seal /\ "record" \in deployment.fails)

\* Mutant: the pass goes on past a finalization it cannot deliver.
Stopped_never(t, rest) == IF rest = {} THEN Resting ELSE [thread[t] EXCEPT !.todo = rest]

\* The pass stops at the first finalization still held; the first pass then
\* scans for finalizations already materialized.
Stopped(t, rest) == IF thread[t].again THEN Resting ELSE [Resting EXCEPT !.at = "drop"]

\* deliver_in_order: try_deliver for the lowest view of the snapshot, under the
\* pending lock.
TryDeliver(t) ==
    /\ up /\ thread[t].at = "deliver"
    /\ \E d \in thread[t].todo :
          LET rest == thread[t].todo \ {d}
              Moved(next) == thread' = [thread EXCEPT ![t] = next]
              On == IF rest = {} THEN Resting ELSE [thread[t] EXCEPT !.todo = rest]
          IN  /\ \A e \in rest : View(d) <= View(e)
              /\ \/ /\ d \notin pending
                    /\ Moved(On)
                    /\ UNCHANGED <<disk, delivered, pending, replayed, queue, handed, unwritten>>
                 \/ /\ d \in pending /\ Withheld(d)
                    /\ Moved(Stopped(t, rest))
                    /\ UNCHANGED <<disk, delivered, pending, replayed, queue, handed, unwritten>>
                 \/ /\ d \in pending /\ store[d] # "none"
                    /\ IF d = Seal THEN DeliverSeal ELSE DeliverFrame(d)
                    /\ Moved(IF Len(queue) < QueueCap THEN On ELSE Stopped(t, rest))
    /\ UNCHANGED <<consensus, up, store, announced, scanned, cursor, kept, attempts, sealed_session,
                   abandoned, stops, deployment>>

\* Mutant: a frame at the cursor's successor shows the views below it done.
Shows_child(d) == d <= cursor + 2

\* Mutant: only a seal sets the bound.
Shows_seal(d) == d = Seal /\ cursor >= MaxFrame

\* A verified frame whose parent, or a verified seal whose checkpoint, is
\* materialized.
Shows(d) == Through(d) <= (IF d = Seal THEN cursor ELSE cursor + 1)

\* drop_materialized: pending finalizations below such a view whose bodies this
\* node never held are dropped, and delivery is tried again.
DropMaterialized(t) ==
    LET key == <<cursor, Cardinality(pending)>>
        shown == {View(d) : d \in {e \in pending \ replayed : store[e] = "sealed" /\ Shows(e)}}
        dropped == {d \in pending : store[d] = "none" /\ \E v \in shown : View(d) < v}
        left == pending \ dropped
    IN  /\ up /\ thread[t].at = "drop"
        /\ scanned' = key
        /\ IF key = scanned \/ dropped = {}
           THEN /\ thread' = [thread EXCEPT ![t] = Resting]
                /\ UNCHANGED <<pending, replayed>>
           ELSE /\ pending' = left
                /\ replayed' = replayed \cap left
                /\ thread' = [thread EXCEPT ![t] = Sweep(left, TRUE)]
        /\ UNCHANGED <<consensus, disk, up, store, announced, delivered, engine, ghosts, stops, deployment>>

-----------------------------------------------------------------------------
(* The engine                                                              *)

\* The cursor after some prefix of the frames ns above it materialized; the
\* rest, the first that failed included, waits.
Materialize(ns) ==
    \E c \in cursor .. MaxFrame :
        /\ cursor + 1 .. c \subseteq ns
        /\ cursor' = c
        /\ kept' = {n \in kept \cup ns : n > c}
        /\ attempts' = IF c = cursor THEN attempts ELSE 0
        /\ abandoned' = (abandoned /\ c = cursor)

Own(m) == Frames \cap {m.digest}
Before(m) == DOMAIN m.bodies \ Own(m)
Refused(m, ns) == \E n \in ns : m.bodies[n] = "swap"
MayRefuse(m, ns) == \E n \in ns : m.bodies[n] # "sealed"

\* handle_cw_finalized_frame: the ancestors, then the frame.  Swapped requests
\* are refused by the header's root, and a body this node did not verify may
\* fail validation; one such ancestor refuses all of them.
HandleFinalizedFrame(m) ==
    /\ m.digest # Seal
    /\ \/ MayRefuse(m, Own(m)) /\ UNCHANGED <<cursor, kept, attempts, abandoned>>
       \/ ~Refused(m, Own(m)) /\ MayRefuse(m, Before(m)) /\ Materialize(Own(m))
       \/ ~Refused(m, DOMAIN m.bodies) /\ Materialize(DOMAIN m.bodies)
    /\ UNCHANGED <<host, sealed_session>>

\* handle_cw_sealed: the frames the seal made final, then the host is stopped.
HandleSealed(m) ==
    /\ m.digest = Seal
    /\ \/ MayRefuse(m, Before(m)) /\ UNCHANGED <<cursor, kept, attempts, abandoned>>
       \/ ~Refused(m, Before(m)) /\ Materialize(Before(m))
    /\ HostDown /\ sealed_session' = TRUE

Handle ==
    /\ queue # << >>
    /\ queue' = Tail(queue)
    /\ HandleFinalizedFrame(Head(queue)) \/ HandleSealed(Head(queue))
    /\ UNCHANGED <<consensus, disk, handed, unwritten, stops, deployment>>

\* The ordered follower path applies a kept frame, on its retry timer.
Follow ==
    /\ cursor + 1 \in kept
    /\ Materialize({cursor + 1})
    /\ UNCHANGED <<consensus, disk, host, queue, sealed_session, handed, unwritten, stops,
                   deployment>>

\* Its hard failures are counted; at the limit the frame is dropped and a shard
\* sync asked for, which is ArchiveReplay where another node holds the frame.
FollowFails ==
    /\ "commit" \in deployment.fails
    /\ cursor + 1 \in kept
    /\ IF attempts + 1 >= Retries
       THEN attempts' = 0 /\ kept' = kept \ {cursor + 1} /\ abandoned' = TRUE
       ELSE attempts' = attempts + 1 /\ UNCHANGED <<kept, abandoned>>
    /\ UNCHANGED <<consensus, disk, host, cursor, queue, sealed_session, handed, unwritten,
                   stops, deployment>>

\* Shard sync and archive replay materialize a frame other nodes hold.
ArchiveReplay ==
    /\ ~deployment.sole
    /\ cursor < top
    /\ cursor' = cursor + 1
    /\ kept' = kept \ {cursor + 1}
    /\ attempts' = 0 /\ abandoned' = FALSE
    /\ UNCHANGED <<consensus, disk, host, queue, sealed_session, handed, unwritten, stops,
                   deployment>>

-----------------------------------------------------------------------------
(* Stopping and starting                                                   *)

\* The process stops: what is not durable is gone.
Crash ==
    /\ stops < deployment.stops
    /\ stops' = stops + 1
    /\ HostDown
    /\ queue' = << >> /\ kept' = {} /\ attempts' = 0 /\ sealed_session' = FALSE
    /\ abandoned' = FALSE
    /\ UNCHANGED <<consensus, disk, cursor, handed, unwritten, deployment>>

\* The engine finds its host dead, or rebuilds it for a changed committee.
Rebuild ==
    /\ up /\ stops < deployment.stops
    /\ stops' = stops + 1
    /\ HostDown
    /\ UNCHANGED <<consensus, disk, engine, ghosts, deployment>>

\* Mutant: the certified records above the cursor's successor only.
Replayable_above(n) == n > cursor + 1 /\ recorded[n] # "none"

Replayable(n) == n > cursor /\ recorded[n] # "none"

\* Mutant: a record's bytes are put over the sealed ones.
Restored_record(d, seals) ==
    IF d \in Frames /\ d > cursor /\ recorded[d] # "none" THEN recorded[d]
    ELSE IF d \in bodies \cup seals THEN "sealed" ELSE "none"

\* The body of d a starting host's store holds: what this node sealed, or its
\* record above the cursor.
Restored(d, seals) ==
    IF d \in bodies \cup seals THEN "sealed"
    ELSE IF d = Seal \/ d <= cursor THEN "none"
    ELSE IF recorded[d] # "none" THEN recorded[d] ELSE implied[d]

\* A host starts: sealed bodies restored, then the records above the cursor and
\* the closing certificate queued again.  An implied record is only a body.
Start ==
    LET seals == IF closing THEN {Seal} ELSE {}
        again == {n \in Frames : Replayable(n)}
    IN  /\ ~up /\ ~sealed_session
        /\ store' = [d \in Digests |-> Restored(d, seals)]
        /\ pending' = again \cup seals
        /\ replayed' = again
        /\ up' = TRUE
        /\ thread' = [thread EXCEPT ![Host] = IF pending' = {} THEN Resting ELSE Sweep(pending', FALSE)]
        /\ UNCHANGED <<consensus, disk, announced, delivered, scanned, engine, ghosts, stops,
                       deployment>>

-----------------------------------------------------------------------------
Init ==
    /\ top = 0 /\ sealFinal = FALSE
    /\ bodies = {} /\ closing = FALSE
    /\ recorded = [n \in Frames |-> "none"] /\ implied = [n \in Frames |-> "none"]
    /\ up = TRUE
    /\ store = [d \in Digests |-> "none"]
    /\ announced = {} /\ pending = {} /\ replayed = {} /\ delivered = 0 /\ scanned = NoScan
    /\ thread = [t \in Threads |-> Resting]
    /\ cursor = 0 /\ queue = << >> /\ kept = {} /\ attempts = 0 /\ sealed_session = FALSE
    /\ handed = {} /\ unwritten = {} /\ abandoned = FALSE /\ stops = 0 /\ deployment \in Deployments

Pass(t) == TryDeliver(t) \/ DropMaterialized(t)

Next ==
    \/ \E d \in Digests : Verify(d) \/ OnFinalized(d) \/ \E b \in {"cand", "swap"} : BodyArrives(d, b)
    \/ \E t \in Threads : Retry(t) \/ Pass(t)
    \/ Handle \/ Follow \/ FollowFails \/ ArchiveReplay
    \/ Crash \/ Rebuild \/ Start

Spec == Init /\ [][Next]_vars

(***************************************************************************)
(* The timer ticks every 250 ms, a pass that began ends, the engine drains *)
(* its channel and retries what it holds, archive replay goes on while the *)
(* cursor is behind, and a stopped host is started again.                  *)
(***************************************************************************)
LiveSpec ==
    /\ Spec
    /\ \A t \in Threads : WF_vars(Pass(t)) /\ WF_vars(Retry(t))
    /\ WF_vars(Handle) /\ WF_vars(Follow) /\ WF_vars(ArchiveReplay)
    /\ WF_vars(Start)

-----------------------------------------------------------------------------
(* Properties                                                              *)

Kinds == Held \cup {"none"}

\* Only what is final is pending, held or recorded as handed over, the engine
\* holds nothing at or below its cursor, and a handled seal was stored first.
TypeOK ==
    /\ top \in 0 .. MaxFrame /\ sealFinal \in BOOLEAN
    /\ bodies \subseteq Digests /\ closing \in BOOLEAN
    /\ recorded \in [Frames -> Kinds] /\ implied \in [Frames -> Kinds]
    /\ up \in BOOLEAN /\ store \in [Digests -> Kinds]
    /\ announced \subseteq Digests /\ pending \subseteq Digests /\ replayed \subseteq pending
    /\ \A d \in pending : Through(d) <= top
    /\ cursor \in 0 .. top /\ kept \subseteq cursor + 1 .. top
    /\ delivered \in 0 .. top /\ Len(queue) <= QueueCap
    /\ attempts \in 0 .. Retries - 1
    /\ sealed_session \in BOOLEAN /\ (sealed_session => closing /\ ~up)
    /\ \A t \in Threads : thread[t].at \in {"rest", "deliver", "drop"}

\* A restart hands frame n to the engine again: it has a certified record, or an
\* implied one with every frame up to a certified record or the seal.
Recoverable(n) ==
    \/ recorded[n] # "none"
    \/ \E c \in n .. MaxFrame :
          /\ \A m \in n .. c : recorded[m] # "none" \/ implied[m] # "none"
          /\ recorded[c] # "none" \/ (closing /\ c = MaxFrame)

\* A frame handed to the engine is never lost with the engine's queue, unless a
\* record it waits on could not be written: until it is materialized, a restart
\* replays it and all it needs.
HandedRecoverable == \A n \in handed \ unwritten : n <= cursor \/ Recoverable(n)

\* What the host, the engine and the disk hold of one finalized chain, wherever
\* the process stops (try_deliver, prune_delivered, replay at start).
DeliveryInv == TypeOK /\ HandedRecoverable

\* The message a step sends to the engine.
Sends == Len(queue') > Len(queue)
Sent == queue'[Len(queue')]

\* A pending finalization ends only by being handed to the engine or because
\* its frame is materialized: dropping a body never held loses nothing.
EndsHandedOrMaterialized ==
    [][up /\ up' => \A d \in pending \ pending' :
          (Sends /\ Sent.digest = d) \/ (d # Seal /\ d <= cursor)]_vars

\* "Do not knowingly deliver newer finalizations ahead of a missing earlier
\* body or a backpressured notification": a pass hands a frame over only with
\* every pending finalization of a lower frame, but for one reported since the
\* pass took its snapshot.
InOrder ==
    [][\A t \in Threads : Sends /\ thread'[t] # thread[t] =>
          \A d \in pending' \ {Seal} :
              d > Through(Sent.digest) \/ d \in DOMAIN Sent.bodies \cup thread[t].unseen]_vars

\* Bytes this node verified go to the engine as verified, whatever an
\* unverified copy, recorded before the validation ended, replayed after a
\* restart: an unverified copy may be refused, and its frame with it.
VerifiedBytesSent ==
    [][Sends => \A d \in DOMAIN Sent.bodies \cap bodies : Sent.bodies[d] = "sealed"]_vars

\* Whatever is recorded is materialized in the end, through crashes, host
\* restarts and failing commits, by this node alone; only a sole member that
\* dropped its next frame after Retries hard failures waits for a restart.
RecordedMaterializes ==
    \A n \in Frames :
        recorded[n] # "none" ~> cursor >= n \/ (deployment.sole /\ abandoned)

\* A finalization that holds later ones back clears, where a timer retries, once
\* the engine is past it and a later finalization shows that, whose body was
\* verified before the first scan at the engine's present cursor or before the
\* cursor reached it: a scan of the same cursor and count is not repeated.
HeadClears ==
    \A e \in Frames : \A d \in 1 .. e - 1 :
        (/\ up /\ deployment.retries # {} /\ {d, e} \subseteq pending
         /\ store[d] = "none" /\ store[e] = "sealed" /\ e \notin replayed
         /\ scanned[1] < cursor \/ cursor + 1 < e)
            ~> (~up \/ ~({d, e} \subseteq pending) \/ store[d] # "none")

=============================================================================
