# TLA+ models of the Quilibrium node

A verification project kept beside the Rust workspace under `src/crates/`.  It
models the parts of the node whose correctness depends on the order in which
tasks, messages, writes and restarts happen, checks them with TLC on small
instances and proves the most important results with TLAPS for every value of
the constants.

## The system

A node is a master process with workers.  Archive nodes form the GLOBAL
committee: a Simplex engine (vendored, `commonware-consensus`, hosted by
`quil-cw-consensus`) orders GLOBAL frames, and one task executes them into the
hypergraph state.  Application shards run the same engine with committees of
the provers allocated to them.  Provers join, confirm, renew and leave shards
through messages in GLOBAL frames.  Everything else supports this: storage,
trees, networking, RPC, cryptography, execution intrinsics.

### Inventory

| Component | State it keeps | Operations | Hard behaviour | What makes it correct |
|---|---|---|---|---|
| GLOBAL finalization pipeline and materializer worker (`global_finalization.rs`, `frame_materializer_*.rs`, worker in `archive_sync.rs`) | queue of certified frames, failed attempts of one height, rejected inputs; durable clock, candidates, state + cursor, receipt, marker | offer, offer_synced(_chain), step, finish, prune; atomic, canonical and in-place execution; startup recovery | finalizer, poller, gossip and worker interleave; crash between two writes; bounded queue and window; retries with fallback | executed state is the finalized chain, once each, through crashes; no finalization lost; the worker never sleeps on work; attempts end |
| GLOBAL consensus seams (`cw_global_seams.rs`, `unheld_finalization.rs`) | candidates, finalizations without a body | on_notarized, on_finalized, finalize_body, propose, verify, await_unheld | body after its certificate; two callers and the finalizer around two locks; patience, overflow | nothing abandoned is published; votes wait for publication, and not for ever |
| Frame reception (`frame_sync.rs`, `message_loop.rs`) | pages, links held back | admit_frame, store_chain, gossip gate | duplicated, reordered, partly stored chains | only validated frames are stored, in order |
| Submission attempts (`submission_attempts.rs`, `prover_pipeline.rs`) | reservations by epoch, filter and kind; confirms published | begin_free, release, fence, fence_for_epoch, drop, release_published_joins | tasks outlive cycles and epochs; chunks fail one by one | one task per filter; published filters fenced; nothing held without cause |
| Prover lifecycle (`provers/lifecycle.rs`) | seats, next operations | evaluate, plan joins, confirms, leaves | stale registry; boundaries | no seat lost to a missed confirm |
| Current frame (`current_frame.rs`) | observed, materialized, verified frame; rank and its epoch | observe, materialize, verify, observe_frame_rank, enter_rank_epoch | lock-free atomics | frames never go back |
| Simplex engine (`commonware-consensus/src/simplex`, voter) | votes of each view, certificates, current view | notarize, nullify, finalize, enter a view, choose a parent | timeouts race certificates; faulty leaders and members; restarts | one notarization a view; a finalized block is never skipped |
| Committee hand-off, members (`quil-cw-consensus/src/handoff.rs`, `handoff/automaton.rs`, `app_handoff.rs`) | the session, its request, the materialized tip | propose, verify, seal, re-seal | members at different tips and GLOBAL views; seals stuck between votes | a session has one end, which covers all it finalized; it ends |
| Committee hand-off, GLOBAL (`global_intrinsic/handoff*.rs`, `intrinsic.rs`) | sessions, requests, seals, fences, reservations, pending splits and merges | frame header, closing certificate, drain, split, merge, the session pass | seal racing fence; requests racing membership; one source of several ends | one committee for an address range; a successor starts where execution stopped; nothing waits for ever |
| Block store (`quil-cw-consensus/src/adapters.rs`) | bodies by digest, counters, certified digests, windows | put, seal, certify, finalize, evict | limits; bodies before or after their certificates; a slow reader | bounded by peers' deliveries, never drops what is still to be delivered |
| Host supervisor (`cw_host_supervisor.rs`, `quil-lifecycle`) | the engines running | start, stop, replace | stop racing start | at most one engine per epoch and journal |
| Application engine (`app_engine.rs`, `cw_app_seams.rs`, `app_parent.rs`, `own_votes.rs`) | pending finalizations, durable records and bodies, cursor, frames held ahead | report, deliver in order, record, drop, materialize, rebuild, restart | full channel, missing or swapped bodies, crash between send and commit | nothing handed over is lost; order; verified bytes stay verified |
| Time reel, fork choice (`time_reel.rs`, `fork_choice.rs`) | frame tree | insert, choose | equivocation | deterministic choice |
| Difficulty, fees, rewards | - | pure functions | integer width, zero, rounding | bounds, monotonicity |
| Events, halt and engine state | state, subscribers | transitions | slow or dropped subscribers | legal transitions only |
| Workers and topology (`worker_allocator.rs`, `shard_drain.rs`, `spawn_gate.rs`) | allocation | allocate, drain | drain racing allocation | no work on a drained shard |
| Storage, trees, execution, networking, RPC, crypto, client, MPC | - | - | out of reach of a model checker, or I/O | - |

`PROJECT.json` lists every component with its files, and the hazards each at
its line.

### How the parts modelled so far interact

The finalizer task and the poller call into the pipeline (shared state behind
one mutex) and then send on the worker's channel; the gossip receiver calls the
pipeline without sending.  The worker reads the durable clock and cursor and
calls back into the pipeline and the executor.  The pipeline exists only once
consensus has been activated; until then frames are stored canonically.  All of
them share one durable store, which is what a restart finds.

A consensus host owns one Simplex instance.  Its reporter calls the block store
and then the finalizer: `GlobalSeamFinalizer` for GLOBAL, `AppSeamFinalizer` for a
shard.  GLOBAL proposals and votes ask the finalizer, before they execute their
parent, whether a finalization is still without a body.  A shard's finalizer
sends frames and the terminal seal to the engine's channel; the engine
materializes them and stops the host when the seal arrives.  The seal's
certificate is submitted to GLOBAL, whose frames execute it, record the end of
the session and authorize its successor; GLOBAL's record of a closing request is
what makes the members of the session seal.

The lifecycle begins submission attempts at the frame of its cycle; the task it
spawns reads the node's *latest* frame when it publishes (`frame_now`), which
may be in another epoch.

## Modules

| Module | Content |
|---|---|
| `GlobalFinalization` | pipeline, worker, executor, recovery: specification, properties |
| `FinalizedLedger` | abstract specification: an append-only clock, ledger and set of announcements |
| `GlobalFinalizationProofs` | its two inductive invariants and theorems, and the refinement of `FinalizedLedger` |
| `MCGlobalFinalization` | which heights are certified and which frames are refused, for TLC |
| `SubmissionAttempts` | reservations of shard operations: specification, properties |
| `MCSubmissionAttempts` | scopes and symmetry for TLC |
| `SimplexVotes` | the votes of one Simplex instance: specification, properties, inductive invariant |
| `SimplexVotesProofs` | its theorems |
| `CommitteeHandoff` | extends `SimplexVotes` with data frames, seals and re-seals: closing one session |
| `CommitteeHandoffProofs` | its inductive proof, and that it implements `SimplexVotes` |
| `HandoffLiveness` | the closing of a session under partial synchrony |
| `SessionRegistry` | GLOBAL's records of sessions, requests, splits and merges |
| `UnheldFinalizations` | GLOBAL finalizations reported before their bodies, and the calls that wait for them |
| `BlockStore` | the bounded body store shared by ingress, automaton, reporter and finalizer |
| `AppDelivery` | finalized frames from host to engine, through queues, records and restarts |
| `SubmissionAttemptsProofs`, `SessionRegistryProofs`, `UnheldFinalizationsProofs`, `BlockStoreProofs`, `AppDeliveryProofs` | the inductive invariant and the theorems of each |
| `MCCommitteeHandoff`, `MCHandoffLiveness` | committees, quorums and leaders for TLC |
| `MCSessionRegistry`, `MCUnheldFinalizations`, `MCBlockStore`, `MCAppDelivery` | what may happen in one behavior, sizes and symmetry for TLC |

Definitions whose comment starts with "Mutant:" are wrong versions of
the definition that follows; they are used only to confirm that a property can
fail.

### GlobalFinalization

*State.*  Durable variables mirror the store: `canon` is the canonical clock
(`put_global_frame`), `vouched` the heights whose canonical header carries a
finalization certificate, `cands`/`certs` the candidate records without and
with a certificate, `applied` the frames executed into the state, `receipt` and
`pending` the two records of `frame_materializer_checkpoint.rs`.  The cursor
rides the state batch (`commit_frame_with_global_cursor`), so it is
`Len(applied)` and has no variable.  In memory: `queued`, `episode`, `rejected`
(the fields of `State`), `noted` (`note_finalized`), `offering` (a finalizer
task between its candidate write and `offer`), `active` (the pipeline
`OnceLock`), `wake` (the channel or the retry timer), `handed` (`handed_over`)
and `work`, the worker's place in its loop.  `announced`, `taken` and `crashes`
only record history.

*Data.*  A frame is a height and a branch.  "main" is the chain consensus
finalizes; "fork" frames come from nullified views: notarized, never certified.
That consensus certifies one chain is the environment assumption of the module,
as it is for the pipeline.  `Refused` frames have a header this node's verifier
does not accept (its committee view or clock differs); bodies always match
their header because `finalize_body` and `on_notarized` drop those that do not.

*Actions.*  `Activate` is the consensus activation, `Notarize`
`on_notarized`, `FinalizeAdmitted` + `Offer` and `FinalizeCanonical` the two
branches of `finalize_body`; `SyncChain` is `store_chain` with
`offer_synced_chain` or the canonical fall-back, `GossipFrame` the receiver in
`message_loop.rs`.  The worker's loop is cut where other tasks can interleave:
waiting (`StartPass`), reading the next height (`Look`), choosing the frame
(`Choose...`), the outcome of `step_within` (`Step...`), and the execution of a
canonical record: in one batch (`CanonicalPublish`) or in place
(`InPlaceBegin`, `InPlaceCommit`, `InPlaceFinish`).  `Crash` loses memory at
any point; `Recover` is `recover_unfinished_execution` followed by the
execution of the canonical tail.

*Abstractions.*  Whether an atomic attempt conflicts, is busy or exceeds the
private budget is a nondeterministic choice.  Catch-up mode
(`global_catch_up.rs`) is the choice between no attempts and `MaxAttempts`.
Retry delays are a timer that fires at some time.  A finalization whose body is
not held is one that is not handed over.

### SubmissionAttempts

Every section under the lock is an action: `BeginFree`, `Release`, `Fence`
(also `published_subset`), `FenceForEpoch`, `Drop`, `ReleasePublishedJoins`.
`Tick` advances the node's frame and `NextCycle` the frame the lifecycle acts
at, which may lag.  `sent` is history: what was published, against which the
reservation map is judged.

### SimplexVotes

`view`, `notarized`, `nullified` and `finalized` hold what each honest member
has voted; a certificate exists when a quorum signed, faulty members counting
for everything.  `construct_notarize`, `construct_nullify` and
`construct_finalize` are the three functions of `round.rs` with their flags,
`EnterView` is `enter_view`, `parent_payload` the rule for a proposal's parent
(`state.rs`).  A vote is journalled before it is sent (`sync_journal`, then
`notify`), so a restart loses none and there is no crash action: the state is
what is durable.  A member may act on any certificate that exists, which covers
every order of delivery; the batcher and the resolver only decide when.
A quorum is any set family that satisfies `QuorumAssumption`: two quorums share
an honest member.

### CommitteeHandoff and HandoffLiveness

One session of a shard is one Simplex instance.  A payload is a data frame (with
or without requests) or a seal, which names its view and a checkpoint.  `tip` is
a member's materialized cursor and `closing` whether its committed GLOBAL view
holds the closing request.  `propose_with_context` and `check` are the two
functions of `automaton.rs` with the same branches: above a seal its re-seal, on
a committed and drained parent the seal, otherwise data; `reseal` the conditions
of extending a seal; `closing_request` and `frame_is_request_free` what
`ParentSource` answers.  `Executable` is the private execution of notarized
frames above the tip.  `verify_seal_with`, with `validate_with`, is what is
checked of a certified seal.  Its `base_reseal` decides whether a re-seal of a
seal at the session base passes: a member always sets it, GLOBAL only from
`seal_recovery_frame()` on (`quil-execution`, `handoff.rs:1590-1595`), so
`CertifiedSealVerifies` states both.  A block is named by its view, which is sound because a view notarizes one
block (`UniqueNotarization`).  Faulty leaders offer any payload.

`HandoffLiveness` restricts the same steps to partial synchrony: before
`StableView` anything may time out, from it on no view does and leaders wait for
what earlier views finalized.

### SessionRegistry

`session[f]` is the sequence of a filter's sessions with base, members, status,
executed tip, seal and fence; `requests` the closing requests with their
sources, vacant ranges and targets; `reserved`, `pending` and `unseated` as in
the code's records.  A GLOBAL frame is a sequence of stages:
messages, then the due changes (`apply_due_shard_changes`), early fences, sealed
successors, due fences and membership (`reconcile_committee_sessions`); a stage
ends when it has nothing left to do.  `schedule_with_vacant` is `RequestOf`,
`activate_with` keeps its name, a refused activation is undone.  What a
committee certifies is unconstrained: a header or seal may carry any frame, so
the properties do not lean on `CommitteeHandoff`.  The shard tree is one parent
and its children, some of which (the spine of a deep split) receive no provers.
Frame numbers are kept as a phase in the epoch, ages of requests and waits of
changes.

`alloc[f][p]` is the stage of prover `p`'s allocation on shard `f`: a `Join` made in
epoch E is confirmed in E+1 (`Confirm`, which no pending change freezes) and
eligible from E+2, or from E+1 where the shard has no eligible prover at all
(`active_on_filter`); a `Leave` ends two epochs later; `effective_status` is what
an epoch's end makes of a stage.  `Join` alone is refused on a shard a pending
change affects.  A split or merge moves allocations of every stage (`Apply`).
Left out of the stages: pause and resume, rejected joins and leaves, kicks, and a
re-confirmation missed; a prover that stops counting for such a reason is
`unseated`.  Messages precede the pass of their frame; in the code those after
the frame's first shard header follow its due changes, which the model shows one
frame later.  In the code the session pass runs every eighth frame.

### UnheldFinalizations

`entries`, `refused` and `expired` are the table of `unheld_finalization.rs`;
`reading` is the reporter between its read of the block store and
`on_finalized`.  A proposal or vote is `Begin` (first lock), `HandOver`
(`finalize_body` for one arrived body, unlocked), `Decide` (second lock),
`Execute` (`await_sequenced_publication`, then private execution).  `Publish`
abstracts `GlobalFinalization`'s worker: the next frame publishes, from the
queue, the clock or the poller.  Finalizations are reported in any order of
views.  `finalize_body` is what the call may answer: bad bytes are refused, and
beyond the admission window the canonical write may fail.  `givenUp` is history:
reports the table dropped over its limit or whose body was not taken.

### BlockStore

The record `store` is the locked struct `Blocks`; each operator is one of its
methods and each action one locked section of a caller.  `pending` is the
finalizer's queue, `report` the reporter between certifying a finalized block,
queueing it, asking the hold and finalizing: the hold is read outside the lock,
as in the code.  `Evict` states the result of the eviction loop rather than the
loop: it drops the shortest initial segment of the eviction order that satisfies
the cap, all of the eligible when none does.  Bytes are counted as the places in
the bodies (`Octets`), so that a sum of sizes is the size of a set.

### AppDelivery

Durable: `bodies` (`SealedBodies`), `recorded` and `implied`
(`FinalizedRecords`), `closing` (`ClosingCertificate`), `cursor`.  The host's
memory is `store`, `announced`, `pending`, `replayed`, `delivered`, `scanned` and
the pass each thread is in; the engine's is `queue`, `kept`, `attempts` and
`sealed_session`.  `OnFinalized` takes reports in any order, so one may arrive
below a pass's snapshot (`unseen`).  `TryDeliver` is one call of `try_deliver`
under the pending lock: a record that cannot be written is logged and its frame
sent anyway (`Failing`), a closing certificate that cannot be written withholds
the seal (`Withheld`).  `DropMaterialized` is `drop_materialized`; `Handle` takes
a message, by `HandleFinalizedFrame` or `HandleSealed`; `Follow` retries a kept
frame and `FollowFails` counts its hard failures, at the limit dropping it for a
shard sync (`ArchiveReplay`, which a sole member does not have).  `Crash` loses
both memories, `Rebuild` only the host's; `Start` restores sealed bodies and
replays records.  A body is absent, a candidate, one whose requests were swapped
under the same header, or sealed.  `handed`, `unwritten` (handed over while a
record it waits on was not written) and `abandoned` (the next frame was dropped at
the retry limit) are history.  Store eviction is left to `BlockStore`; fences that
discard a host's history are left out.

## Runs

| Run | Result | Bounds and why |
|---|---|---|
| `global_finalization` | pass, 242,482 states | Three heights, only the third certified, so the two below are published as its ancestors; forks at heights 2 and 3, so the wrong sibling occurs; candidate and canonical writes that may fail; one attempt, so fall-back occurs; one crash at any step. |
| `global_liveness` | pass, 51,714 states | Heights 1 and 3 certified, 2 refused by the verifier; queue of one, so eviction and refusal occur; window of two, so frames are beyond it; two attempts; one crash; under `LiveSpec`. |
| `submission_attempts` | pass, 600,207 states | Two scopes.  One filter, three kinds, two tasks, epochs of three frames and a fence of two over five frames: fences that end inside and across an epoch, tasks that outlive one.  Two filters and one task over three frames: chunks with different fates. |
| `committee_handoff` | pass, 186,656 states | Three members, one faulty (every quorum is all three, N3f1 of three), three views, a faulty leader in the middle that may show every member another proposal: data, seal, re-seal, and a frame made final by its descendant. |
| `handoff_liveness` | pass, 78,791 states | Two honest members, four views, stable from the third: the two unstable views may leave a notarized, unfinalized seal or data frame. |
| `unheld_finalizations` | pass, 625,229 states | Proposer and voter, two finalizations in either order, a table of one entry so that it overflows, a window of one so that a frame is written canonically, or fails to be; under `LiveSpec`. |
| `block_store` | pass, 532,856 states | Three views and a replayed record, bodies of two sizes under the first digest, none under the last, which is certified and finalized without being held; window and both caps at their smallest. |
| `app_delivery` | pass, 577,369 states | Two frames and the seal, channel of one, two retries, under `LiveSpec`.  Five deployments: a sole member stopped once; one whose commits fail; a committee's node stopped once, with a validation that ends late; reporter and timer racing over few bodies, one swapped and one verified late; records that cannot be written. |
| `session_registry` | pass, 1,051,337 states | Two budgets.  Parent, two leaves and an empty spine child, two provers, two proposals, one join or leave: a split and a merge in either order, or twice the same, with membership changes between.  One shard through three generations, two frames with two identities each, early and due fences, drains of one frame. |
| `registry_vacant`, `registry_settles`, `registry_served` | violated | see findings |

A scope, deployment or budget is a constant of the model that each behavior
picks one of at the start (`scope`, `deployment`, `budget`) and keeps: it bounds
what may happen, so that one run covers situations whose product would be out of
reach.

What the properties say is in the comment above each definition.  In short:
`ExecutedIsFinalized` and `CrashConsistent` are the safety of publication, and
`ImplementsLedger` (refinement of `FinalizedLedger`) what it adds up to for a
client; `FinalizationHeld` and
`NoLostWakeup` that nothing handed over is forgotten; `TailBounded` the limits;
`RefusedNotAdmitted` what the verifier's refusal guarantees;
`FinalizedExecutes` progress.  For submissions, `AttemptsInv` (types,
and one owner per filter), `FenceKept`, `HeldOffOnlyForCause` and `ConfirmRemembered`.

For consensus, `UniqueNotarization` and `FinalizedNotSkipped` are agreement.  For a closing session,
`OneTerminalCheckpoint` and `SealCoversFinalized` say that it has one end and
loses nothing; `SealedCheckpointFinalized` and `CertifiedSealVerifies` that GLOBAL
will be able to accept it, a re-seal at the session base only from its recovery
frame; `SessionCloses` that it happens.  On GLOBAL's side
`EndsAtExecutedTip`, `SuccessorContinues`, `OverlapsOnlyVacant` and
`TargetsHeld` say the same of the records, whatever committees certify, and
`ClosedWhenDue` that a closing session is closed by the pass its fence is due at.
`NoPrivateExecution`, `EntriesInv` (nothing reported is forgotten) and
`CallsProceed` are the late-body protocol; `PendingKept`, `CertifiedRemembered`
and `StoreInv` (the counters are exact and candidates stay within their caps)
the store; `DeliveryInv` (what was handed over is recoverable), `InOrder`,
`EndsHandedOrMaterialized`, `VerifiedBytesSent`, `RecordedMaterializes` and
`HeadClears` the delivery.

### Fairness

`LiveSpec` assumes weak fairness of the worker, of a restart, of activation and
of the step that queues a stored body: they are tasks of a running process.  It
assumes strong fairness that a step eventually answers with something other
than "wait" (`StepAnswers`), and likewise that a canonical record is eventually
executed: the execution lease is released by its holder, the application frames
a GLOBAL frame cites arrive, and a busy source counts as a failure after
`busy_patience`.  No atomic attempt is assumed to succeed and nothing is
assumed of the finalizer, the peers or the network, so the property is about
frames already handed over.

The other liveness specifications assume: in `HandoffLiveness` that voter,
application and worker loops run (weak fairness of each member's steps) and
partial synchrony from one view on; in `UnheldFinalizations` that time passes, a
report that began ends, the worker publishes a frame it holds and callers ask
again, but nothing of the arrival of bodies; in `AppDelivery` that the 250 ms
timer ticks, passes end, the engine drains its channel and retries a kept frame,
archive replay goes on (except for a sole member) and a stopped host is started
again, with nothing assumed against failing commits; in
`SessionRegistry` only that GLOBAL executes frames, since nothing obliges a
committee to sign.

### Findings

* `registry_vacant`: a range that a scheduled merge covers as vacant can still be
  given a first session, and then shares its addresses with the merged shard.
  The run shows it with a prover that regains its seat between scheduling and
  activation.  A join does it too: made in E, before a merge is proposed in E,
  confirmed in E+1, eligible at E+2, where the gate schedules the merge with that
  child vacant and the same frame's pass gives it its first session.
  `OverlapsOnlyVacant`, checked and proved without a condition, says that this is
  the only way two committees come to share a range.
* `registry_settles`: the same merge recorded in two epochs.  The first closes the
  children's sessions and is applied; the second waits on those closed heads
  (`handoff_schedule.rs:404-409`) in every later frame, and the join freeze, which
  "lifts automatically" (`intrinsic.rs:2045-2046`), stays.
* `registry_served`: a merge, then a split that leaves one child without members.
  The child's closed session is still its head, so a prover that joins it later
  gets neither a first session nor a membership change, although such a target
  "receives an ordinary first session once provers become eligible there"
  (`handoff.rs:71-73`).

Limits of what is claimed.  `DeliveryInv` excepts frames handed over while a
record they wait on could not be written: the code delivers them "anyway", and
then only the engine's memory holds them.  `InOrder` excepts a finalization
reported after the pass took its snapshot: `deliver_in_order` sends by the
snapshot.  `RecordedMaterializes` excepts a sole member whose next frame failed to
commit up to the retry limit: the frame is dropped for a shard sync nobody can
serve, and waits for a restart.  `HeadClears` supposes that the later body was verified
before the first scan at the present cursor, or before the cursor reached it:
`drop_materialized` does not repeat a scan of the same cursor and pending count
(`cw_app_seams.rs:2118-2121`), so a body verified after it clears the head only
with the next change of either.  `ClosedWhenDue` excepts a child a merge left out,
which is no longer registered and which the pass no longer visits.

`FenceKept` is stated for the epoch an attempt was begun in: a publication made
after the epoch boundary its task ran across is filed under the earlier epoch
and has no retry fence.  `RefusedNotAdmitted` is stated for heights the pipeline
admits: with the canonical clock ahead of execution, a queued frame is written
to the clock for the in-place path before it is authenticated.

`NoLostWakeup` allows a frame to wait that did not itself fail authentication,
because the code does.  The worker may take frame 1 only as the implied ancestor
of certified frame 3.  When authenticating 3 fails, `reject`
(`global_finalization.rs:587`) records frame 1 under `rejected`; if frame 1 was
finalized and offered meanwhile, `load_durable` now skips it until a peer
supplies it or the process restarts.  The field's comment
(`global_finalization.rs:184`, "Inputs that failed authentication") does not
describe such a frame.  The case needs heights 1 to 3 all certified, the frame at
height 3 refused and a queue of one; the attempt to prove the property with the
conclusion "the frame itself is refused" exposed it.

## Proofs

`GlobalFinalizationProofs` proves, for every chain length, fork point, set of
certified heights, set of refused frames, limits and number of crashes that
satisfy `FinalizationAssumption`:

* `TypeCorrect`: `Spec => []TypeOK`
* `ExecutionSafe`: `Spec => []ExecutedIsFinalized`
* `CrashSafe`: `Spec => []CrashConsistent`
* `AnnouncedSafe`: `Spec => []AnnouncedIsCanonical`
* `ClockFirst`: `Spec => ExecutesCanonicalRecord`
* `LedgerRefined`: `Spec => ImplementsLedger`

* `TailSafe`: `Spec => []TailBounded`
* `HeldSafe`: `Spec => []FinalizationHeld`
* `WakeupSafe`: `Spec => []NoLostWakeup`
* `RefusedSafe`: `Spec => RefusedNotAdmitted`

The first six follow from `Invariance`, `Spec => []IInv`.  `ExecutedIsFinalized` is not
inductive: what is executed comes from the worker's hands, which got it from
the clock, the queue, the candidates or a descendant.  `IInv` therefore adds

* `StoreOnChain`: canonical records, certified candidates, queued, offered and
  announced frames are frames of the finalized chain (uncertified candidates
  need not be: this is where the fork lives);
* `WorkerOnChain`: the frame in the worker's hands is the chain's at the height
  its place in the loop implies, and an implied ancestor comes with a certified
  descendant;
* `MarkerOnChain`: the marker, its relation to the cursor at each place of the
  in-place path, and the receipt;
* `ClockCoversState`: every executed height has its canonical record.

`LedgerRefined` maps the canonical records to the ledger's clock, `applied` to
its ledger and `announced` to itself; with `IInv` before and after a step, each
action records, executes or announces finalized frames or changes nothing the
ledger sees.  A crash and a restart are stuttering steps: that is durability.

The proof has one step per action; actions that only move data inside
`StoreOnChain` share the lemmas about `Insert`, `Offered`, `Restrict` and
`Ancestor`.

The last four rest on a second invariant above `IInv`, `HInv` (`HeldInvariance`),
about what is *not* lost:

* `TailBounded`: the canonical head never falls, because the clock only grows
  along the chain, so what was within the window stays within it; a full queue
  gives up its highest frame;
* `DurablyHeld`: while candidate writes succeed, every frame offered, taken or
  noted is a certified candidate or canonical.  This is what makes an eviction
  from the queue and a crash harmless;
* `ImpliedOnChain` and `RejectedForCause`: where an implied ancestor and a
  rejected frame come from;
* `Awake`: unless a signal was left, a taken frame of the next height is among the
  certified candidates when the worker, having found no canonical record, is
  about to read them, and rejected when it rests.

`SimplexVotesProofs` proves `UniqueNotarization`, `FinalizedNotNullified` and
`FinalizedNotSkipped` for every committee whose quorums pairwise share an honest
member, every choice of leaders, payloads and number of views.  The invariant
`VotesInv` adds to the types that a member notarizes one proposal a view
(`OneNotarize`), never both nullifies and finalizes (`OneVerdict`), that a
finalize vote has its notarization behind it (`FinalizeBacked`), and that a
notarize vote has its parent's notarization and the nullifications between
(`NotarizeBacked`).  Each property then takes the honest member two quorums
share.

`CommitteeHandoffProofs` proves the four properties of a closing session for
every committee, drain length and assignment of roots, and that every hand-off
step is a step of the votes (`HandoffImplementsVotes`).  Its invariant says of
each seal vote what the voter knew of the chain below it: every earlier view is
nullified or notarized a block consistent with the seal (`AboveSeals`), only
seals lie between the seal and its frame (`OnlySealsSince`), the frame is
finalized (`NamesFinalized`), and a member's tip was finalized in a view it has
left (`TipFinal`).

`UnheldFinalizationsProofs` proves `EntriesInv` and `NoPrivateExecution` from
`UnheldAssumption`: for every number of views and callers, table size, window
and choice of bodies peers may send.  `IInv` adds that a good body a call has handed
over stays in the pipeline until its frame publishes (`DoneHeld`), that whatever was queued is at or
below the `finalized` that calls wait for (`QueuedNoted`), and what a call still
knows when it stops waiting (`CallsKnow`): each view it saw has published, was
given up for one of the stated reasons, or lies at or below the publication it
goes on to wait for.  A report between the two locks is the hard case: the table
is read again under the second lock.

`SubmissionAttemptsProofs` proves `AttemptsInv`, `HeldOffOnlyForCause`,
`ConfirmRemembered` and `FenceKept` from `SubmissionAssumption`: for every set of
filters, kinds and tasks, epoch length, fence and rejoin window.  `IInv` says that
a reservation in flight belongs to exactly one task (`Exclusive`), that one not in
flight stands for a publication at the same frame (`SettledWasSent`: nothing is
held off without cause), and conversely that a publication of the cycle's epoch
is past its fence or still has its reservation (`FencedIsReserved`: nothing is
begun too early).  That the two directions survive `prune`, a restart of the
cycle in a later epoch and a partly published attempt is the proof.

`AppDeliveryProofs` proves `DeliveryInv`, `InOrder`, `EndsHandedOrMaterialized` and
`VerifiedBytesSent` from `DeliveryAssumption`: for every number of frames, channel
capacity, retry limit, set of threads and deployment.  `IInv` describes each
holder of a frame: the disk (`DiskHolds`: only what is final is recorded), the
host (`HostHolds`: a running host's store holds every sealed body), each thread's
pass (`ThreadsHold`: its snapshot has every pending finalization below the one it
delivers, but for those reported since), the engine (`EngineHolds`), and the
records behind what was handed over (`HandedHolds`: written before the frames are
sent, unless the write failed, and pruned only at the cursor).  A step between a
thread's snapshot and its delivery may add to `pending`, as `unseen` notes, or
materialize.

`SessionRegistryProofs` proves `TypeOK`, `OneLivePerShard`, `EndsAtExecutedTip`,
`SuccessorContinues` and `TargetsHeld` from `ShardAssumption`, `FrameAssumption` and
`NoCheckpointAssumption`: for every set of shards, provers, digests, frames and
budget.  `Registry` is a conjunction over the three records that change
together: a session ends at most once and at the last frame executed (`Settled`);
it starts where the one before it ended and names the request it closes for
(`Placed`); a request finds its sources as it left them (`Asks`); and an open one
has its targets reserved, each still at the generation it was made for
(`Reserves`).  It is stated as an operator of the records, so that a frame of
GLOBAL, which executes several of the operations in turn, is proved operation by
operation.

`RangeSafe` proves `OverlapsOnlyVacant`, about a parent and its children, for every
number of proposals, joins, leaves and seat changes.  `TInv` (`RangeInvariance`)
follows a change from its proposal to the flip of the grid.  The registered
shards are the parent alone or the children alone (`Gridded`).  A scheduled change
is linked to its request (`Links`): a split waits for the parent's last session; a
merge waits for the last session of each child it did not record as vacant, and
no later request asks the parent to close, so a vacant child that gets a session
meanwhile is one the merge left out.  A request is one change's and at most one
merge waits (`OneEach`): scheduling reserves the parent, and activation closes the
children.  Every open request
belongs to a membership change or to one pending change (`Owners`), so successors
start only in place of a live session or where a change awaits them, and a live
session is on a registered shard, on one that an activated change is about to
register, or on a child left out (`Living`, `LeftOut`).  In the second case the
sources, which are the other side, have closed, except for the children left
out.  A merge may be scheduled in the gate before an activated split of the same
shards is applied; `MergeHolds` allows for it, and the end of the gate shows that
the split is applied first.

`BlockStoreProofs` proves `StoreInv`, `CertifiedRemembered` and `PendingKept` from
`LimitsAssumption`: for every cap, window, size of bodies and number of views.
For `StoreInv` (`AInv`): bytes are counted as a set, so what each path counts in
and out is a law of cardinality; of the two caps, the first evicts every
candidate at worst and the second only takes more away.  For the others: a
digest to be taken was certified at its view, so the certified view, and the view
of any body stored under it, are at or above it (`Reaches`); the hold the reporter
asked is at or below every pending digest, as `pending` only shrinks between the
question and `finalize`; and floor and window stay at or below the hold.

Each of these invariants was checked with TLC on the run's own instance before
it was proved.  Every `ASSUME` is evaluated by TLC in the runs; none restricts
more than types, non-zero limits, or distinctness of names, except the quorum
assumption of `SimplexVotes`.

`AnnouncedIsCanonical`, `ExecutesCanonicalRecord`, `FinalizedNotNullified`,
`OneLivePerShard` (a conjunct of `OneCommitteePerRange` and of
`OverlapsOnlyVacant`) and the inductive invariants are proved and not given a run of their
own.

*Only model-checked.*

* All liveness, which is out of the prover's reach: `FinalizedExecutes`,
  `SessionCloses`, `CallsProceed`, `RecordedMaterializes`, `HeadClears`.
* `ClosedWhenDue`, which needs that a frame's pass reaches every registered shard.

Every other safety property of the passing runs is proved, none with a condition
on the constants beyond the named assumptions.

## Plan

1. Theorems: `ClosedWhenDue`, from `TInv` and the stages of a frame.
2. Models: the supervisors (`quil-lifecycle`, `cw_host_supervisor.rs`); the
   presence and silence evidence behind an early fence; the closing
   certificate's submission loop, composed with `SessionRegistry`; the worker
   allocator; the prover lifecycle's joins, confirms and leaves; the smaller
   machines (`engine_state.rs`, `halt_state.rs`, `spawn_gate.rs`,
   `shard_drain.rs`, `recovery_turns.rs`, `relay_reoffer.rs`).

## Not modelled

Byte formats, hashing, signatures and proofs (a certificate is valid or not);
what requests do to the state; time as durations; the transport, batcher and
resolver of the Simplex engine; networking beyond loss, duplication and
reordering; RPC, client, explorer and the multi-party-computation crates.

The workspace has some 850,000 lines, most of them vendored libraries,
cryptography, trees, command-line and display code, tests and metrics.  The
models cover the parts whose correctness depends on the order of steps; they
stand for a small share of the lines.

## Running

    tlc -workers 2 -config MCGlobalFinalization.cfg MCGlobalFinalization
    tlapm GlobalFinalizationProofs.tla

and likewise for every run of `PROJECT.json` and every `*Proofs.tla`.
