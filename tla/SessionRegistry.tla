-------------------------- MODULE SessionRegistry --------------------------
(***************************************************************************)
(* GLOBAL's records of the committee sessions of an application's shards:  *)
(* which session each shard runs, which request asks it to close, where it *)
(* ended, and which successors that end authorized.                        *)
(*                                                                         *)
(* The records are written while GLOBAL executes its frames.  A frame      *)
(* executes messages (shard frame headers, closing certificates, split and *)
(* merge proposals) and one maintenance pass: the due splits and merges    *)
(* first, then, over the registered shards, early fences, sealed           *)
(* successors, due fences and membership.  The pass is a program of        *)
(* stages; a stage ends once it has nothing left to do.                    *)
(*                                                                         *)
(* The shards are a parent and the children a split registers in its       *)
(* place.  A split names Leaves, which receive the parent's provers; the   *)
(* other children (the spine of a deep split) are registered empty.        *)
(*                                                                         *)
(* Every height-gated rule is in force, and legacy history is over.  What  *)
(* a committee certifies is not constrained here: headers and seals may    *)
(* carry any frame, so the properties hold whatever a committee signs.     *)
(* The model's time is in frames; a request's age and a change's wait are  *)
(* kept in place of absolute frame numbers.                                *)
(***************************************************************************)
EXTENDS Naturals, Sequences, FiniteSets

CONSTANTS
  Parent, Kids, Leaves, \* the shard filters
  Provers,
  Digests, Genesis,     \* frame identities, and that of a session's base
  NoCheckpoint,
  EpochFrames,          \* frames in an epoch; every frame has a session pass
  FenceAfterEpochs,     \* epochs a closing session may take to seal
  MaxDrain,             \* MAX_DRAIN_HEADERS
  MaxFrame,             \* bound: the shard frames of headers and seals
  Budgets               \* bounds: what may happen in one behavior

Filters == {Parent} \cup Kids

Kinds == {"split", "merge"}

ASSUME ShardAssumption ==
  /\ Parent \notin Kids
  /\ Leaves \subseteq Kids
  /\ Leaves # {}

\* The shards registered at first; the highest shard frame; splits and merges
\* proposed; provers joining or leaving a shard; provers losing or regaining
\* their seat; whether sessions are fenced before their time.
Budget ==
  [grids : SUBSET {{Parent}, Kids}, frames : 0..MaxFrame, proposals : Nat,
   moves : Nat, seatings : Nat, early : BOOLEAN]

ASSUME FrameAssumption ==
  /\ EpochFrames \in Nat \ {0}
  /\ FenceAfterEpochs \in Nat \ {0}
  /\ MaxDrain \in Nat \ {0}
  /\ MaxFrame \in Nat
  /\ Genesis \notin Digests
  /\ \A b \in Budgets : b \in Budget

Checkpoints == [frame : 0..MaxFrame, digest : Digests \cup {Genesis}]

ASSUME NoCheckpointAssumption == NoCheckpoint \notin Checkpoints

VARIABLES
  grid,      \* the registered shards
  session,   \* the sessions of each shard, in generation order; the last is its head
  requests,  \* the closing requests, by number
  reserved,  \* the last request naming the shard as a target; 0 for none
  pending,   \* the proposed splits and merges not yet consumed
  alloc,     \* by shard and prover: the stage of its allocation
  unseated,  \* provers of a shard its committees leave out: release, absence, silence
  phase,     \* the frame's place in its epoch
  stage,     \* what the frame is executing
  proposed, moves, seatings,
  budget     \* the behavior's bounds, which do not change

vars == <<grid, session, requests, reserved, pending, alloc, unseated, phase,
          stage, proposed, moves, seatings, budget>>

records == <<session, requests, reserved>>
people == <<alloc, unseated, moves, seatings>>

----------------------------------------------------------------------------
(* Reading and writing the records.                                        *)

\* A join made in one epoch is confirmed in the next and active from the one
\* after; a leaver serves the epoch it leaves in and the next.
Stages == {"none", "joined", "joining", "confirmed", "active", "left", "leaving"}

Staged(f, stages) == {p \in Provers : alloc[f][p] \in stages}

\* The provers eligible for a shard's committee; on a shard without any, those
\* confirmed for the next epoch.
active_on_filter(f) ==
  LET strict == Staged(f, {"active", "left", "leaving"})
  IN  IF strict # {} THEN strict ELSE Staged(f, {"confirmed"})

all_on_filter(f) == Staged(f, Stages \ {"none"})

\* A committee desired for a shard: its eligible provers less the ones left out.
desired_members(f) == active_on_filter(f) \ unseated[f]

HasHead(f) == session[f] # <<>>
head(f) == session[f][Len(session[f])]

first_pass_of_epoch == phase = 0
fence_due(r) == r.age >= FenceAfterEpochs * EpochFrames

\* The frame a session extends, as a checkpoint.
BaseOf(x) == [frame |-> x.base, digest |-> Genesis]

\* How a session ended: its seal, or GLOBAL's fence.
EndOf(x) == IF x.seal # NoCheckpoint THEN x.seal ELSE x.fence
terminal(ses, s) == EndOf(ses[s[1]][s[2]])

is_reserved(f) == reserved[f] # 0 /\ ~requests[reserved[f]].activated

Sources(r) == {s[1] : s \in r.sources}

membership_request(r, f) ==
  /\ Sources(r) = {f}
  /\ DOMAIN r.targets = {f}
  /\ r.vacant = {}

NewSession(base, members) ==
  [base |-> base, members |-> members, status |-> "active", request |-> 0,
   tip |-> NoCheckpoint, seal |-> NoCheckpoint, fence |-> NoCheckpoint]

set_status(ses, ids, status, id) ==
  [f \in Filters |-> [g \in DOMAIN ses[f] |->
     IF <<f, g>> \in ids THEN [ses[f][g] EXCEPT !.status = status, !.request = id]
                         ELSE ses[f][g]]]

\* Advance the executed tip if the frame is higher.
record_session_tip(x, tip) ==
  IF x.tip # NoCheckpoint /\ x.tip.frame >= tip.frame THEN x
                                                      ELSE [x EXCEPT !.tip = tip]

\* Mutant: the successors' generation is counted from a source's.
RequestOf_source(sources, vacant, targets) ==
  [sources |-> {<<f, Len(session[f])>> : f \in sources},
   vacant |-> vacant,
   targets |-> targets,
   generations |-> [f \in DOMAIN targets |-> Len(session[CHOOSE g \in sources : TRUE]) + 1],
   age |-> 0,
   activated |-> FALSE]

\* The request for sources to close and targets to follow them.
RequestOf(sources, vacant, targets) ==
  [sources |-> {<<f, Len(session[f])>> : f \in sources},
   vacant |-> vacant,
   targets |-> targets,
   generations |-> [f \in DOMAIN targets |-> Len(session[f]) + 1],
   age |-> 0,
   activated |-> FALSE]

reserve(id, targets) ==
  [f \in Filters |-> IF f \in DOMAIN targets THEN id ELSE reserved[f]]

----------------------------------------------------------------------------
(* Authorizing successors.                                                 *)

AllEnded(ses, r) == \A s \in r.sources : terminal(ses, s) # NoCheckpoint

\* activate fails when a target changed after the request was authorized, or
\* its previous session is not closed.
refused(ses, r) ==
  \E f \in DOMAIN r.targets :
    \/ Len(ses[f]) + 1 # r.generations[f]
    \/ /\ ses[f] # <<>>
       /\ <<f, Len(ses[f])>> \notin r.sources
       /\ ses[f][Len(ses[f])].status # "closed"

\* Mutant: the successor starts from its predecessor's base.
activate_with_base(ses, id, r, seated) ==
  LET closed == set_status(ses, r.sources, "closed", id)
  IN  [f \in Filters |->
         IF f \in DOMAIN seated /\ seated[f] # {}
         THEN Append(closed[f],
                NewSession(IF closed[f] = <<>> THEN 0
                           ELSE closed[f][Len(closed[f])].base,
                           seated[f]))
         ELSE closed[f]]

\* Mutant: the sources of a split or merge are left as they are.
activate_with_open(ses, id, r, seated) ==
  LET closed == IF DOMAIN r.targets = Sources(r)
                THEN set_status(ses, r.sources, "closed", id) ELSE ses
  IN  [f \in Filters |->
         IF f \in DOMAIN seated /\ seated[f] # {}
         THEN Append(closed[f],
                NewSession(IF closed[f] = <<>> THEN 0
                           ELSE EndOf(closed[f][Len(closed[f])]).frame,
                           seated[f]))
         ELSE closed[f]]

\* Close the sources and create a session on every target that has members,
\* from the checkpoint its shard's last session ended at.
activate_with(ses, id, r, seated) ==
  LET closed == set_status(ses, r.sources, "closed", id)
  IN  [f \in Filters |->
         IF f \in DOMAIN seated /\ seated[f] # {}
         THEN Append(closed[f],
                NewSession(IF closed[f] = <<>> THEN 0
                           ELSE EndOf(closed[f][Len(closed[f])]).frame,
                           seated[f]))
         ELSE closed[f]]

\* What activating request id leaves: nothing new while a source is closing,
\* once activated, or when it is refused and undone.
Activates(ses, id, r) == ~r.activated /\ AllEnded(ses, r) /\ ~refused(ses, r)

activate(ses, id, r, seated) ==
  IF Activates(ses, id, r) THEN activate_with(ses, id, r, seated) ELSE ses

\* Mutant: the request counts as activated with its first source's end.
MarkActivated_first(ses, id, r) == [requests EXCEPT ![id].activated = TRUE]

MarkActivated(ses, id, r) ==
  [requests EXCEPT ![id].activated = @ \/ Activates(ses, id, r)]

\* The committee a membership successor takes: its shard's eligible provers
\* now, if there are any; else, and for a split or merge, the request's.
fenced_committee(r) ==
  [f \in DOMAIN r.targets |->
     IF membership_request(r, f) /\ desired_members(f) # {}
     THEN desired_members(f) ELSE r.targets[f]]

\* The fence is the executed tip, or the base of a session without one.
write_fence(x) == IF x.tip = NoCheckpoint THEN BaseOf(x) ELSE x.tip

----------------------------------------------------------------------------
(* Messages.                                                               *)

Executing == stage = "messages"

\* A session's end cuts its frames off, historical ones included.
within_terminal(x, cp) ==
  EndOf(x) # NoCheckpoint =>
    cp.frame <= EndOf(x).frame /\ (cp.frame = EndOf(x).frame => cp = EndOf(x))

\* A certified data frame of session g: it extends the session's base and does
\* not pass its end.
verify_frame(f, g, cp) ==
  /\ cp.digest \in Digests
  /\ cp.frame > session[f][g].base
  /\ within_terminal(session[f][g], cp)

FrameHeader(f, g, cp) ==
  /\ Executing
  /\ verify_frame(f, g, cp)
  /\ session' = [session EXCEPT ![f][g] = record_session_tip(@, cp)]
  /\ UNCHANGED <<grid, requests, reserved, pending, people, phase, stage, proposed, budget>>

\* The closing certificate alone: its session is closing for a request an
\* earlier frame made and was not fenced.
verify_closing_certificate(f, g, cp) ==
  LET x == session[f][g]
  IN  /\ x.status # "active"
      /\ requests[x.request].age > 0
      /\ x.fence = NoCheckpoint
      /\ cp.frame >= x.base
      /\ cp.frame = x.base <=> cp.digest = Genesis

\* The last frame GLOBAL executed of a session, or its base.
Executed(x) == IF x.tip = NoCheckpoint THEN BaseOf(x) ELSE x.tip

\* A drain that ends below the checkpoint is executed, with no seal: its last
\* header carries the session's own certificate.
PartialDrain(f, g, cp, last) ==
  /\ Executing
  /\ verify_closing_certificate(f, g, cp)
  /\ last.frame \in Executed(session[f][g]).frame + 1 .. Executed(session[f][g]).frame + MaxDrain
  /\ last.frame < cp.frame
  /\ verify_frame(f, g, last)
  /\ session' = [session EXCEPT ![f][g] = record_session_tip(@, last)]
  /\ UNCHANGED <<grid, requests, reserved, pending, people, phase, stage, proposed, budget>>

\* Mutant: a checkpoint the executed tip has passed is accepted.
verify_submission_past(x, cp) ==
  /\ Executed(x).frame >= cp.frame
  /\ x.seal \in {NoCheckpoint, cp}

\* The executed tip IS the checkpoint, and no other seal was supplied.
verify_submission_at(x, cp) ==
  /\ Executed(x) = cp
  /\ x.seal \in {NoCheckpoint, cp}

\* The session once the submission's drain headers are executed: the frames
\* above the tip through the checkpoint, at most MaxDrain of them, or none.
Drained(x, cp, drain) == IF drain THEN record_session_tip(x, cp) ELSE x

drain_shape(x, cp, drain) ==
  drain => cp.frame \in Executed(x).frame + 1 .. Executed(x).frame + MaxDrain

\* A membership request's seal is recorded and its successor left to the next
\* pass; a split's or merge's last seal authorizes the successors.
apply_submission(f, g, cp, drain) ==
  LET x == session[f][g]
      id == x.request
      r == requests[id]
      sealed == [session EXCEPT ![f][g] = [Drained(x, cp, drain) EXCEPT !.seal = cp]]
  IN  /\ Executing
      /\ verify_closing_certificate(f, g, cp)
      /\ drain_shape(x, cp, drain)
      /\ verify_submission_at(Drained(x, cp, drain), cp)
      /\ IF r.activated
         THEN session' = [session EXCEPT ![f][g] = Drained(x, cp, drain)] /\ UNCHANGED requests
         ELSE IF membership_request(r, f)
         THEN session' = sealed /\ UNCHANGED requests
         ELSE /\ session' = activate(sealed, id, r, r.targets)
              /\ requests' = MarkActivated(sealed, id, r)
      /\ UNCHANGED <<grid, reserved, pending, people, phase, stage, proposed, budget>>

\* A change is recorded, to take effect two epochs later.  One recorded for the
\* same shard and epoch is replaced.
put_pending_shard_change(kind) ==
  /\ Executing
  /\ proposed < budget.proposals
  /\ proposed' = proposed + 1
  /\ pending' = {c \in pending : c.wait # 2}
                  \cup {[number |-> proposed + 1, kind |-> kind, wait |-> 2, request |-> 0]}
  /\ UNCHANGED <<grid, records, people, phase, stage, budget>>

invoke_shard_split == put_pending_shard_change("split")
invoke_shard_merge == put_pending_shard_change("merge")

\* The shards a change removes from the grid, and the ones it registers.
Old(kind) == IF kind = "split" THEN {Parent} ELSE Kids
New(kind) == IF kind = "split" THEN Kids ELSE {Parent}

affects_shard(f) == \E c \in pending : f \in (IF c.kind = "split" THEN {Parent} \cup Leaves ELSE Filters)

MoveTo(f, p, to) ==
  /\ alloc' = [alloc EXCEPT ![f][p] = to]
  /\ UNCHANGED <<grid, records, pending, unseated, seatings, phase, stage, proposed, budget>>

\* A prover asks to join a registered shard no pending change affects.
Join(p, f) ==
  /\ Executing
  /\ moves < budget.moves
  /\ f \in grid
  /\ ~affects_shard(f)
  /\ alloc[f][p] = "none"
  /\ MoveTo(f, p, "joined")
  /\ moves' = moves + 1

\* It confirms in the next epoch, whatever has become pending by then.
Confirm(p, f) ==
  /\ Executing
  /\ f \in grid
  /\ alloc[f][p] = "joining"
  /\ MoveTo(f, p, "confirmed")
  /\ UNCHANGED moves

Leave(p, f) ==
  /\ Executing
  /\ moves < budget.moves
  /\ alloc[f][p] \in {"active", "confirmed"}
  /\ MoveTo(f, p, "left")
  /\ moves' = moves + 1

\* What an epoch's end makes of an allocation's stage.
effective_status ==
  [none |-> "none", joined |-> "joining", joining |-> "none", confirmed |-> "active",
   active |-> "active", left |-> "leaving", leaving |-> "none"]

\* A prover of the shard falls below the minimum release, or meets it again;
\* or returns from an exclusion.
Seating(p, f) ==
  /\ Executing
  /\ seatings < budget.seatings
  /\ p \in all_on_filter(f)
  /\ unseated' = [unseated EXCEPT ![f] = IF p \in @ THEN @ \ {p} ELSE @ \cup {p}]
  /\ seatings' = seatings + 1
  /\ UNCHANGED <<grid, records, pending, alloc, moves, phase, stage, proposed, budget>>

----------------------------------------------------------------------------
(* The due splits and merges.                                              *)

SourcesOf(c) == {f \in Old(c.kind) : HasHead(f)}

\* A split whose parent an earlier change removed.
stale_split(c) == c.kind = "split" /\ Parent \notin grid

Due(c) == stage = "gate" /\ c.wait = 0

Consume(c) == pending' = pending \ {c}

\* No committee ever formed on the change's shards, and none is on its way.
Ungoverned(c) ==
  c.request = 0 /\ \A f \in Old(c.kind) : ~HasHead(f) /\ ~is_reserved(f)

\* The change has sources, each runs an active session, and no other shard it
\* removes awaits one.
Schedulable(c) ==
  /\ c.request = 0
  /\ SourcesOf(c) # {}
  /\ \A f \in Old(c.kind) :
       IF HasHead(f) THEN head(f).status = "active" ELSE ~is_reserved(f)

\* The provers that move to the successors.
Movers(c) == UNION {active_on_filter(f) : f \in SourcesOf(c)}

GateApplies(c) ==
  /\ ~stale_split(c)
  /\ Ungoverned(c) \/ (c.request # 0 /\ requests[c.request].activated)

GateDrops(c) == ~stale_split(c) /\ Schedulable(c) /\ Movers(c) = {}

GateSchedules(c) ==
  /\ ~stale_split(c)
  /\ Schedulable(c)
  /\ Movers(c) # {}
  /\ \A f \in New(c.kind) : ~is_reserved(f) /\ (HasHead(f) => head(f).status = "closed")

\* A split spreads the parent's provers evenly over its leaves.
Spread(provers) ==
  {a \in [provers -> Leaves] :
     \A x, y \in Leaves : Cardinality({p \in provers : a[p] = x})
                             <= Cardinality({p \in provers : a[p] = y}) + 1}

Committees(c) ==
  IF c.kind = "merge" THEN {[f \in {Parent} |-> Movers(c)]}
  ELSE {[f \in Kids |-> {p \in Movers(c) : a[p] = f}] : a \in Spread(Movers(c))}

ConsumeStale(c) ==
  /\ Due(c)
  /\ stale_split(c) \/ GateDrops(c)
  /\ Consume(c)
  /\ UNCHANGED <<grid, records, people, phase, stage, proposed, budget>>

\* The sources are asked to close; the change waits for them.
GateSchedule(c) ==
  /\ Due(c)
  /\ GateSchedules(c)
  /\ \E targets \in Committees(c) :
       LET id == Len(requests) + 1
           r == RequestOf(SourcesOf(c), Old(c.kind) \ SourcesOf(c), targets)
       IN  /\ requests' = Append(requests, r)
           /\ session' = set_status(session, r.sources, "sealing", id)
           /\ reserved' = reserve(id, targets)
           /\ pending' = (pending \ {c}) \cup {[c EXCEPT !.request = id]}
  /\ UNCHANGED <<grid, people, phase, stage, proposed, budget>>

\* An allocation keeps its stage when it moves.  Those of several children become
\* one of the parent, the last one written.
Merged(to) ==
  \A p \in Provers :
    LET stages == {alloc[k][p] : k \in Kids} \ {"none"}
    IN  to[p] \in IF stages = {} THEN {alloc[Parent][p]} ELSE stages

\* The grid flips and every allocation moves: a split's committees to the shards
\* they were authorized for, any other prover to one of the leaves.
Apply(c) ==
  /\ Due(c)
  /\ GateApplies(c)
  /\ Consume(c)
  /\ grid' = (grid \ Old(c.kind)) \cup New(c.kind)
  /\ \/ /\ c.kind = "merge"
        /\ \E to \in [Provers -> Stages] :
             /\ Merged(to)
             /\ alloc' = [f \in Filters |-> [p \in Provers |-> IF f = Parent THEN to[p] ELSE "none"]]
     \/ /\ c.kind = "split"
        /\ \E a \in [all_on_filter(Parent) -> Leaves] :
             /\ c.request # 0 =>
                  \A p \in all_on_filter(Parent), f \in Leaves :
                    p \in requests[c.request].targets[f] => a[p] = f
             /\ alloc' = [f \in Filters |-> [p \in Provers |->
                  IF f = Parent THEN "none"
                  ELSE IF p \in all_on_filter(Parent) /\ a[p] = f THEN alloc[Parent][p]
                  ELSE alloc[f][p]]]
  /\ UNCHANGED <<records, unseated, moves, seatings, phase, stage, proposed, budget>>

----------------------------------------------------------------------------
(* The session pass over the registered shards.                            *)

Closing(f) == HasHead(f) /\ head(f).status = "sealing"
RequestFor(f) == requests[head(f).request]

\* The session function with a fence written on the head session of a shard.
Fenced(ses, f) ==
  [ses EXCEPT ![f][Len(ses[f])].fence = write_fence(ses[f][Len(ses[f])])]

\* A session that stalls because members are absent or silent is fenced early
\* for a committee without them.
fence_early(f, committee) ==
  LET id == IF Closing(f) THEN head(f).request ELSE Len(requests) + 1
      r == IF Closing(f) THEN RequestFor(f)
           ELSE RequestOf({f}, {}, [g \in {f} |-> committee])
      ses == Fenced(IF Closing(f) THEN session
                    ELSE set_status(session, r.sources, "sealing", id), f)
  IN  /\ stage = "early" /\ budget.early
      /\ seatings < budget.seatings
      /\ f \in grid /\ HasHead(f)
      /\ \/ Closing(f) /\ EndOf(head(f)) = NoCheckpoint
         \/ head(f).status = "active" /\ ~is_reserved(f)
      /\ membership_request(r, f)
      /\ Activates(ses, id, r)
      /\ session' = activate(ses, id, r, [g \in {f} |-> committee])
      /\ requests' = IF Closing(f) THEN [requests EXCEPT ![id].activated = TRUE]
                     ELSE Append(requests, [r EXCEPT !.activated = TRUE])
      /\ reserved' = IF Closing(f) THEN reserved ELSE reserve(id, r.targets)
      /\ unseated' = [unseated EXCEPT ![f] = @ \cup (desired_members(f) \ committee)]
      /\ seatings' = seatings + 1
      /\ UNCHANGED <<grid, pending, alloc, moves, phase, stage, proposed, budget>>

SealedSuccessorDue(f) ==
  /\ Closing(f)
  /\ head(f).seal # NoCheckpoint
  /\ membership_request(RequestFor(f), f)
  /\ Activates(session, head(f).request, RequestFor(f))

activate_sealed_successors(f) ==
  LET id == head(f).request
      r == RequestFor(f)
  IN  /\ stage = "sealed"
      /\ f \in grid
      /\ SealedSuccessorDue(f)
      /\ session' = activate(session, id, r, fenced_committee(r))
      /\ requests' = MarkActivated(session, id, r)
      /\ UNCHANGED <<grid, reserved, pending, people, phase, stage, proposed, budget>>

\* Mutant: only a membership change's source is fenced.
FenceDue_membership(f) ==
  /\ Closing(f)
  /\ EndOf(head(f)) = NoCheckpoint
  /\ membership_request(RequestFor(f), f)
  /\ fence_due(RequestFor(f))

FenceDue(f) ==
  /\ Closing(f)
  /\ EndOf(head(f)) = NoCheckpoint
  /\ fence_due(RequestFor(f))

\* The pass's fences stand or are undone together: one whose activation is
\* refused undoes them all.
FencesStand ==
  LET ses == [f \in Filters |-> IF f \in grid /\ FenceDue(f) THEN Fenced(session, f)[f]
                                                             ELSE session[f]]
  IN  \A f \in grid :
        FenceDue(f) => ~(AllEnded(ses, RequestFor(f)) /\ refused(ses, RequestFor(f)))

fence_stalled_sources(f) ==
  LET id == head(f).request
      r == RequestFor(f)
      ses == Fenced(session, f)
  IN  /\ stage = "due"
      /\ f \in grid
      /\ FenceDue(f)
      /\ FencesStand
      /\ session' = activate(ses, id, r, fenced_committee(r))
      /\ requests' = MarkActivated(ses, id, r)
      /\ UNCHANGED <<grid, reserved, pending, people, phase, stage, proposed, budget>>

\* A registered shard that never had a session receives its first one.
FirstSessionDue(f) ==
  /\ first_pass_of_epoch
  /\ desired_members(f) # {}
  /\ ~HasHead(f)
  /\ ~is_reserved(f)

MembershipDue(f) ==
  /\ first_pass_of_epoch
  /\ desired_members(f) # {}
  /\ HasHead(f)
  /\ head(f).status = "active"
  /\ head(f).members # desired_members(f)

initialize(f) ==
  /\ stage = "membership"
  /\ f \in grid
  /\ FirstSessionDue(f)
  /\ session' = [session EXCEPT ![f] = <<NewSession(0, desired_members(f))>>]
  /\ UNCHANGED <<grid, requests, reserved, pending, people, phase, stage, proposed, budget>>

reconcile_membership(f) ==
  LET id == Len(requests) + 1
      r == RequestOf({f}, {}, [g \in {f} |-> desired_members(f)])
  IN  /\ stage = "membership"
      /\ f \in grid
      /\ MembershipDue(f)
      /\ requests' = Append(requests, r)
      /\ session' = set_status(session, r.sources, "sealing", id)
      /\ reserved' = reserve(id, r.targets)
      /\ UNCHANGED <<grid, pending, people, phase, stage, proposed, budget>>

----------------------------------------------------------------------------
\* The stages of a frame, in order; each ends with nothing left for it to do.
NextStage ==
  /\ \/ stage = "messages" /\ stage' = "gate"
     \/ /\ stage = "gate" /\ stage' = "early"
        /\ \A c \in pending : c.wait = 0 =>
             ~(stale_split(c) \/ GateDrops(c) \/ GateSchedules(c) \/ GateApplies(c))
     \/ stage = "early" /\ stage' = "sealed"
     \/ stage = "sealed" /\ stage' = "due" /\ \A f \in grid : ~SealedSuccessorDue(f)
     \/ stage = "due" /\ stage' = "membership" /\ (FencesStand => \A f \in grid : ~FenceDue(f))
  /\ UNCHANGED <<grid, records, pending, people, phase, proposed, budget>>

\* The next frame begins; its number ages the requests and, at an epoch's
\* first frame, the allocations, and brings the pending changes closer.
NextFrame ==
  LET new_phase == (phase + 1) % EpochFrames
  IN  /\ stage = "membership"
      /\ \A f \in grid : ~FirstSessionDue(f) /\ ~MembershipDue(f)
      /\ stage' = "messages"
      /\ phase' = new_phase
      /\ requests' = [i \in DOMAIN requests |->
           IF fence_due(requests[i]) THEN requests[i] ELSE [requests[i] EXCEPT !.age = @ + 1]]
      /\ pending' = {IF new_phase = 0 /\ c.wait > 0 THEN [c EXCEPT !.wait = @ - 1] ELSE c
                       : c \in pending}
      /\ alloc' = IF new_phase # 0 THEN alloc
                  ELSE [f \in Filters |-> [p \in Provers |-> effective_status[alloc[f][p]]]]
      /\ UNCHANGED <<grid, session, reserved, unseated, moves, seatings, proposed, budget>>

Init ==
  /\ budget \in Budgets
  /\ grid \in budget.grids
  /\ session = [f \in Filters |-> <<>>]
  /\ requests = <<>>
  /\ reserved = [f \in Filters |-> 0]
  /\ pending = {}
  /\ \E a \in [grid -> SUBSET Provers] :
       alloc = [f \in Filters |-> [p \in Provers |->
                  IF f \in grid /\ p \in a[f] THEN "active" ELSE "none"]]
  /\ unseated = [f \in Filters |-> {}]
  /\ phase = 0
  /\ stage = "messages"
  /\ proposed = 0 /\ moves = 0 /\ seatings = 0

Messages ==
  \/ invoke_shard_split
  \/ invoke_shard_merge
  \/ \E p \in Provers, f \in Filters : Join(p, f) \/ Confirm(p, f) \/ Leave(p, f) \/ Seating(p, f)
  \/ \E f \in Filters : \E g \in DOMAIN session[f] : \E cp \in Checkpoints :
       /\ cp.frame <= budget.frames
       /\ \/ FrameHeader(f, g, cp)
          \/ \E last \in Checkpoints : PartialDrain(f, g, cp, last)
          \/ \E drain \in BOOLEAN : apply_submission(f, g, cp, drain)

Pass ==
  \/ \E c \in pending : ConsumeStale(c) \/ GateSchedule(c) \/ Apply(c)
  \/ \E f \in grid :
       \/ \E committee \in SUBSET desired_members(f) \ {{}, desired_members(f)} :
            fence_early(f, committee)
       \/ activate_sealed_successors(f)
       \/ fence_stalled_sources(f)
       \/ initialize(f)
       \/ reconcile_membership(f)
  \/ NextStage
  \/ NextFrame

Next == Messages \/ Pass

Spec == Init /\ [][Next]_vars

\* GLOBAL keeps executing frames; no committee has to do anything.
LiveSpec == Spec /\ WF_vars(Pass)

----------------------------------------------------------------------------
Sessions == [base : 0..MaxFrame, members : SUBSET Provers, request : 0..Len(requests),
             status : {"active", "sealing", "closed"},
             tip : Checkpoints \cup {NoCheckpoint},
             seal : Checkpoints \cup {NoCheckpoint},
             fence : Checkpoints \cup {NoCheckpoint}]

\* Every record is of its kind: a request names sessions that exist and that
\* its number closes (handoff.rs, handoff_schedule.rs).
TypeOK ==
  /\ grid \subseteq Filters
  /\ \A f \in Filters : \A g \in DOMAIN session[f] : session[f][g] \in Sessions
  /\ \A i \in DOMAIN requests : \A s \in requests[i].sources :
       /\ s[2] \in DOMAIN session[s[1]]
       /\ session[s[1]][s[2]].request = i
       /\ session[s[1]][s[2]].status = (IF requests[i].activated THEN "closed" ELSE "sealing")
  /\ reserved \in [Filters -> 0..Len(requests)]
  /\ \A c \in pending : c.kind \in Kinds /\ c.wait \in 0..2 /\ c.request \in 0..Len(requests)
  /\ alloc \in [Filters -> [Provers -> Stages]]
  /\ unseated \in [Filters -> SUBSET Provers]
  /\ phase \in 0..EpochFrames - 1

LiveAt(f) == HasHead(f) /\ head(f).status # "closed"

OneLivePerShard ==
  \A f \in Filters : \A g \in DOMAIN session[f] :
    g < Len(session[f]) => session[f][g].status = "closed"

RangesDisjoint == \A k \in Kids : ~(LiveAt(Parent) /\ LiveAt(k))

\* No address range is under two committees: of a shard's sessions only the
\* last is live, and a parent and its child never both have a live session
\* (activate_with, gate_topology_change_sized, reconcile_membership).
OneCommitteePerRange == OneLivePerShard /\ RangesDisjoint

\* A merge took effect without child k, which had had no session, and the parent
\* was not split since.
MergedWithout(k) ==
  \E i \in DOMAIN requests :
    /\ requests[i].activated
    /\ Parent \in DOMAIN requests[i].targets /\ k \in requests[i].vacant
    /\ \A j \in i + 1 .. Len(requests) :
         requests[j].activated => Parent \notin Sources(requests[j]) \/ Parent \in DOMAIN requests[j].targets

\* The only two committees of one address range are those of a parent and a
\* child its merge recorded as vacant; of a shard's sessions only the last is
\* live (activate_with, schedule_with_vacant, gate_topology_change_sized).
OverlapsOnlyVacant ==
  /\ OneLivePerShard
  /\ \A k \in Kids : LiveAt(Parent) /\ LiveAt(k) => MergedWithout(k)

\* A session ends at the last frame GLOBAL executed of it, by a seal or by a
\* fence and never both, whatever its committee certified, and no later header
\* or drain moves that frame (verify_submission_at, write_fence, verify_with).
EndsAtExecutedTip ==
  \A f \in Filters : \A g \in DOMAIN session[f] :
    LET x == session[f][g]
    IN  /\ EndOf(x) # NoCheckpoint => EndOf(x) = Executed(x)
        /\ NoCheckpoint \in {x.seal, x.fence}

\* A successor continues exactly where GLOBAL stopped executing its
\* predecessor: no executed frame is dropped and none can be executed again
\* under the next generation (activate_with, closed_checkpoint).
SuccessorContinues ==
  \A f \in Filters : \A g \in DOMAIN session[f] :
    g > 1 => session[f][g].base = Executed(session[f][g - 1]).frame

\* A request that has not activated can still do so: the sessions of its
\* targets are the ones it was made for (reserved, schedule_with_vacant:
\* "activation would otherwise fail its 'target changed' check forever").
TargetsHeld ==
  \A i \in DOMAIN requests : ~requests[i].activated => ~refused(session, requests[i])

\* A session asked to close is closed by the pass of the frame its fence is due
\* at, whatever its committee and those of the request's other sources do: GLOBAL
\* fences it, and nothing undoes the fences (fence_stalled_sources).  Only a child
\* a merge left out is no longer visited.
ClosedWhenDue ==
  stage = "membership" =>
    \A f \in Filters : Closing(f) /\ fence_due(RequestFor(f)) => f \notin grid /\ MergedWithout(f)

\* A registered shard with eligible provers gets a live session (the doc of
\* Request.targets: a range authorized without members "receives an ordinary
\* first session once provers become eligible there").
ShardServed ==
  \A f \in Filters :
    (f \in grid /\ desired_members(f) # {}) ~>
      (LiveAt(f) \/ f \notin grid \/ desired_members(f) = {})

\* A recorded split or merge is consumed in the end, which lifts the freeze on
\* joining its shards (apply_due_shard_changes).
ChangeSettles ==
  \A n \in UNION {1..b.proposals : b \in Budgets} :
    (\E c \in pending : c.number = n) ~> ~(\E c \in pending : c.number = n)

=============================================================================
