------------------------- MODULE SubmissionAttempts -------------------------
(***************************************************************************)
(* Ownership of asynchronous shard operations on a prover                  *)
(* (quil-engine/src/submission_attempts.rs).  A lifecycle cycle reserves   *)
(* the filters of a join, confirm, leave or reject; a spawned task then    *)
(* prepares and publishes it chunk by chunk while later cycles run, and    *)
(* gives the reservation back when its guard is dropped.                   *)
(*                                                                         *)
(* Every lock section of the code is one action.  A guard is the code's    *)
(* SubmissionAttempt, `attempts' its map of reservations, `confirms' the   *)
(* map behind confirm_published_in.  `sent' is a history variable: what    *)
(* each dropped guard of this epoch and the last had published, until a    *)
(* refused join is released.                                               *)
(***************************************************************************)
EXTENDS Integers, Functions

CONSTANTS
    Filter,       \* the shards operations are about
    Kind,         \* OpKind
    Guard,        \* names for the guards alive at one time
    RetryFrames,  \* RETRY_FRAMES
    EpochLength,  \* epoch_length_frames()
    RejoinWindow, \* REJOIN_WINDOW_FRAMES
    Scopes        \* bounds: what may happen in one behavior

ASSUME SubmissionAssumption ==
    /\ {"Join", "Confirm"} \subseteq Kind
    /\ RetryFrames \in Nat \ {0}
    /\ EpochLength \in Nat \ {0}
    /\ RejoinWindow \in Nat
    /\ \A s \in Scopes :
          s \in [filters : SUBSET Filter, kinds : SUBSET Kind, guards : SUBSET Guard,
                 frames : Nat]

VARIABLES
    frame,     \* the node's latest frame (frame_now)
    cycle,     \* the frame the lifecycle's current cycle acts at
    attempts,  \* reservations: Key -> Attempt
    guards,    \* the guards held by running tasks
    confirms,  \* <<epoch, filter>> -> frame a confirm was published at
    sent,      \* history: what dropped guards published
    scope      \* the behavior's filters, kinds and guards, and its last frame

vars == <<frame, cycle, attempts, guards, confirms, sent, scope>>

Epoch == Nat
Key == [epoch : Epoch, filter : Filter, kind : Kind]
Attempt == [frame : Nat, inFlight : BOOLEAN, forEpoch : BOOLEAN]
Sent == [epoch : Epoch, filter : Filter, kind : Kind, frame : Nat, forEpoch : BOOLEAN]

EpochOf(f) == f \div EpochLength

SaturatingSub(a, b) == IF a > b THEN a - b ELSE 0

\* The map `m' after the entries of `new' are inserted.
Inserted(m, new) ==
    [x \in DOMAIN m \cup DOMAIN new |-> IF x \in DOMAIN new THEN new[x] ELSE m[x]]

-----------------------------------------------------------------------------
(* Ownership of a filter by one reservation.                               *)

\* Mutant: an attempt that runs past its epoch is no longer an owner.
OwnsSameEpochOnly(a, attemptEpoch, epoch, f) ==
    attemptEpoch = epoch /\ (a.inFlight \/ a.forEpoch \/ SaturatingSub(f, a.frame) < RetryFrames)

Owns(a, attemptEpoch, epoch, f) ==
    \/ a.inFlight
    \/ attemptEpoch = epoch /\ (a.forEpoch \/ SaturatingSub(f, a.frame) < RetryFrames)

\* Mutant: a publication holds off only its own kind.
HoldsOffOwnKind(a, attemptKind, kind, attemptEpoch, epoch, f) ==
    Owns(a, attemptEpoch, epoch, f) /\ (attemptKind = kind \/ a.inFlight)

HoldsOff(a, attemptKind, kind, attemptEpoch, epoch, f) ==
    /\ Owns(a, attemptEpoch, epoch, f)
    /\ \/ attemptKind = kind
       \/ a.inFlight
       \/ SaturatingSub(f, a.frame) < RetryFrames

HeldOff(atts, f, kind, now) ==
    \E k \in DOMAIN atts :
        k.filter = f /\ HoldsOff(atts[k], k.kind, kind, k.epoch, EpochOf(now), now)

-----------------------------------------------------------------------------
Init ==
    /\ frame = 0
    /\ cycle = 0
    /\ attempts = << >>
    /\ guards = << >>
    /\ confirms = << >>
    /\ sent = {}
    /\ scope \in Scopes

\* The node learns a later frame.
Tick ==
    /\ frame < scope.frames
    /\ frame' = frame + 1
    /\ UNCHANGED <<cycle, attempts, guards, confirms, sent, scope>>

\* The lifecycle starts the cycle of the node's latest frame.
NextCycle ==
    /\ cycle < frame
    /\ cycle' = frame
    /\ sent' = {s \in sent : s.epoch + 1 >= EpochOf(frame)}
    /\ UNCHANGED <<frame, attempts, guards, confirms, scope>>

\* begin_free: forget expired reservations, then reserve the free filters.
\* Nothing free means no guard, but what expired is forgotten all the same.
BeginFree(g, filters, kind) ==
    LET epoch == EpochOf(cycle)
        kept == Restrict(attempts, {k \in DOMAIN attempts :
                                        Owns(attempts[k], k.epoch, epoch, cycle)})
        keys == {[epoch |-> epoch, filter |-> f, kind |-> kind] :
                     f \in {f \in filters : ~HeldOff(kept, f, kind, cycle)}}
    IN  /\ g \notin DOMAIN guards
        /\ attempts' = Inserted(kept,
                          [k \in keys |-> [frame |-> cycle, inFlight |-> TRUE, forEpoch |-> FALSE]])
        /\ guards' = IF keys = {} THEN guards
                     ELSE Inserted(guards, [h \in {g} |->
                              [keys |-> keys, published |-> << >>, epochFenced |-> {}]])
        /\ UNCHANGED <<frame, cycle, confirms, sent, scope>>

\* release: the running attempt gives some filters back early.
Release(g, filters) ==
    LET released == {k \in guards[g].keys : k.filter \in filters}
    IN  /\ g \in DOMAIN guards
        /\ guards' = [guards EXCEPT ![g].keys = @ \ released]
        /\ attempts' = Restrict(attempts, DOMAIN attempts \ released)
        /\ UNCHANGED <<frame, cycle, confirms, sent, scope>>

\* fence and published_subset: record the owned filters as published now.
OwnedBy(g, filters) == {k.filter : k \in {k \in guards[g].keys : k.filter \in filters}}

Fence(g, filters) ==
    /\ g \in DOMAIN guards
    /\ guards' = [guards EXCEPT ![g].published = Inserted(@, [f \in OwnedBy(g, filters) |-> frame])]
    /\ UNCHANGED <<frame, cycle, attempts, confirms, sent, scope>>

\* fence_for_epoch: and keep them fenced until the attempt's epoch ends.
FenceForEpoch(g, filters) ==
    /\ g \in DOMAIN guards
    /\ LET published == Inserted(guards[g].published, [f \in OwnedBy(g, filters) |-> frame])
       IN  guards' = [guards EXCEPT
                          ![g].published = published,
                          ![g].epochFenced = @ \cup (filters \cap DOMAIN published)]
    /\ UNCHANGED <<frame, cycle, attempts, confirms, sent, scope>>

MaxOf(a, b) == IF a > b THEN a ELSE b

\* Mutant: a failed attempt leaves its reservation in flight.
SettledAttemptsLeak(g) ==
    LET G == guards[g]
    IN  [k \in DOMAIN attempts |->
            IF k \in G.keys /\ k.filter \in DOMAIN G.published
            THEN [frame |-> G.published[k.filter], inFlight |-> FALSE,
                  forEpoch |-> k.filter \in G.epochFenced]
            ELSE attempts[k]]

\* The reservations a guard leaves behind: its published keys, now fenced.
SettledAttempts(g) ==
    LET G == guards[g]
        lost == {k \in G.keys : k.filter \notin DOMAIN G.published}
    IN  [k \in DOMAIN attempts \ lost |->
            IF k \in G.keys
            THEN [frame |-> MaxOf(attempts[k].frame, G.published[k.filter]),
                  inFlight |-> FALSE,
                  forEpoch |-> attempts[k].forEpoch \/ k.filter \in G.epochFenced]
            ELSE attempts[k]]

\* Mutant: the epoch before the latest confirm's is forgotten.
RememberedForget(epoch, pub) ==
    Inserted(Restrict(confirms, {c \in DOMAIN confirms : c[1] >= epoch}), pub)

\* The confirms remembered after a confirm of `epoch' published `pub'.
Remembered(epoch, pub) ==
    LET kept == {c \in DOMAIN confirms : c[1] + 1 >= epoch}
    IN  [c \in DOMAIN pub \cup kept |->
            IF c \in DOMAIN pub /\ c \in kept THEN MaxOf(pub[c], confirms[c])
            ELSE IF c \in kept THEN confirms[c] ELSE pub[c]]

\* Drop: published filters keep a fence, the others are free again.  All the
\* keys of a guard are of one epoch and one kind.
Drop(g) ==
    /\ g \in DOMAIN guards
    /\ LET G == guards[g]
           done == {k \in G.keys : k.filter \in DOMAIN G.published}
           confirmed == {k \in done : k.kind = "Confirm"}
       IN  /\ attempts' = SettledAttempts(g)
           /\ confirms' =
                IF confirmed = {} THEN confirms
                ELSE LET epoch == (CHOOSE k \in confirmed : TRUE).epoch
                     IN  Remembered(epoch,
                             [c \in {<<epoch, k.filter>> : k \in confirmed} |-> G.published[c[2]]])
           /\ sent' = sent \cup
                {[epoch |-> k.epoch, filter |-> k.filter, kind |-> k.kind,
                  frame |-> G.published[k.filter],
                  forEpoch |-> k.filter \in G.epochFenced] : k \in done}
    /\ guards' = Restrict(guards, DOMAIN guards \ {g})
    /\ UNCHANGED <<frame, cycle, scope>>

\* release_published_joins: GLOBAL refuses a join of `filter' in the window
\* after the join it has, so one published there no longer holds the filter.
ReleasePublishedJoins(filter, joined) ==
    LET window == joined .. (joined + RejoinWindow - 1)
        refused == {k \in DOMAIN attempts :
                        /\ k.kind = "Join" /\ k.filter = filter
                        /\ ~attempts[k].inFlight
                        /\ attempts[k].frame \in window}
    IN  /\ attempts' = Restrict(attempts, DOMAIN attempts \ refused)
        /\ sent' = {s \in sent : ~(s.kind = "Join" /\ s.filter = filter /\ s.frame \in window)}
        /\ UNCHANGED <<frame, cycle, guards, confirms, scope>>

Next ==
    \/ Tick
    \/ NextCycle
    \/ \E g \in scope.guards, fs \in SUBSET scope.filters, kind \in scope.kinds :
          BeginFree(g, fs, kind)
    \/ \E g \in scope.guards, fs \in SUBSET scope.filters :
          Release(g, fs) \/ Fence(g, fs) \/ FenceForEpoch(g, fs)
    \/ \E g \in scope.guards : Drop(g)
    \/ \E f \in scope.filters, joined \in 0 .. scope.frames : ReleasePublishedJoins(f, joined)

Spec == Init /\ [][Next]_vars

-----------------------------------------------------------------------------
(* Properties                                                              *)

\* Types of the clocks, the reservation map, the guards and the histories.
TypeOK ==
    /\ frame \in Nat /\ cycle \in Nat /\ cycle <= frame
    /\ DOMAIN attempts \subseteq Key
    /\ attempts \in [DOMAIN attempts -> Attempt]
    /\ DOMAIN guards \subseteq Guard
    /\ \A g \in DOMAIN guards :
          /\ guards[g].keys \subseteq Key
          /\ DOMAIN guards[g].published \subseteq Filter
          /\ \A f \in DOMAIN guards[g].published : guards[g].published[f] \in Nat
          /\ guards[g].epochFenced \subseteq Filter
    /\ DOMAIN confirms \subseteq Epoch \X Filter
    /\ \A c \in DOMAIN confirms : confirms[c] \in Nat
    /\ sent \subseteq Sent

\* Two running tasks never work on one filter at once, whatever their kinds
\* and however many epochs they run across: no filter has two reservations in
\* flight, and each one in flight belongs to exactly one live guard.
OneOwnerPerFilter ==
    LET inFlight == {k \in DOMAIN attempts : attempts[k].inFlight}
    IN  /\ \A k1, k2 \in inFlight : k1.filter = k2.filter => k1 = k2
        /\ \A g \in DOMAIN guards : guards[g].keys \subseteq inFlight
        /\ \A g1, g2 \in DOMAIN guards : guards[g1].keys \cap guards[g2].keys # {} => g1 = g2
        /\ \A k \in inFlight : \E g \in DOMAIN guards : k \in guards[g].keys

\* The reservation map beside the live guards (begin_free, release, Drop).
AttemptsInv == TypeOK /\ OneOwnerPerFilter

\* The reservations a step begins.
Begun == {k \in DOMAIN attempts' :
             attempts'[k].inFlight /\ ~(k \in DOMAIN attempts /\ attempts[k].inFlight)}

\* A published operation keeps every other operation off its filter for
\* RETRY_FRAMES frames of the epoch it was begun in, and those of its own
\* kind for the whole epoch when fenced for it, even when a later chunk of
\* the same attempt failed (Drop, holds_off).
FenceKept ==
    [][\A k \in Begun : \A s \in sent :
          s.filter = k.filter /\ s.epoch = k.epoch =>
              /\ cycle >= s.frame + RetryFrames
              /\ ~(s.forEpoch /\ s.kind = k.kind)]_vars

\* A filter is held off only for a reason: a running task owns it, or a
\* publication of this epoch is inside its fence.  A failed, timed out,
\* released or refused operation never blocks its filter.
HeldOffOnlyForCause ==
    \A f \in Filter, kind \in Kind :
        HeldOff(attempts, f, kind, cycle) =>
            \/ \E g \in DOMAIN guards : \E k \in guards[g].keys : k.filter = f
            \/ \E s \in sent :
                  /\ s.filter = f /\ s.epoch = EpochOf(cycle)
                  /\ SaturatingSub(cycle, s.frame) < RetryFrames \/ (s.forEpoch /\ s.kind = kind)

\* A published confirm is remembered, at the last frame it was published,
\* until the epoch after the one it was begun in ends, whatever later
\* attempts do (confirm_published_in).
ConfirmRemembered ==
    \A s \in sent :
        s.kind = "Confirm" /\ EpochOf(frame) <= s.epoch + 1 =>
            /\ <<s.epoch, s.filter>> \in DOMAIN confirms
            /\ confirms[<<s.epoch, s.filter>>] >= s.frame

=============================================================================
