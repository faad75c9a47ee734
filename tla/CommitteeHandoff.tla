-------------------------- MODULE CommitteeHandoff --------------------------
(***************************************************************************)
(* Closing one committee session of an application shard: the handoff       *)
(* proposer (crates/quil-cw-consensus/src/handoff.rs, handoff/automaton.rs) *)
(* over the votes of the session's Simplex instance, and the parent reader  *)
(* that answers it (crates/quil-engine/src/app_handoff.rs, ParentSource).   *)
(*                                                                         *)
(* A block is named by its view (0 is the session base): a view has one     *)
(* notarized block, so the view stands for the digest.  A member abstains   *)
(* whenever a read fails (state sync, data not staged, a body not held), so *)
(* such failures are the absence of a step.  Sessions of generation 0, which *)
(* resume a legacy instance at a certified frame, are left out: the base is  *)
(* a virtual genesis.                                                        *)
(***************************************************************************)
EXTENDS SimplexVotes, FiniteSets

CONSTANTS
    DrainFrames,    \* DRAIN_FRAMES
    Roots,          \* state roots a member can compute
    LocalRoots      \* the roots each honest member computes

\* State AFTER materializing the data frame of view `block`; in a seal, `view`
\* is the view of the seal's parent.
Checkpoints == [block : 0..MaxView, view : 0..MaxView, roots : Roots]

Seals == [type : {"seal"}, view : Views, checkpoint : Checkpoints]

\* A data frame, and whether it carries no request.
Frames == [type : {"data"}, free : BOOLEAN]

ASSUME PayloadAssumption == Payloads = Frames \union Seals

ASSUME HandoffAssumption ==
    /\ DrainFrames \in Nat
    /\ LocalRoots \in [Honest -> Roots]

VARIABLES
    tip,        \* the block of each member's materialized cursor
    closing     \* whether its committed GLOBAL view holds the closing request

vars == <<votes, tip, closing>>

-----------------------------------------------------------------------------
(* The notarized chain *)

\* The proposal notarized at view v.
Certified(v) == CHOOSE p \in Voted(v) : Notarization(v, p)

IsSeal(p) == p.payload.type = "seal"

\* Whether the block at u is a seal; the base is not.
SealAt(u) == u # 0 /\ Notarized(u) /\ IsSeal(Certified(u))

\* The notarized blocks from u down to the base.
Lineage[u \in 0..MaxView] ==
    IF u = 0 \/ ~ Notarized(u) THEN {0} ELSE {u} \union Lineage[Certified(u).parent]

FramesOf(u) == {x \in Lineage[u] \ {0} : ~ SealAt(x)}

\* The number of the frame at u, above the session base.
FrameNumber(u) == Cardinality(FramesOf(u))

\* A block above a member's tip it can execute privately: notarized frames
\* lead from the tip to it.
Executable(m, b) == tip[m] \in Lineage[b] /\ FrameNumber(b) > FrameNumber(tip[m])

-----------------------------------------------------------------------------
(* What a member's parent reader authorizes *)

\* The last DrainFrames frames through b carry no request; the base counts as
\* drained.
frame_is_request_free(b) ==
    \A x \in FramesOf(b) :
        FrameNumber(b) - FrameNumber(x) < DrainFrames => Certified(x).payload.free

\* AuthorizedParent::closing_request at block b: recorded by GLOBAL, and b drained.
closing_request(m, b) == closing[m] /\ frame_is_request_free(b)

\* Mutant: a seal names the frame's own view, also when it extends a seal.
SealOf_frame_view(m, v, parent, b) ==
    [type |-> "seal", view |-> v,
     checkpoint |-> [block |-> b, view |-> b, roots |-> LocalRoots[m]]]

SealOf(m, v, parent, b) ==
    [type |-> "seal", view |-> v,
     checkpoint |-> [block |-> b, view |-> parent, roots |-> LocalRoots[m]]]

\* Mutant: no seal parents, a terminal seal is never extended.
reseal_never(m, u) == FALSE

\* Above the seal at u a member extends only a seal of its own checkpoint: at
\* its tip, or above it when it can execute the sealed frame privately.
reseal(m, u) ==
    LET c == Certified(u).payload.checkpoint IN
    /\ Certified(u).payload.view = u
    /\ c.block = tip[m] \/ Executable(m, c.block)
    /\ closing_request(m, c.block)
    /\ c.roots = LocalRoots[m]

-----------------------------------------------------------------------------
(* Proposing and voting *)

\* The payloads a leader may build on the block at u: above a seal, its re-seal;
\* on a committed parent once the request is there, the seal; otherwise a data
\* frame (request-free while closing) on a committed parent or, after the
\* waits, on one it executes privately.
propose_with_context(m, u) ==
    IF SealAt(u)
    THEN {s \in {SealOf(m, view[m], u, Certified(u).payload.checkpoint.block)} : reseal(m, u)}
    ELSE IF u = tip[m] /\ closing_request(m, u)
    THEN {SealOf(m, view[m], u, u)}
    ELSE {f \in Frames : (u = tip[m] \/ Executable(m, u)) /\ (closing[m] => f.free)}

\* Mutant: a seal of a parent that is not committed here.
check_uncommitted(m, p) ==
    LET v == view[m]
        u == p.parent IN
    IF SealAt(u)
    THEN reseal(m, u) /\ p.payload = SealOf(m, v, u, Certified(u).payload.checkpoint.block)
    ELSE /\ u = tip[m] \/ Executable(m, u)
         /\ IsSeal(p) => closing_request(m, u) /\ p.payload = SealOf(m, v, u, u)

\* Mutant: data above a seal.
check_data_above_seal(m, p) ==
    LET v == view[m]
        u == p.parent IN
    IF SealAt(u) /\ IsSeal(p)
    THEN reseal(m, u) /\ p.payload = SealOf(m, v, u, Certified(u).payload.checkpoint.block)
    ELSE IsSeal(p) => /\ closing_request(m, u)
                      /\ p.payload = SealOf(m, v, u, u)
                      /\ u = tip[m]

\* Mutant: the roots and views are compared, the frame is not.
check_any_frame(m, p) ==
    LET v == view[m]
        u == p.parent IN
    IF SealAt(u)
    THEN reseal(m, u) /\ p.payload = SealOf(m, v, u, Certified(u).payload.checkpoint.block)
    ELSE /\ u = tip[m] \/ Executable(m, u)
         /\ IsSeal(p) =>
              /\ closing_request(m, u)
              /\ \E b \in 0..u : p.payload = SealOf(m, v, u, b)
              /\ u = tip[m]

\* check: above a seal exactly its re-seal; a seal only of the committed parent
\* and equal to the member's own; a data frame on any parent it can read.
check(m, p) ==
    LET v == view[m]
        u == p.parent IN
    IF SealAt(u)
    THEN reseal(m, u) /\ p.payload = SealOf(m, v, u, Certified(u).payload.checkpoint.block)
    ELSE /\ u = tip[m] \/ Executable(m, u)
         /\ IsSeal(p) =>
              /\ closing_request(m, u)
              /\ p.payload = SealOf(m, v, u, u)
              /\ u = tip[m]

\* What reaches a member of the current view: the block an honest leader voted
\* for, or anything from a faulty one.
Offered(m) ==
    LET l == Leader[view[m]] IN
    IF l \in Honest THEN notarized[l][view[m]] ELSE Proposals

Propose(m) ==
    /\ Leader[view[m]] = m
    /\ \E u \in 0..(view[m] - 1) : \E x \in propose_with_context(m, u) :
          construct_notarize(m, [parent |-> u, payload |-> x])
    /\ UNCHANGED <<tip, closing>>

Vote(m, p) ==
    /\ Leader[view[m]] # m
    /\ construct_notarize(m, p)
    /\ check(m, p)
    /\ UNCHANGED <<tip, closing>>

-----------------------------------------------------------------------------
(* The rest of a member *)

\* The engine's own steps leave the application alone.
Engine(m) ==
    /\ \/ \E v \in Views : EnterView(m, v)
       \/ construct_nullify(m)
       \/ \E v \in Views : \E p \in Voted(v) : construct_finalize(m, v, p)
    /\ UNCHANGED <<tip, closing>>

\* The next frame of a chain the member saw finalized is materialized.
Materialize(m, b) ==
    /\ \E w \in b..(view[m] - 1) :
          \E p \in Voted(w) : Finalization(w, p) /\ b \in FramesOf(w)
    /\ tip[m] \in Lineage[b]
    /\ FrameNumber(b) = FrameNumber(tip[m]) + 1
    /\ tip' = [tip EXCEPT ![m] = b]
    /\ UNCHANGED <<votes, closing>>

\* The member's committed GLOBAL view reaches the frame with the request.
RefreshGlobalView(m) ==
    /\ ~ closing[m]
    /\ closing' = [closing EXCEPT ![m] = TRUE]
    /\ UNCHANGED <<votes, tip>>

HandoffInit ==
    /\ Init
    /\ tip = [m \in Honest |-> 0]
    /\ closing = [m \in Honest |-> FALSE]

HandoffNext ==
    \E m \in Honest :
        \/ Propose(m)
        \/ \E p \in Offered(m) : Vote(m, p)
        \/ Engine(m)
        \/ \E b \in Views : Materialize(m, b)
        \/ RefreshGlobalView(m)

HandoffSpec == HandoffInit /\ [][HandoffNext]_vars

-----------------------------------------------------------------------------
(* Properties *)

\* Cursors name frames and requests are flags.
HandoffTypeOK ==
    /\ TypeOK
    /\ tip \in [Honest -> 0..MaxView]
    /\ closing \in [Honest -> BOOLEAN]

\* handoff.rs: members "refuse descendants of a seal other than a re-seal of
\* the same checkpoint", so "every finalized chain still ends at that frame":
\* once a seal is finalized, whatever is notarized later seals the same
\* checkpoint, and no data frame is.
OneTerminalCheckpoint ==
    \A v \in Views : \A p \in Voted(v) : Finalization(v, p) /\ IsSeal(p) =>
        \A w \in (v + 1)..MaxView : \A q \in Voted(w) : Notarization(w, q) =>
            /\ IsSeal(q)
            /\ q.payload.checkpoint.block = p.payload.checkpoint.block
            /\ q.payload.checkpoint.roots = p.payload.checkpoint.roots

\* A finalized seal names the last finalized data frame: the successor session
\* starts from a checkpoint that includes everything this one finalized.
SealCoversFinalized ==
    \A v \in Views : \A p \in Voted(v) : Notarization(v, p) /\ IsSeal(p) =>
        \A x \in (p.payload.checkpoint.block + 1)..(v - 1) : \A q \in Voted(x) :
            Finalization(x, q) => IsSeal(q)

\* propose_with_context: "Seal only a checkpoint that finalized on its own": a
\* sealed frame has a finalization certificate of its own, whichever members
\* built, voted for or re-sealed the seal.
SealedCheckpointFinalized ==
    \A v \in Views : \A p \in Voted(v) :
        Notarization(v, p) /\ IsSeal(p) /\ p.payload.checkpoint.block # 0 =>
            \E q \in Voted(p.payload.checkpoint.block) :
                Finalization(p.payload.checkpoint.block, q) /\ ~ IsSeal(q)

\* verify_seal_with and validate_with, what is accepted of a finalized seal: one
\* of the session base names the genesis at view 0, or, when `base_reseal`, at
\* the view of the seal it extends.  A member always passes base_reseal; GLOBAL
\* passes it from its seal recovery frame on.
verify_seal_with(v, p, base_reseal) ==
    /\ p.payload.view = v
    /\ p.parent = p.payload.checkpoint.view
    /\ p.payload.view > p.payload.checkpoint.view
    /\ IF p.payload.checkpoint.block = 0
       THEN p.payload.checkpoint.view = 0 \/ base_reseal
       ELSE p.payload.checkpoint.view # 0

\* The block of view u is a notarized seal of the session base.
BaseSealAt(u) ==
    u # 0 /\ \E q \in Voted(u) :
        Notarization(u, q) /\ IsSeal(q) /\ q.payload.checkpoint.block = 0

\* with_seal_parents: every seal the committee certifies, re-seals included, is
\* accepted by GLOBAL from its seal recovery frame on.  Before it GLOBAL refuses
\* no other than the re-seals of a seal at the session base: "until then it
\* waits, resubmitted, as a fenced session would".
CertifiedSealVerifies ==
    \A v \in Views : \A p \in Voted(v) : Notarization(v, p) /\ IsSeal(p) =>
        /\ verify_seal_with(v, p, TRUE)
        /\ verify_seal_with(v, p, FALSE) <=> ~ BaseSealAt(p.parent)

-----------------------------------------------------------------------------
(* The inductive invariant behind them: what holds of every vote (w, r) *)

SameCheckpoint(r, q) ==
    /\ r.payload.checkpoint.block = q.payload.checkpoint.block
    /\ r.payload.checkpoint.roots = q.payload.checkpoint.roots

\* Every earlier view is nullified or notarized a block below r, and if that is
\* a seal then r seals the same checkpoint.
AboveSeals(w, r) ==
    \A v \in 1..(w - 1) :
        \/ Nullification(v)
        \/ \E q \in Proposals :
              Notarization(v, q) /\ (IsSeal(q) => IsSeal(r) /\ SameCheckpoint(r, q))

\* Between a seal and the frame it names, only seals.
OnlySealsSince(w, r) ==
    IsSeal(r) => \A x \in (r.payload.checkpoint.block + 1)..(w - 1) :
        \/ Nullification(x)
        \/ \E q \in Proposals : Notarization(x, q) /\ IsSeal(q)

\* The frame a seal names is finalized.
NamesFinalized(w, r) ==
    IsSeal(r) /\ r.payload.checkpoint.block # 0 =>
        \E q \in Proposals :
            Finalization(r.payload.checkpoint.block, q) /\ ~ IsSeal(q)

\* r extends a notarized block: a seal with a seal of the same checkpoint, or a
\* frame, which a seal then names.
Extends(r) ==
    r.parent # 0 => \E q \in Proposals :
        /\ Notarization(r.parent, q)
        /\ IsSeal(q) => IsSeal(r) /\ SameCheckpoint(r, q)
        /\ IsSeal(r) /\ ~ IsSeal(q) => r.payload.checkpoint.block = r.parent

SealRules(w, r) ==
    /\ IsSeal(r) => verify_seal_with(w, r, TRUE)
    /\ Extends(r)
    /\ AboveSeals(w, r)
    /\ OnlySealsSince(w, r)
    /\ NamesFinalized(w, r)

SealsLawful ==
    \A m \in Honest : \A w \in Views : \A r \in notarized[m][w] : SealRules(w, r)

\* A member's tip was finalized in a view it has left, by itself or by a
\* descendant.
TipFinal ==
    \A m \in Honest : tip[m] # 0 =>
        \E w \in tip[m]..(view[m] - 1) : \E p \in Proposals :
            Finalization(w, p) /\ (w = tip[m] => ~ IsSeal(p))

HandoffInv == VotesInv /\ HandoffTypeOK /\ SealsLawful /\ TipFinal
=============================================================================
