---------------------------- MODULE SimplexVotes ----------------------------
(***************************************************************************)
(* The votes of one Simplex instance (one committee session or one GLOBAL  *)
(* epoch), as the voter of crates/commonware-consensus casts them.  Every   *)
(* vote a member broadcast is in the state for good: its journal keeps it   *)
(* across a restart (actors/voter/actor.rs, sync_journal before notify).    *)
(* Votes of faulty members count towards every certificate from the start.  *)
(* Signatures, the network and the batcher are abstracted: a certificate    *)
(* exists as soon as a quorum signed, and a member may act on any           *)
(* certificate that exists.                                                 *)
(***************************************************************************)
EXTENDS Naturals

CONSTANTS
    Members,    \* the committee, scheme.participants()
    Faulty,     \* members that may sign anything
    Quorums,    \* sets of members whose signatures make a certificate (N3f1)
    Leader,     \* the elector: the leader of each view
    MaxView,    \* bound: the views explored
    Payloads    \* what the application may propose

Views == 1..MaxView

Honest == Members \ Faulty

\* A proposal of a view: the view of the parent it extends (0 is the genesis
\* or the finalized floor the instance starts from) and its payload.
Proposals == [parent : 0..MaxView, payload : Payloads]

ASSUME QuorumAssumption ==
    /\ Faulty \subseteq Members
    /\ Quorums \subseteq SUBSET Members
    /\ \A P, Q \in Quorums : \E m \in Honest : m \in P \cap Q

ASSUME ViewAssumption == MaxView \in Nat \ {0} /\ Leader \in [Views -> Members]

VARIABLES
    view,       \* State::view of each honest member
    notarized,  \* the proposals of each view it voted to notarize
    nullified,  \* the views it voted to nullify
    finalized   \* the proposals of each view it voted to finalize

votes == <<view, notarized, nullified, finalized>>

-----------------------------------------------------------------------------
(* Certificates *)

Notarization(v, p) ==
    \E Q \in Quorums : \A m \in Q \ Faulty : p \in notarized[m][v]

Nullification(v) ==
    \E Q \in Quorums : \A m \in Q \ Faulty : v \in nullified[m]

Finalization(v, p) ==
    \E Q \in Quorums : \A m \in Q \ Faulty : p \in finalized[m][v]

\* The proposals an honest member voted for in view v; every quorum has an
\* honest member, so a certificate is for one of them.
Voted(v) == UNION {notarized[m][v] : m \in Honest}

Notarized(v) == \E p \in Voted(v) : Notarization(v, p)

\* Mutant: the views between need no nullification.
parent_payload_skipping(v, p) ==
    /\ p.parent < v
    /\ p.parent # 0 => Notarized(p.parent)

\* A parent a proposal of view v may name: below v, every view between
\* nullified, and itself certified (the genesis always is).
parent_payload(v, p) ==
    /\ p.parent < v
    /\ \A u \in (p.parent + 1)..(v - 1) : Nullification(u)
    /\ p.parent # 0 => Notarized(p.parent)

-----------------------------------------------------------------------------
Init ==
    /\ view = [m \in Honest |-> 1]
    /\ notarized = [m \in Honest |-> [v \in Views |-> {}]]
    /\ nullified = [m \in Honest |-> {}]
    /\ finalized = [m \in Honest |-> [v \in Views |-> {}]]

\* A certified notarization or a nullification of view v takes a member that has
\* not passed v into the next view; so does a finalization, which needs the
\* notarization.
EnterView(m, v) ==
    /\ v >= view[m]
    /\ v < MaxView
    /\ Notarized(v) \/ Nullification(v)
    /\ view' = [view EXCEPT ![m] = v + 1]
    /\ UNCHANGED <<notarized, nullified, finalized>>

\* Mutant: the broadcast flag is forgotten (a replay that lost it).
construct_notarize_again(m, p) ==
    LET v == view[m] IN
    /\ v \notin nullified[m]
    /\ Leader[v] \in Honest \ {m} => p \in notarized[Leader[v]][v]
    /\ parent_payload(v, p)
    /\ notarized' = [notarized EXCEPT ![m][v] = @ \union {p}]
    /\ UNCHANGED <<view, nullified, finalized>>

\* One notarize vote per view, never after a nullify, for the proposal of the
\* view's leader (a faulty leader may send every member another one).
construct_notarize(m, p) ==
    LET v == view[m] IN
    /\ notarized[m][v] = {}
    /\ v \notin nullified[m]
    /\ Leader[v] \in Honest \ {m} => p \in notarized[Leader[v]][v]
    /\ parent_payload(v, p)
    /\ notarized' = [notarized EXCEPT ![m][v] = @ \union {p}]
    /\ UNCHANGED <<view, nullified, finalized>>

\* A timeout, in the current view only and never after a finalize vote.
construct_nullify(m) ==
    LET v == view[m] IN
    /\ finalized[m][v] = {}
    /\ v \notin nullified[m]
    /\ nullified' = [nullified EXCEPT ![m] = @ \union {v}]
    /\ UNCHANGED <<view, notarized, finalized>>

\* Once the view's notarization is certified, unless the member nullified the
\* view or voted for another proposal in it (equivocation).
construct_finalize(m, v, p) ==
    /\ finalized[m][v] = {}
    /\ v \notin nullified[m]
    /\ notarized[m][v] \subseteq {p}
    /\ Notarization(v, p)
    /\ finalized' = [finalized EXCEPT ![m][v] = @ \union {p}]
    /\ UNCHANGED <<view, notarized, nullified>>

Next ==
    \E m \in Honest :
        \/ \E v \in Views : EnterView(m, v)
        \/ \E p \in Proposals : construct_notarize(m, p)
        \/ construct_nullify(m)
        \/ \E v \in Views : \E p \in Voted(v) : construct_finalize(m, v, p)

Spec == Init /\ [][Next]_votes

-----------------------------------------------------------------------------
(* Properties *)

\* Every vote is of a view and for a proposal of it (the journal's artifacts).
TypeOK ==
    /\ view \in [Honest -> Views]
    /\ notarized \in [Honest -> [Views -> SUBSET Proposals]]
    /\ nullified \in [Honest -> SUBSET Views]
    /\ finalized \in [Honest -> [Views -> SUBSET Proposals]]

\* Round::add_notarization: "Conflicting notarization certificates cannot
\* exist unless safety already failed."
UniqueNotarization ==
    \A v \in Views : \A p, q \in Voted(v) :
        Notarization(v, p) /\ Notarization(v, q) => p = q

\* PATCHES.md, on which the leader's fallback rests: "A nullified view can never
\* gather a finalization quorum ..., and a finalized view can never be
\* nullified".
FinalizedNotNullified ==
    \A v \in Views : \A p \in Voted(v) :
        Finalization(v, p) => ~ Nullification(v)

\* A block is never lost once finalized: whatever is notarized in a later view
\* extends a block of the finalized view or of a later one, so following the
\* parents from any later certificate meets the finalized block itself.
FinalizedNotSkipped ==
    \A v \in Views : \A p \in Voted(v) : Finalization(v, p) =>
        /\ Notarization(v, p)
        /\ \A w \in (v + 1)..MaxView : \A q \in Voted(w) :
              Notarization(w, q) => q.parent >= v

-----------------------------------------------------------------------------
(* The inductive invariant behind them *)

\* An honest member notarizes one proposal of a view.
OneNotarize ==
    \A m \in Honest : \A v \in Views : \A p, q \in notarized[m][v] : p = q

\* No honest member nullifies a view and finalizes it.
OneVerdict ==
    \A m \in Honest : \A v \in nullified[m] : finalized[m][v] = {}

\* A finalize vote is for a notarized proposal.
FinalizeBacked ==
    \A m \in Honest : \A v \in Views : \A p \in finalized[m][v] : Notarization(v, p)

\* A notarize vote is for a proposal whose ancestry was certified.
NotarizeBacked ==
    \A m \in Honest : \A v \in Views : \A p \in notarized[m][v] : parent_payload(v, p)

VotesInv == TypeOK /\ OneNotarize /\ OneVerdict /\ FinalizeBacked /\ NotarizeBacked
=============================================================================
