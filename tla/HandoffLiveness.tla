-------------------------- MODULE HandoffLiveness ---------------------------
(***************************************************************************)
(* The closing of a session under partial synchrony.  From view StableView  *)
(* on, the network and the members are fast enough: no view times out, and  *)
(* a leader's waits for its parent (PARENT_WAITS) and its GLOBAL view last   *)
(* until the previous views are finalized and materialized.  Before it,     *)
(* anything may time out at any time.                                       *)
(***************************************************************************)
EXTENDS CommitteeHandoff

CONSTANT StableView

ASSUME StableAssumption == StableView \in Views

Finalized(v) == \E p \in Voted(v) : Finalization(v, p)

\* The member holds the closing request and all that stable views finalized.
Settled(m) ==
    /\ closing[m]
    /\ \A w \in StableView..(view[m] - 1) : Finalized(w)
    /\ \A w \in 1..(view[m] - 1) : Finalized(w) => FramesOf(w) \subseteq Lineage[tip[m]]

StableProposal(m) == (view[m] >= StableView => Settled(m)) /\ Propose(m)

StableVote(m) == \E p \in Offered(m) : Vote(m, p)

Timeout(m) ==
    /\ view[m] < StableView
    /\ construct_nullify(m)
    /\ UNCHANGED <<tip, closing>>

Advance(m) == \E v \in Views : EnterView(m, v) /\ UNCHANGED <<tip, closing>>

FinalizeVote(m) ==
    /\ \E v \in Views : \E p \in Voted(v) : construct_finalize(m, v, p)
    /\ UNCHANGED <<tip, closing>>

MaterializeNext(m) == \E b \in Views : Materialize(m, b)

StableNext ==
    \E m \in Honest :
        \/ StableProposal(m)
        \/ StableVote(m)
        \/ Timeout(m)
        \/ Advance(m)
        \/ FinalizeVote(m)
        \/ MaterializeNext(m)
        \/ RefreshGlobalView(m)

\* The voter's, the application's and the worker's loops keep running: what
\* stays possible is eventually done, a timeout included.
StableSpec ==
    /\ HandoffInit /\ [][StableNext]_vars
    /\ \A m \in Honest :
          /\ WF_vars(StableProposal(m))
          /\ WF_vars(StableVote(m))
          /\ WF_vars(Timeout(m))
          /\ WF_vars(Advance(m))
          /\ WF_vars(FinalizeVote(m))
          /\ WF_vars(MaterializeNext(m))
          /\ WF_vars(RefreshGlobalView(m))

-----------------------------------------------------------------------------
\* with_seal_parents: a session whose committee holds a closing request closes:
\* a seal is finalized, also when an earlier seal was notarized and then stuck
\* between its votes.
SessionCloses == <>(\E v \in Views : \E p \in Voted(v) : Finalization(v, p) /\ IsSeal(p))
=============================================================================
