-------------------------- MODULE FinalizedLedger --------------------------
(***************************************************************************)
(* What an archive promises about the GLOBAL frames consensus finalizes,   *)
(* whatever queues, caches, retries and restarts do underneath: the clock  *)
(* records frames of the finalized chain and keeps them, the ledger        *)
(* executes that chain frame by frame, each recorded no later than it is   *)
(* executed, and only recorded frames are announced.  Nothing is ever      *)
(* undone, so a crash is no step at all.                                   *)
(***************************************************************************)
EXTENDS Naturals, Sequences

CONSTANT Chain      \* the finalized chain, a function from 1 .. n to frames

VARIABLES
    clock,      \* frames recorded in the canonical clock
    ledger,     \* frames executed, in order
    announced   \* frames announced to the network

ledgerVars == <<clock, ledger, announced>>

Final == {Chain[h] : h \in DOMAIN Chain}

Init ==
    /\ clock = {}
    /\ ledger = << >>
    /\ announced = {}

\* Finalized frames are recorded, one or a whole fetched chain of them.
RecordFrames ==
    /\ \E frames \in SUBSET Final : clock' = clock \cup frames
    /\ UNCHANGED <<ledger, announced>>

\* The next frame of the chain is executed, and recorded if it was not.
Execute ==
    LET next == Len(ledger) + 1
    IN  /\ next \in DOMAIN Chain
        /\ ledger' = Append(ledger, Chain[next])
        /\ clock' = clock \cup {Chain[next]}
        /\ UNCHANGED announced

\* A frame is announced, and recorded if it was not.
AnnounceFrame ==
    /\ \E f \in Final :
          /\ clock' = clock \cup {f}
          /\ announced' = announced \cup {f}
    /\ UNCHANGED ledger

Next == RecordFrames \/ Execute \/ AnnounceFrame

Spec == Init /\ [][Next]_ledgerVars
=============================================================================
