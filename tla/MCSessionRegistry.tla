------------------------- MODULE MCSessionRegistry -------------------------
EXTENDS SessionRegistry, TLC

\* Provers are interchangeable, and so are the leaves of a split.
Symmetry == Permutations(Provers) \cup Permutations(Leaves)

\* A split and a merge, with a prover moving.
Topology == [grids |-> {{Parent}, Kids}, frames |-> 0, proposals |-> 2,
             moves |-> 1, seatings |-> 0, early |-> FALSE]

\* One shard's sessions: headers, drains, seals and fences.
Endings == [grids |-> {{Parent}}, frames |-> MaxFrame, proposals |-> 0,
            moves |-> 1, seatings |-> 2, early |-> TRUE]

\* Two splits or merges, no committee doing anything.
Silence == [grids |-> {Kids}, frames |-> 0, proposals |-> 2,
            moves |-> 0, seatings |-> 0, early |-> FALSE]

\* The same, with a prover moving.
Arrival == [Silence EXCEPT !.moves = 1]

\* One merge or split, with provers losing and regaining their seats.
Seats == [grids |-> {{Parent}, Kids}, frames |-> 0, proposals |-> 1,
          moves |-> 0, seatings |-> 2, early |-> FALSE]

SafetyBudgets == {Topology, Endings}
SilenceBudgets == {Silence}
ArrivalBudgets == {Arrival}
VacantBudgets == {Seats}
=============================================================================
