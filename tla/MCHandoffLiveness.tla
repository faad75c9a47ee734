------------------------- MODULE MCHandoffLiveness --------------------------
EXTENDS HandoffLiveness

CONSTANTS h1, h2

MCMembers == {h1, h2}

\* N3f1 of two members.
MCQuorums == {MCMembers}
MCLeader == [v \in 1..MaxView |-> IF v % 2 = 1 THEN h1 ELSE h2]
MCPayloads == Frames \union Seals
MCLocalRoots == [m \in MCMembers |-> "r"]
=============================================================================
