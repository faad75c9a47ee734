------------------------- MODULE MCCommitteeHandoff -------------------------
EXTENDS CommitteeHandoff, TLC

CONSTANTS h1, h2, byz

MCMembers == {h1, h2, byz}

\* N3f1 of three members: every signature is needed.
MCQuorums == {MCMembers}

\* The faulty member leads views 2 and 4.
MCLeader == [v \in 1..MaxView |-> IF v \in {2, 4} THEN byz ELSE h1]
MCPayloads == Frames \union Seals
MCLocalRoots == [m \in {h1, h2} |-> "r"]
=============================================================================
