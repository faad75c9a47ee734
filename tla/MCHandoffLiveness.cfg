SPECIFICATION StableSpec
CONSTANTS
    h1 = h1
    h2 = h2
    Members <- MCMembers
    Faulty = {}
    Quorums <- MCQuorums
    Leader <- MCLeader
    MaxView = 4
    StableView = 3
    Payloads <- MCPayloads
    DrainFrames = 1
    Roots = {"r"}
    LocalRoots <- MCLocalRoots
CHECK_DEADLOCK FALSE
PROPERTIES
    SessionCloses
