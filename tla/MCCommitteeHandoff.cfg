SPECIFICATION HandoffSpec
CONSTANTS
    h1 = h1
    h2 = h2
    byz = byz
    Members <- MCMembers
    Faulty = {byz}
    Quorums <- MCQuorums
    Leader <- MCLeader
    MaxView = 3
    Payloads <- MCPayloads
    DrainFrames = 1
    Roots = {"r", "s"}
    LocalRoots <- MCLocalRoots
INVARIANTS
    UniqueNotarization
    FinalizedNotSkipped
    OneTerminalCheckpoint
    SealCoversFinalized
    SealedCheckpointFinalized
    CertifiedSealVerifies
CHECK_DEADLOCK FALSE
