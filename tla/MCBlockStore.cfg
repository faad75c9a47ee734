SPECIFICATION Spec
CONSTANTS
    MaxView = 3
    Contents = {"short", "long"}
    Size <- MCSize
    Bodies <- MCBodies
    KeepViews = 0
    ProtectedViews = 1
    MaxBlocks = 2
    MaxBytes = 3
    MaxCandidateBlocks = 1
    MaxCandidateBytes = 2
INVARIANTS
    StoreInv
    CertifiedRemembered
PROPERTIES
    PendingKept
CHECK_DEADLOCK FALSE
