SPECIFICATION Spec
CONSTANTS
    MaxHeight = 3
    ForkAt = 2
    Direct = {3}
    Refused <- NoFrames
    MaxQueued = 1
    MaxAttempts = 1
    MaxAhead = 3
    StoreFails = TRUE
    MaxCrashes = 1
INVARIANT TypeOK
INVARIANT ExecutedIsFinalized
INVARIANT CrashConsistent
PROPERTY ImplementsLedger
