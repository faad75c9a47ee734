SPECIFICATION LiveSpec
CONSTANTS
    MaxHeight = 3
    ForkAt = 4
    Direct = {1, 3}
    Refused <- SecondFrame
    MaxQueued = 1
    MaxAttempts = 2
    MaxAhead = 2
    StoreFails = FALSE
    MaxCrashes = 1
INVARIANT FinalizationHeld
INVARIANT NoLostWakeup
INVARIANT TailBounded
PROPERTY RefusedNotAdmitted
PROPERTY FinalizedExecutes
