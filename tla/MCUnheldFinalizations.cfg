SPECIFICATION LiveSpec
CONSTANTS
    Callers = {"proposer", "voter"}
    MaxView = 2
    Kept = 1
    MaxAhead = 1
    Sent <- MCSent
INVARIANTS
    EntriesInv
    NoPrivateExecution
PROPERTIES
    CallsProceed
CHECK_DEADLOCK FALSE
