SPECIFICATION Spec
CONSTANTS
    Filter = {f1, f2}
    Kind = {"Join", "Confirm", "Leave"}
    Guard = {g1, g2}
    RetryFrames = 2
    EpochLength = 3
    RejoinWindow = 2
    Scopes <- MCScopes
INVARIANT AttemptsInv
INVARIANT HeldOffOnlyForCause
INVARIANT ConfirmRemembered
PROPERTY FenceKept
SYMMETRY MCSymmetry
