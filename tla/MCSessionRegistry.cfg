SPECIFICATION Spec
CONSTANTS
  Parent = p
  Kids = {l, r, s}
  Leaves = {l, r}
  Provers = {a, b}
  Digests = {d, e}
  Genesis = d0
  NoCheckpoint = none
  EpochFrames = 2
  FenceAfterEpochs = 1
  MaxDrain = 1
  MaxFrame = 2
  Budgets <- SafetyBudgets
INVARIANTS TypeOK OverlapsOnlyVacant TargetsHeld EndsAtExecutedTip SuccessorContinues ClosedWhenDue
SYMMETRY Symmetry
