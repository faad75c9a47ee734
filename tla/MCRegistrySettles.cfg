SPECIFICATION LiveSpec
CONSTANTS
  Parent = p
  Kids = {l, r}
  Leaves = {l, r}
  Provers = {a, b}
  Digests = {d}
  Genesis = d0
  NoCheckpoint = none
  EpochFrames = 1
  FenceAfterEpochs = 1
  MaxDrain = 1
  MaxFrame = 0
  Budgets <- SilenceBudgets
PROPERTY ChangeSettles
