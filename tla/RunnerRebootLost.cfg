\* A testcase that takes the machine down twice.
SPECIFICATION Spec
CONSTANTS
  r1 = r1
  r2 = r2
  NoRecipe = NoRecipe
  Recipes <- Two
  Recipelist <- Sorted
  Rank <- ById
  Selected <- Two
  Dirs <- Hierarchy
  Path <- Nested
  Configs <- Hierarchy
  MAX_REBOOT <- FirstReboots
  OptionSets <- Background
  PanicPoints <- InTrials
  SOFT_RETRY = 1
  HARD_RETRY = 1
  LOGLEVEL = 1
  DeathStatuses <- NoSignal
  MaxFails = 0
  MaxInterrupts = 0
  MaxPanics = 2
  MaxStarts = 3
INVARIANTS RebootLimit
\* the user need not start the round again
CHECK_DEADLOCK FALSE
