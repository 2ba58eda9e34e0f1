\* Interruptions and restarts with every option.
SPECIFICATION Spec
CONSTANTS
  r1 = r1
  r2 = r2
  NoRecipe = NoRecipe
  Recipes <- Two
  Recipelist <- Sorted
  Rank <- ById
  Selected <- Two
  Dirs <- Hierarchy
  Path <- Nested
  Configs <- Inner
  MAX_REBOOT <- NoReboot
  OptionSets <- Foreground
  PanicPoints <- Anywhere
  SOFT_RETRY = 2
  HARD_RETRY = 1
  LOGLEVEL = 1
  DeathStatuses <- Signals
  MaxFails = 1
  MaxInterrupts = 1
  MaxPanics = 0
  MaxStarts = 3
INVARIANTS TypeOK NoRecipeDropped PassIsEarned LastTrialDecides
\* the user need not start the round again
CHECK_DEADLOCK FALSE
