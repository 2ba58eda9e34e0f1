\* Panics that lose writes.
SPECIFICATION Spec
CONSTANTS
  r1 = r1
  r2 = r2
  NoRecipe = NoRecipe
  Recipes <- Two
  Recipelist <- Sorted
  Rank <- ById
  Selected <- Two
  Dirs <- Hierarchy
  Path <- Nested
  Configs <- Hierarchy
  MAX_REBOOT <- FirstReboots
  OptionSets <- NotAgain
  PanicPoints <- Anywhere
  SOFT_RETRY = 1
  HARD_RETRY = 1
  LOGLEVEL = 1
  DeathStatuses <- NoSignal
  MaxFails = 1
  MaxInterrupts = 0
  MaxPanics = 1
  MaxStarts = 2
INVARIANTS CompletionIsDurable ResumePointIsSound NoRecipeDropped
PROPERTIES RoundCompletes
\* the user need not start the round again
CHECK_DEADLOCK FALSE
