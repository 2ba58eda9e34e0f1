\* Trials may be killed: a streak may have a hole.
SPECIFICATION RKSpec
CONSTANTS
  r1 = r1
  Recipes <- TheRecipes
  Recipe = r1
  SOFT_RETRY = 3
  HARD_RETRY = 2
  LOGLEVEL = 1
  DeathStatuses <- Signals
  MaxFails = 2
INVARIANTS PassMeansStreak
\* do_soft_try is called once
CHECK_DEADLOCK FALSE
