\* Trials end by themselves: the loops implement the contract.
SPECIFICATION RCSpec
CONSTANTS
  r1 = r1
  Recipes <- TheRecipes
  Recipe = r1
  SOFT_RETRY = 3
  HARD_RETRY = 3
  LOGLEVEL = 1
  DeathStatuses <- Signals
  MaxFails = 2
INVARIANTS RetryInv
PROPERTIES ImplementsContract CallReturns
\* do_soft_try is called once
CHECK_DEADLOCK FALSE
