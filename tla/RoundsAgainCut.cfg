\* A run that is started over, interrupted and resumed.
SPECIFICATION Spec
CONSTANTS
  r1 = r1
  r2 = r2
  Recipes <- Two
  FAILRETRY = 2
  Agains = {"yes", "no"}
  Mixed = "yes"
  MaxInterrupts = 1
  MaxStarts = 3
INVARIANTS DoneIsDone
\* the user need not run the project again
CHECK_DEADLOCK FALSE
