\* Interrupted runs, resumed; runs started over with --again.
SPECIFICATION Spec
CONSTANTS
  r1 = r1
  r2 = r2
  Recipes <- Two
  FAILRETRY = 3
  Agains = {"yes", "no"}
  Mixed = "no"
  MaxInterrupts = 2
  MaxStarts = 3
INVARIANTS RetriesAreTheFailures DoneIsDone
PROPERTIES ProjectCompletes
\* the user need not run the project again
CHECK_DEADLOCK FALSE
