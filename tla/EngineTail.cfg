\* The recipes that ask for an error in a tail page.
SPECIFICATION Spec
CONSTANTS
  CHUNKSIZE = 4
  HP = 2
  MaxProc = 0
  Programs <- TailInjection
  BlockMaps <- MCBlocks
INVARIANT
  InjectsWhereAsked
CHECK_DEADLOCK FALSE
