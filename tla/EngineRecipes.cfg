\* The operation lists of the recipes, at every size of the last chunk.
SPECIFICATION Spec
CONSTANTS
  CHUNKSIZE = 4
  HP = 2
  MaxProc = 2
  Programs <- AllRecipes
  BlockMaps <- MCBlocks
INVARIANTS
  TypeOK
  PagesConserved
  NoSegv
  OnlyMainSpeaks
  TouchedIsOwn
  PicksFullestBlock
PROPERTIES
  MainEnds
  RacersAreCleaned
\* a program ends; a forked child waits for a signal nobody sends
CHECK_DEADLOCK FALSE
