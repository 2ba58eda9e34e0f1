CONSTANTS
  ENTRIES = 4
  SMALL = 2
  READS = 3
  RINGS = 2
  FAILURES = 1
SPECIFICATION Spec
INVARIANTS
  TypeOK
  SqNeverOverrun
  TallyIsTrue
  WritesInOrder
PROPERTIES
  ComplainsOfNulOnly
  NoReadAfterFree
  MainEnds
CHECK_DEADLOCK FALSE
