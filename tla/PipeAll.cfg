\* Every short program in calm; the repository's own programs in the rough.
SPECIFICATION Spec
CONSTANTS
  CalmPrograms <- AllPrograms
  RoughPrograms <- RepoPrograms
  Handlers = {"default", "noop"}
INVARIANTS
  TypeOK
  GoIsNeverLost
  GoIsNeverEarly
  SignalNeverKills
  VerdictIsDetermined
PROPERTIES
  SessionEnds
\* a session ends
CHECK_DEADLOCK FALSE
