SPECIFICATION FairSpec
CONSTANTS
  N = 2
  Commands = 4
  Configs = 3
INVARIANTS
  LeavesNothing
PROPERTIES
  Reported
  CommandEnds
\* The commands are over.
CHECK_DEADLOCK FALSE
