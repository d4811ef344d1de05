SPECIFICATION Spec
CONSTANTS
  N = 1
  Commands = 6
  Ids = 3
INVARIANTS
  TypeOK
  LeavesNothing
PROPERTIES
  Ready
\* The commands are over.
CHECK_DEADLOCK FALSE
