SPECIFICATION Spec
CONSTANTS
  N = 2
  Commands = 3
  MaxCount = 2
INVARIANTS
  TypeOK
  LeavesNothing
PROPERTIES
  Reported
  Spares
\* The commands are over.
CHECK_DEADLOCK FALSE
