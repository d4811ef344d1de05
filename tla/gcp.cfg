SPECIFICATION GcpSpec
CONSTANTS
  N = 1
  Commands = 4
  Keys = 3
INVARIANTS
  GcpLeavesNothing
PROPERTIES
  Usable
\* The commands are over.
CHECK_DEADLOCK FALSE
