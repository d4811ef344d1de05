SPECIFICATION Spec
CONSTANTS
  N = 2
  Commands = 3
  Ids = 3
  Configs = 2
INVARIANTS
  OneInstance
PROPERTIES
  Current
\* The commands are over.
CHECK_DEADLOCK FALSE
