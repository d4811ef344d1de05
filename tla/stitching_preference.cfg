CONSTANTS
  N = 4
  FABRIC = 2
  Configs <- All
SPECIFICATION Spec
INVARIANT HighestPreference
CHECK_DEADLOCK FALSE
