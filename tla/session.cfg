\* Four commands on a session, with crashes and edits of the configuration.
CONSTANTS
  N = 3
  Commands = 4
  MayCrash = TRUE
  MayEdit = TRUE
  p1 = p1
  p2 = p2
  p3 = p3
  Providers = {p1, p2, p3}
  Workflows <- Three
SPECIFICATION Spec
INVARIANTS
  StatesClosed
  KeepsNeeded
PROPERTIES
  RemovedWhenGone
  Survives
CHECK_DEADLOCK FALSE
