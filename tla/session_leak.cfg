CONSTANTS
  N = 3
  Commands = 4
  MayCrash = FALSE
  MayEdit = FALSE
  p1 = p1
  p2 = p2
  p3 = p3
  Providers = {p1, p2, p3}
  Workflows <- Three
SPECIFICATION Spec
INVARIANT DestroyDeletes
CHECK_DEADLOCK FALSE
