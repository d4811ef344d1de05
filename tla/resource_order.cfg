CONSTANT N = 4
SPECIFICATION OrderFairSpec
INVARIANTS
  Topological
  RaisesIffCircular
PROPERTY
  Decides
\* The loop ends.
CHECK_DEADLOCK FALSE
