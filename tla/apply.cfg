CONSTANTS
  N = 4
  P = P
  Q = Q
  Providers = {P, Q}
  Workflows <- Shapes
SPECIFICATION FairSpec
INVARIANTS
  TypeOK
  ExternalFirst
  AddedHasValues
  OnePlace
  LostIsReported
  CleanExit
PROPERTIES
  Terminates
  CreatesInOrder
