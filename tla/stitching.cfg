CONSTANTS
  N = 4
  FABRIC = 2
  Configs <- All
SPECIFICATION Spec
INVARIANTS
  TypeOK
  ProducerFirst
  Mirrored
  BestOffer
  EitherWay
  DisjointRanges
  PeeringOfStitch
\* Controller.init returns or raises.
CHECK_DEADLOCK FALSE
