SPECIFICATION Spec
CONSTANTS
  MaxPontos = 4
  MaxRota = 4
  MaxTrajetos = 3
  Gaps = {60, 130}
  Midnight = 400
INVARIANT DistanceIsTravelled
\* A request that is answered ends.
CHECK_DEADLOCK FALSE
