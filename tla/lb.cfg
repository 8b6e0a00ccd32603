SPECIFICATION Spec
CONSTANTS
  Workers = {w1, w2}
  w1 = w1
  w2 = w2
  ProcessCounts = {1, 2}
  NumBackends = 2
  BackendCounts = {0, 2}
  Algorithms = {"RoundRobin", "WeightedRoundRobin", "LeastConnections"}
  Weight <- Ascending
  CheckHealths = {TRUE, FALSE}
  IntLimit = 8
  MaxPicks <- TwoOrSix
SYMMETRY WorkerSymmetry
INVARIANT TypeOK
INVARIANT LateConnectsBounded
INVARIANT OpenAreCounted
INVARIANT WeightAccounted
INVARIANT SpreadBounded
CHECK_DEADLOCK FALSE
