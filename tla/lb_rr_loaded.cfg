SPECIFICATION FairSpec
CONSTANTS
  Workers = {w1, w2}
  w1 = w1
  w2 = w2
  ProcessCounts = {2}
  NumBackends = 2
  BackendCounts = {0}
  Algorithms = {"RoundRobin"}
  Weight <- Equal
  CheckHealths = {FALSE}
  IntLimit = 8
  MaxPicks <- Four
PROPERTY EveryBackendChosen
CHECK_DEADLOCK FALSE
