SPECIFICATION FairSpec
CONSTANTS
  NumFd = 2
  Handlers = {h1, h2}
  h1 = h1
  h2 = h2
  BackendType = "LOAD_BALANCER"
  IsSsl = FALSE
  MaxEvents = 2
  MaxBacklog = 1
  None = None
PROPERTY IdleWorkerExits
CHECK_DEADLOCK FALSE
