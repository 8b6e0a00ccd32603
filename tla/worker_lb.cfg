SPECIFICATION Spec
CONSTANTS
  NumFd = 4
  Handlers = {h1, h2, h3, h4}
  h1 = h1
  h2 = h2
  h3 = h3
  h4 = h4
  BackendType = "LOAD_BALANCER"
  IsSsl = TRUE
  MaxEvents = 3
  MaxBacklog = 1
  None = None
SYMMETRY HandlerSymmetry
INVARIANT TypeOK
INVARIANT TablesAgree
INVARIANT NoFdLeak
INVARIANT FreshEventsReachOwner
INVARIANT ExitIsClean
PROPERTY TeardownByOwnEvent
PROPERTY ImplementsSessions
CHECK_DEADLOCK FALSE
