SPECIFICATION Spec
CONSTANTS
  NumReq = 2
  HeaderLen = 2
  ReqLen <- OnlyFirst
  RspLen <- OneUnit
  Handlers = {"normal", "failed", "static"}
  Invalid = {}
  BadUrl = {2}
  BadStatus = {2}
  SndBuf = 2
  MaxWire = 6
  Pipelining = TRUE
  EarlyAnswer = TRUE
  Closes = {"client", "backend"}
INVARIANTS TypeOK WriteConserves ReadConserves NoEdgeLost ResponsesInOrder
PROPERTY ImplementsExchange
CHECK_DEADLOCK FALSE
