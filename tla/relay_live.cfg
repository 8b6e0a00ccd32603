SPECIFICATION FairSpec
CONSTANTS
  NumReq = 3
  HeaderLen = 2
  ReqLen <- OneUnit
  RspLen <- OneUnit
  Handlers = {"normal", "static"}
  Invalid = {1}
  BadUrl = {3}
  BadStatus = {2}
  SndBuf = 2
  MaxWire = 12
  Pipelining = FALSE
  EarlyAnswer = FALSE
  Closes = {}
PROPERTY EveryRequestAnswered
CHECK_DEADLOCK FALSE
