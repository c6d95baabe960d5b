SPECIFICATION Spec
CONSTANTS
  user = user
  provider = provider
  Links <- TheLinks
  Requests <- TheRequests
  MaxCalls = 3
  MaxPipe = 2
  CanCrash = TRUE
  CanFail = TRUE
INVARIANTS TypeOK SignedIsAccepted LinksExpire
PROPERTY EveryCallAnswered
CHECK_DEADLOCK FALSE
