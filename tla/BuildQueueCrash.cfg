SPECIFICATION FairSpec
CONSTANTS
  Udids = {d1}
  Requests = {r1, r2}
  Sockets = {w1}
  Pollers = {w1}
  Slots = {b1, b2}
  MaxRunningBuilds = 2
  MaxLoops = 1
  MaxPolls = 1
  KeysReply = "list"
  RejectionExits = FALSE
  CanCrash = TRUE
  None = None
INVARIANT RunningWillExpire
PROPERTIES NeverWaitingAgain RunningEnds
