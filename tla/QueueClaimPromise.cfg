SPECIFICATION FairSpec
CONSTANTS
  Udids = {d1, d2}
  Requests = {r1, r2}
  Sockets = {w1, w2}
  Pollers = {}
  Slots = {b1, b2}
  MaxRunningBuilds = 1
  MaxLoops = 1
  MaxPolls = 1
  KeysReply = "promise"
  RejectionExits = FALSE
  CanCrash = FALSE
  None = None
PROPERTY WaitingEnds
