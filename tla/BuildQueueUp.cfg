SPECIFICATION Spec
CONSTANTS
  Udids = {d1, d2}
  Requests = {r1, r2, r3}
  Sockets = {w1}
  Pollers = {}
  Slots = {b1, b2}
  MaxRunningBuilds = 1
  MaxLoops = 1
  MaxPolls = 1
  KeysReply = "list"
  RejectionExits = FALSE
  CanCrash = FALSE
  None = None
SYMMETRY Symmetry
INVARIANTS TypeOK RunningHasBuild
PROPERTIES NeverStartedTwice NeverWaitingAgain ImplementsRequests
