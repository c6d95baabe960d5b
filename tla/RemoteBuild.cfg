SPECIFICATION Spec
CONSTANTS
  Builds = {b1, b2}
  Udids = {d1, d2}
  Sockets = {w1, w2}
  CanFail = TRUE
  CanCrash = TRUE
  MaxPending = 2
  None = None
SYMMETRY Symmetry
INVARIANTS TypeOK LastStateShown
PROPERTIES HonoursContract
