SPECIFICATION Spec
CONSTANTS
  o1 = o1
  t1 = t1
  t2 = t2
  o2 = o2
  d1 = d1
  d2 = d2
  Owners = {o1, o2}
  Devices = {d1, d2}
  FirstOwner <- EachHasOne
  Hole = Hole
  None = None
  Offers = {t1, t2}
  Calls = {c1, c2}
  Bodies <- SmallBodies
  Picks <- SmallPicks
  MaxPipe = 2
  CanCrash = TRUE
  CanFail = TRUE
INVARIANTS TypeOK AnsweredWillEnd ArtefactsKept
PROPERTIES AcceptedArrives EveryCallAnswered ImplementsContract
CHECK_DEADLOCK FALSE
