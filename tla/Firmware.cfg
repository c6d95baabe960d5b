SPECIFICATION Spec
CONSTANTS
  d1 = d1
  d2 = d2
  None = None
  Never = Never
  Udids = {d1, d2}
  Old = {d1}
  AutoUpdate = {d1}
  MaxVersion = 2
  MaxNow = 1
  Day = 2
  Hour = 1
  Builds <- TheBuilds
  Asks <- TheAsks
  Kind <- TheKinds
  MaxPipe = 1
  MaxCalls = 1
  CanCrash = TRUE
INVARIANTS TypeOK TokensExpire ServedIsOwn
PROPERTY UpdateArrives
CHECK_DEADLOCK FALSE
