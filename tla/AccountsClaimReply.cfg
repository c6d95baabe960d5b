SPECIFICATION Spec
CONSTANTS
  o1 = o1
  o2 = o2
  n1 = n1
  n2 = n2
  mesh = mesh
  None = None
  Gone = Gone
  Owners <- TheOwners
  Names = {n1, n2}
  Meshes = {mesh}
  Known <- TheKnown
  Requests <- TheRequests
  More <- TheMore
  MaxCalls = 3
  CanCrash = FALSE
  CanFail = FALSE
INVARIANT LoggedInAsOneself
CHECK_DEADLOCK FALSE
