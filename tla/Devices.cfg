SPECIFICATION Spec
CONSTANTS
  o1 = o1
  o2 = o2
  mac = mac
  src = src
  mesh = mesh
  None = None
  Own = Own
  Owners <- TheOwners
  Macs = {mac}
  Sources = {src}
  Meshes = {mesh}
  Udids <- TheUdids
  Versions = {1, 2}
  Known <- TheKnown
  Requests <- TheRequests
  MaxCalls = 3
  More <- TheMore
  CanCrash = TRUE
  CanFail = TRUE
INVARIANT TypeOK
INVARIANT ChangesStay
INVARIANT CanConnect
INVARIANT CredsGone
PROPERTY EveryCallAnswered
CHECK_DEADLOCK FALSE
