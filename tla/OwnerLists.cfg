SPECIFICATION Spec
CONSTANTS
  short = short
  long = long
  Names <- TwoNames
  Contains <- LongContainsShort
  KeyLists = {k}
  EnvLists = {e}
  Requests = {r1, r2}
  MaxTime = 1
  MaxPipe = 3
  CanFail = TRUE
  CanCrash = TRUE
  RejectionExits = FALSE
SYMMETRY Symmetry
INVARIANTS TypeOK EnvNamesUnique CreatedIsKept RevokedStaysGone
