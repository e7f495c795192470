SPECIFICATION Spec
CONSTANTS
  Requests = {r1, r2}
  Worlds <- Failing
  NoEmail = NoEmail
  MaxRows = 7
SYMMETRY Symmetry
INVARIANT WhoeverSignsInHasProfile
CHECK_DEADLOCK FALSE
