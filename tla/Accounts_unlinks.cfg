SPECIFICATION Spec
CONSTANTS
  Requests = {r1, r2}
  Worlds <- Unlinking
  NoEmail = NoEmail
  MaxRows = 7
SYMMETRY Symmetry
PROPERTY LastWayIsKept
CHECK_DEADLOCK FALSE
