SPECIFICATION Spec
CONSTANTS
  Requests = {r1, r2}
  Amounts = {1, 2}
  MaxInt = 4
  MaxMoved = 5
SYMMETRY Symmetry
INVARIANT NothingIsLost
CHECK_DEADLOCK FALSE
