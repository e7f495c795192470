SPECIFICATION Spec
CONSTANTS
  Requests = {r1, r2, r3}
  Amounts = {1, 2}
  MaxInt = 4
  MaxMoved = 5
SYMMETRY Symmetry
INVARIANT TypeOK
INVARIANT NothingConjured
INVARIANT StockIsOwed
INVARIANT StockInv
CHECK_DEADLOCK FALSE
