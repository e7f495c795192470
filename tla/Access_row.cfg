SPECIFICATION FairSpec
CONSTANTS
  Requests = {r1, r2}
  Operator = Operator
  TokenLife = 2
INVARIANT OperatorsWordStands RowInv
PROPERTY RevokedIsRefused BanEndsAccess
