SPECIFICATION Spec
CONSTANTS
  Requests = {r1, r2}
  Operator = Operator
  TokenLife = 2
PROPERTY RevocationIsImmediate
