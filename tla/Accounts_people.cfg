SPECIFICATION Spec
CONSTANTS
  Requests = {r1, r2}
  Worlds <- AllWorlds
  NoEmail = NoEmail
  MaxRows = 7
SYMMETRY Symmetry
INVARIANT TypeOK IdentityHasProfile NameIsUsable OneUserPerEmail SameAccountSameUser AccountsInv
PROPERTY OnlyCrossedUnlinksLockOut
CHECK_DEADLOCK FALSE
