SPECIFICATION FairSpec
CONSTANTS
  Polls = {q1, q2}
  Callbacks = {b1, b2}
  Accounts = {alice}
  Nobody = Nobody
  Ttl = 2
  Environment = {"tabs", "failure", "overlap", "lag", "loss"}
INVARIANT TypeOK
INVARIANT UsedOnce
INVARIANT SuccessIsNotExpired
INVARIANT HandedOutWasGranted
INVARIANT FlowInv
PROPERTY EventuallyAnswered
CHECK_DEADLOCK FALSE
