SPECIFICATION Spec
CONSTANTS
  Polls = {q1, q2}
  Callbacks = {b1}
  Accounts = {alice}
  Nobody = Nobody
  Ttl = 2
  Environment = {"lag"}
INVARIANT SuccessWaits
CHECK_DEADLOCK FALSE
