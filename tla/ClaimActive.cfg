SPECIFICATION Spec
CONSTANTS
  Requests = {r1, r2}
  Workers = {w1, w2}
  MAX_ACTIVE_REQUESTS = 1
  MaxAccounts = 2
INVARIANT ActiveLimit
CHECK_DEADLOCK FALSE
