SPECIFICATION Spec
CONSTANTS
  a = a
  b = b
  Tabs = {a, b}
  Calls <- MCCalls
  Workloads <- MCWorkloads
  Tokens = {1, 2, 3}
  MaxColdRetries = 1
  HasLocks = TRUE
  NoToken = NoToken
  Nobody = Nobody
INVARIANTS
  ResendIsSafe
CHECK_DEADLOCK FALSE
