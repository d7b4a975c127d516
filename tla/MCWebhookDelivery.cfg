SPECIFICATION LiveSpec
CONSTANTS
  e1 = e1
  e2 = e2
  c1 = c1
  Events = {e1, e2}
  Configs = {c1}
  ConfigOf <- OneConfig
  Workers = {w1, w2}
  WEBHOOK_MAX_RETRIES = 2
INVARIANTS
  TypeOK
  FailedWasTried
PROPERTIES
  SettledNeverPending
  RetriesEnd
CHECK_DEADLOCK FALSE
