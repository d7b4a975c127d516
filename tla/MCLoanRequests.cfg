SPECIFICATION LiveSpec
CONSTANTS
  Requests = {r1, r2}
  Workers = {w1, w2}
  MAX_ACTIVE_REQUESTS = 1
  MaxAccounts = 2
INVARIANTS
  TypeOK
  ApprovedHasAccount
PROPERTIES
  NoAccountFromDeleted
  EveryRequestAnswered
CHECK_DEADLOCK FALSE
