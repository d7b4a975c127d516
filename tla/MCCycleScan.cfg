SPECIFICATION LiveSpec
CONSTANTS
  Accounts = {a1, a2}
  Workers = {w1, w2}
  MaxCycles = 2
INVARIANTS
  TypeOK
  NoGap
PROPERTIES
  KeepsPromise
  EveryCloseNotified
