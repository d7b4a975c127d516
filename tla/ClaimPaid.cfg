SPECIFICATION Spec
CONSTANTS
  Ids = {p1, p2}
  CycleDays <- MCCycleDays
  LastDay = 5
  Borrowed = {10}
  StartDays = {1}
  Rates = {2500}
  Amounts = {13}
  ImportFiles <- NoImports
  StatusPatches = {}
SYMMETRY Symmetry
INVARIANT PaidAccountOwesNothing
CHECK_DEADLOCK FALSE
