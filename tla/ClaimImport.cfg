SPECIFICATION Spec
CONSTANTS
  Ids = {p1, p2, p3}
  CycleDays <- MCCycleDays
  LastDay = 5
  Borrowed = {10}
  StartDays = {1}
  Rates = {2500}
  Amounts = {4}
  ImportFiles <- OneImport
  StatusPatches = {}
SYMMETRY Symmetry
PROPERTY ImportReflectsHistory
CHECK_DEADLOCK FALSE
