SPECIFICATION Spec
CONSTANTS
  Ids = {p1, p2, p3}
  CycleDays <- MCCycleDays
  LastDay = 5
  Borrowed = {10}
  StartDays = {2}
  Rates = {2500, 5000}
  Amounts = {4, 12}
  ImportFiles <- MCImportFiles
  StatusPatches = {"active", "closed"}
SYMMETRY Symmetry
INVARIANTS
  TypeOK
  NoPaymentInAnchorGap
  LivePaymentsCountedOnce
  SettledCycleNotChargedAgain
  BalanceDeterminedUnlessImportTie
PROPERTIES
  DeletionLeavesConsistent
  ImportedInterestKept
  LiveSnapshotIsReplay
  AppendKeepsConsistent
  AutoPaymentIsNew
CHECK_DEADLOCK FALSE
