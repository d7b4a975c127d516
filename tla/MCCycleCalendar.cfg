SPECIFICATION Spec
CONSTANTS
  FirstDay <- MCFirstDay
  LastDay  <- MCLastDay
  Years    <- MCYears
INVARIANTS
  TypeOK
  NextCycleIsLeast
  AdvanceIsSuccessor
  CalendarAgrees
CHECK_DEADLOCK FALSE
