SPECIFICATION Spec
CONSTANTS
  e = e
  None = None
  Blank = Blank
  Letters = {"x", "=", "'"}
  Refs = {1, 2}
  Dates = {1, 2}
  Sizes = {0, 1, 3, 4, 5, 6}
  Chunk = 2
  FileLimit = 3
  Overhead = 2
  Framing = 1
  LegacyRows <- MCLegacyRows
  NativeRows <- MCNativeRows
  MaxRows = 3
  Ledgers <- MCLedgers
  Existing = {e}
  LastDates <- MCLastDates
  Mappings <- MCMappings
  Workers = {w1, w2}
INVARIANTS
  TypeOK
  OversizeRefused
  EveryRowAccounted
  RoundTrip
  ImportedOnceUnlessOverlapping
CHECK_DEADLOCK FALSE
