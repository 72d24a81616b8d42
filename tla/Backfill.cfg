CONSTANTS
  t1 = t1
  t2 = t2
  k1 = k1
  Tables = {t1, t2}
  Keys = {k1}
  Initial <- MCInitial
  MaxSignals = 3
  MaxRuns = 2
  MaxRequests = 2
  MaxStops = 1
  MayFail = TRUE
SPECIFICATION FairSpec
INVARIANTS BooksBalance IncrementalImage
PROPERTIES IntentPublished ScanReopens
CHECK_DEADLOCK FALSE
