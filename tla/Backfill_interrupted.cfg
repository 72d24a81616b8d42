CONSTANTS
  t1 = t1
  t2 = t2
  k1 = k1
  Tables = {t1}
  Keys = {k1}
  Initial <- MCInitial
  MaxSignals = 3
  MaxRuns = 1
  MaxRequests = 1
  MaxStops = 1
  MayFail = FALSE
SPECIFICATION FairSpec
PROPERTY RefreshFinishes
CHECK_DEADLOCK FALSE
