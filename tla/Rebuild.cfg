CONSTANTS
  t1 = t1
  t2 = t2
  e1 = e1
  Tables = {t1, t2}
  Fragile = {t1}
  DropModes = {"log", "replicate"}
  Starts = {"complete", "awaiting_snapshot"}
  MaxWal <- StartBound
  MaxAlters <- StartBound
  MaxFaults = 1
SPECIFICATION MCSpec
INVARIANTS  HandOver QuarantineHolds
PROPERTIES RecoveryFinishes OwedIsServed
