CONSTANTS
  Wal <- WalLarge
  Tables = {"t", "u"}
  FailingTables = {"u"}
  MaxBatch = 3
  MaxEvents = 3
  SpillEvents = 2
  MaxStops = 1
SPECIFICATION Spec
INVARIANT ExactlyOnce
