CONSTANTS
  Wal <- WalLarge
  Tables = {"t", "u"}
  FailingTables = {}
  MaxBatch = 3
  MaxEvents = 3
  SpillEvents = 2
  MaxStops = 2
SPECIFICATION FairSpec
INVARIANTS ExactlyOnce
PROPERTIES DeliversEventually SlotAdvances
