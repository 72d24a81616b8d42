CONSTANTS
  Wal <- WalMixed
  Tables = {"t", "u"}
  FailingTables = {"u"}
  MaxBatch = 3
  MaxEvents = 3
  SpillEvents = 9
  MaxStops = 3
SPECIFICATION Spec
INVARIANTS TypeOK InvariantO ReplayStaysReadable ExactlyOnce WholeTransactions
PROPERTY DeliversInOrder
