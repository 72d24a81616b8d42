CONSTANTS
  Tables = {t1}
  EmptyTables = {}
  Modes = {"initial"}
  Flags = {"none"}
  Faults = {"recreate", "window"}
  MaxTxns = 3
  MaxFaults = 2
  MaxCrashes = 1
SPECIFICATION Spec
INVARIANT SoundStream
