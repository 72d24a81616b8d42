CONSTANTS
  Service = {s1, s2}
  Batch = {b1}
  None = none
  TTL = 2
  HeartbeatBound = 0
  MaxClock = 3
  MaxCommits = 1
  t1 = t1
  e1 = e1
SPECIFICATION MCSpec
SYMMETRY Symmetry
INVARIANTS EpochFences HistoryModeHolds EndedHoldsNothing WindowExcludesWrites TerminalRecorded SoundStream
PROPERTIES  RecoveryIsRecorded
