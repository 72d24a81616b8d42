CONSTANTS
  k1 = k1
  k2 = k2
  a = a
  b = b
  Keys = {k1, k2}
  Values = {a, b}
  Kinds <- MCKinds
  MaxEvents = 5
SPECIFICATION MCSpec
INVARIANTS FoldIsExact HistoryIsTheSource  AgreementAsConfigured NoZombies BaselineHonest
PROPERTIES KeepsTombstones
