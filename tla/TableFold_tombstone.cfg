SPECIFICATION Spec
CONSTANTS
    k1 = k1
    k2 = k2
    a = a
    b = b
    Keys = {k1, k2}
    Values = {a, b}
    Kinds <- MCTombstone
    MaxEvents = 4
INVARIANTS LiveImage
CHECK_DEADLOCK FALSE
