SPECIFICATION Spec
CONSTANTS
    Absent = Absent
    Threads = {t1, t2}
    Keys = {k1, k2, k3}
    Values = {v1, v2}
    MaxSize = 2
    TTL = 1
    MaxOps = 5
    MaxClock = 2
SYMMETRY Symmetry
INVARIANTS
    Shape
    ForgetsOldest
PROPERTIES
    KeepsWhatFits
    ImplementsResultCache
