SPECIFICATION Spec
CONSTANTS
    Nil = Nil
    p1 = p1
    p2 = p2
    a1 = a1
    a2 = a2
    b1 = b1
    old = old
    new = new
    other = other
    Processes = {p1, p2}
    Workers = {a1, a2, b1}
    Home <- MCHome
    Keys = {k1, k2}
    Versions = {old, new, other}
    Reading <- MCReading
    TicksPerSecond = 1
    TTL = 1
    MaxChecks = 3
    MaxRestarts = 2
    MaxClock = 2
SYMMETRY Symmetry
INVARIANTS
    CountersAddUp
PROPERTIES
    StaleVersionsFade
    ImplementsResultCache
