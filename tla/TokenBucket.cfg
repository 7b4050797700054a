SPECIFICATION Spec
CONSTANTS
    NoBucket = NoBucket
    Workers = {w1, w2}
    Keys = {k1, k2}
    Capacity = 3
    RefillRate = 2
    Costs = {1, 3}
    MaxTakes = 4
    MaxClock = 3
SYMMETRY Symmetry
INVARIANTS
    TokensInRange
    GrantBound
    RateHoldsInOrder
PROPERTY ResetIsHonest
