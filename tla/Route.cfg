SPECIFICATION Spec
CONSTANTS
    None = None
    Workers = {w1, w2}
    Sessions = {s1}
    Scopes <- MCScopes
    GuardNames <- MCNames
    Loaded <- MCLoaded
    Confidences = {1, 2}
    MaxRoutes = 2
    MaxChanges = 2
SYMMETRY Symmetry
INVARIANTS
    RouteSound
    StickyIsLast
    SignatureTells
    ServedInTurn
