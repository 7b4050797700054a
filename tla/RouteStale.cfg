SPECIFICATION Spec
CONSTANTS
    None = None
    Workers = {w1}
    Sessions = {s1}
    Scopes <- OpenScope
    GuardNames <- MCNames
    Loaded <- MCLoaded
    Confidences = {1, 2}
    MaxRoutes = 3
    MaxChanges = 2
INVARIANT ReloadReachesRoute
