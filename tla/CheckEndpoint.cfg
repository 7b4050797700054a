SPECIFICATION EndpointSpec
CONSTANTS
    None = None
    Absent = Absent
    Nil = Nil
    Workers = {w1, w2}
    Messages <- MCMessages
    Strip <- MCStrip
    BlockHits = {}
    AllowHits = {}
    DomainSim <- MCSim
    OodSim <- MCSim
    States = {}
    Guards <- MCGuards
    Calls <- MCCalls
    MaxSize = 1
    TTL = 9
    LogSize = 1
    MaxChecks = 2
    MaxClock = 8
    TicksPerSecond = 3
    Limit = 1
    Window = 2
    Clients = {c1}
    MaxReceived = 2
    MaxOthers = 1
    MaxCrashes = 1
INVARIANTS
    EndpointTypeOK
    WindowExact
    RetryAfterHonest
    LimitedBeforeCheck
PROPERTIES
    WindowsLast
    EveryRequestAnswered
