SPECIFICATION Spec
CONSTANTS
    None = None
    Absent = Absent
    Workers = {w1, w2}
    Messages <- MCMessages
    Strip <- MCStrip
    BlockHits <- MCBlockHits
    AllowHits <- MCAllowHits
    DomainSim <- MCDomainSim
    OodSim <- MCOodSim
    States <- MCStates
    Guards <- ShadowGuards
    Calls <- OneCall
    MaxSize = 1
    TTL = 1
    LogSize = 2
    MaxChecks = 2
    MaxClock = 1
INVARIANT ShadowNeverBlocks
