SPECIFICATION Spec
CONSTANTS
    None = None
    Absent = Absent
    Workers = {w1, w2}
    Messages <- MCMessages
    Strip <- MCStrip
    BlockHits <- MCBlockHits
    AllowHits <- MCAllowHits
    DomainSim <- MCDomainSim
    OodSim <- MCOodSim
    States <- MCStates
    Guards <- MCGuards
    Calls <- MCCalls
    MaxSize = 1
    TTL = 1
    LogSize = 2
    MaxChecks = 3
    MaxClock = 2
SYMMETRY Symmetry
INVARIANTS
    TypeOK
    VerdictSound
    Accounting
PROPERTIES
    HitsAreFresh
    StampsAdvance
