SPECIFICATION TuningSpec
CONSTANTS
    None = None
    NoResult = NoResult
    Messages <- MCMessages
    Strip <- MCStrip
    BlockHits = {"spam"}
    AllowHits = {"spam"}
    DomainSim <- MCDomainSim
    OodSim <- MCOodSim
    States = {}
    Configs <- MCConfigs
    SampleFiles <- MCSamples
    PassGrid <- MCPassGrid
    BlockGrid <- MCBlockGrid
    Traffics <- MCTraffics
INVARIANTS
    BestIsBest
    BlockCutIsFirst
    ReportMatchesGuard
    FlipsExact

