SPECIFICATION Spec
CONSTANTS
    Workers = {w1, w2}
    Rounds = 2
    CallCounts = {2}
    MaxChats = 2
    MaxResets = 1
INVARIANTS
    PromptsPaired
    TurnsAlternate
    ResetForgets
    MockNeverGivesUp
PROPERTIES
    EveryChatEnds
