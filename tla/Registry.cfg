SPECIFICATION Spec
CONSTANTS
    Invalid = Invalid
    Missing = Missing
    PathOrder <- TwoFiles
    Edits <- TwoEdits
    Puts <- TwoPuts
    Admins = {a1}
    MaxWrites = 3
INVARIANTS
    TypeOK
    DictsAgree
PROPERTIES
    LastGoodStays
    UntornEditsPickedUp
    UntornDeletionsUnload
