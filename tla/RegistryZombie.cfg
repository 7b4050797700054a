SPECIFICATION Spec
CONSTANTS
    Invalid = Invalid
    Missing = Missing
    PathOrder <- OneFile
    Edits <- RenameEdits
    Puts <- NoPuts
    Admins = {}
    MaxWrites = 3
PROPERTY DeletionsUnload
