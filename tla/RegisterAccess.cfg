SPECIFICATION Spec
CONSTANTS
    Clients = {c, d}
    Registers = {"CR", "DR"}
    Layout <- TwoWords
    Fields <- OneField
    Values = {3, 5}
    Tools = {"field", "value", "read", "memory", "read_all", "core", "flash"}
    Images = {1}
    WordCells = 2
    CellBits = 1
    CellCount = 4
    MaxRuns = 1
    MaxTimeouts = 1
    MaxPipe = 1
SYMMETRY Symmetric
INVARIANT TypeOK
PROPERTIES FieldOnly WrittenMeansStored
CHECK_DEADLOCK TRUE
