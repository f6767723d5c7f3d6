SPECIFICATION Spec
CONSTANTS
    Label <- MCLabel
    Files <- MCFiles
    ConsoleLines <- MCConsoleLines
    Shorter <- MCShorter
    Down = Down
    Torn = Torn
    MaxNodes = 24
    MaxEdits = 1
    MaxLosses = 1
INVARIANTS
    TypeOK
    IdsInv
PROPERTIES
    BootRefsResolve
    ReferenceKeepsItsTarget
    ReloadKeepsSaved
    StoreSpec
