\* A block that the operator disabled, saved as disabled, runs after the boot.
SPECIFICATION Spec
CONSTANTS
    Label <- MCLabel
    Files <- MCFiles
    ConsoleLines <- MCConsoleLines
    Shorter <- MCShorter
    Down = Down
    Torn = Torn
    MaxNodes = 24
    MaxEdits = 1
    MaxLosses = 1
PROPERTY
    DisabledStaysDisabled
