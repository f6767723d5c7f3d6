SPECIFICATION FairSpec
CONSTANTS
    L = 3
    TRIES = 2
    RETRIES = 2
    MaxEvents = 2
    MaxLost = 1
\* System.run may give up and end the process.
CHECK_DEADLOCK FALSE
INVARIANTS
    TypeOK
    LinesInOrder
    AckIsOwn
PROPERTY EveryCommandSent
