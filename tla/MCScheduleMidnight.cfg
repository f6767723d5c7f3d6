SPECIFICATION Spec
CONSTANTS
    DAY = 16
    WORD = 256
    ONE_SHOT_DURATION = 2
    MaxLag = 3
    Schedules <- LateWindows
INVARIANT OnItsDaysOnly
