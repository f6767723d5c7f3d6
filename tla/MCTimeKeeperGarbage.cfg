SPECIFICATION Spec
CONSTANTS
    SECOND = 4
    DAY = 5
    WORD = 32
    RTC_POLL_INTERVAL = 16
    SLACK = 8
    Gaps <- MCGaps
    DRIFT = 5
    Garbage <- NearGarbage
    Horizon = 64
    MaxSets = 1
\* Time is bounded by Horizon.
CHECK_DEADLOCK FALSE
INVARIANT WrongReportRefused
