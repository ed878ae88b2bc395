SPECIFICATION Spec
CONSTANTS
    Records = {r1, r2, r3}
    MaxRetries = 2
    RetryCeiling = 6
    Timeout = 1
    RetryBackoff = 2
    MaxBackoff = 3
    MaxRetryAfter = 4
    Second = 3
    MaxTime = 15
    MaxInt = 10
    Throttles = {0, 1, 3, 9, 11}
    Dates <- MCDates
INVARIANTS
    Settled
    VerdictTellsLoss
    NoLateRetry
    WallClock
PROPERTIES
    WaitsAsTold
    CloseReleases
    UploadEnds
