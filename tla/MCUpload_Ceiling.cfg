SPECIFICATION Spec
CONSTANTS
    Records = {r1, r2, r3}
    MaxRetries = 1
    RetryCeiling = 4
    Timeout = 2
    RetryBackoff = 1
    MaxBackoff = 2
    MaxRetryAfter = 4
    Second = 3
    MaxTime = 15
    MaxInt = 10
    Throttles = {0, 1, 3, 9, 11}
    Dates <- MCDates
INVARIANTS
    CeilingBoundsTime
