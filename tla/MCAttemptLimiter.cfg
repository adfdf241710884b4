SPECIFICATION LimiterSpec
CONSTANTS
    MaxAttempts = 2
    LockoutSecs = 3
    MaxTime = 9
    MaxTries = 6
INVARIANT Throttled
CHECK_DEADLOCK FALSE
