\* A shutdown while sendOne waits between two attempts.
CONSTANTS
    Keys <- MCTwoKeys
    NumChannels = 2
    RateLimit = TRUE
    RateMax = 2
    RateWindow = 1
    RetryMax = 3
    InitialBackoff = 1
    MaxBackoff = 3
    Minute = 60
    AlertCap = 1
    DropOnFull = TRUE
    MaxTime = 2
    MaxEvents = 4
    u1 = u1
    u2 = u2
    Urls <- MCUrls
SPECIFICATION PushSpec
INVARIANT
    CapturedOnlyWhenExhausted
CHECK_DEADLOCK FALSE
