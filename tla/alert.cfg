\* Two channels, the second with two gateways; three attempts, two alerts per
\* window of one tick.
CONSTANTS
    Keys <- MCTwoKeys
    NumChannels = 2
    RateLimit = TRUE
    RateMax = 2
    RateWindow = 1
    RetryMax = 3
    InitialBackoff = 1
    MaxBackoff = 3
    Minute = 60
    AlertCap = 1
    DropOnFull = TRUE
    MaxTime = 2
    MaxEvents = 4
    u1 = u1
    u2 = u2
    Urls <- MCUrls
SPECIFICATION PushSpec
INVARIANTS
    PushTypeOK
    RateBound
    BucketCountsFired
    EveryChannelTried
    GivenUpOnlyWhenExhausted
    BackoffGrowsToCap
    SentMeansEveryGateway
    NoPushOutlivesSend
PROPERTY
    ShutdownStopsEngine
CHECK_DEADLOCK FALSE
