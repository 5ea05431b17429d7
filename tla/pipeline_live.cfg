\* One network output whose peer may stall, and alert channels that may hang:
\* three events fill the sink's hands and its queue, and overflow it.
CONSTANTS
    NumOutputs = 1
    SinkName <- MCOneName
    SinkKinds <- MCOneKind
    QueueCap = 1
    EventCap = 1
    AlertsEnabled = TRUE
    MaxEvents = 3
    SockBuf = 1
SPECIFICATION NetFairSpec
PROPERTIES
    SlowDownstreamCannotBackUp
    ShutdownCompletes
    DeliveredUnlessShutdown
    TimeoutsBoundWrite
CHECK_DEADLOCK FALSE
