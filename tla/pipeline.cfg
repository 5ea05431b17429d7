\* Both modes, a file and a network output whose peer may stall or fail.
\* Channels of capacity one and three events, so that each queue fills up; a
\* socket holds half a record that the peer has not read.
CONSTANTS
    NumOutputs = 2
    SinkName <- MCTwoNames
    SinkKinds <- MCTwoKinds
    QueueCap = 1
    EventCap = 1
    AlertsEnabled = FALSE
    MaxEvents = 3
    SockBuf = 1
SPECIFICATION NetSpec
INVARIANTS
    TypeOK
    EveryEventAccounted
    InOrder
    FailingOutputsExact
    RecordsNeverMerge
    WireMatchesLog
PROPERTIES
    AuditSpec
CHECK_DEADLOCK FALSE
