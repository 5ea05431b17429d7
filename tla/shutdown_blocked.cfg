\* drop_on_full: false and a shutdown while the pipeline is full.
CONSTANTS
    NumOutputs = 1
    SinkName <- MCOneName
    QueueCap = 1
    EventCap = 1
    AlertsEnabled = TRUE
    MaxEvents = 4
SPECIFICATION FairSpec
PROPERTIES
    RunReturns
CHECK_DEADLOCK FALSE
