\* Blocking mode under the fairness of the program's own goroutines.
CONSTANTS
    s1 = s1
    s2 = s2
    w = w
    NoSession = NoSession
    Subscribers <- MCSubscribersOne
    Waiter = w
    WireRoles <- MCWireRolesTwo
    AllowReplica = FALSE
    GateInstalled = TRUE
    DropOnFull = FALSE
    OutCap = 1
    MaxBuf = 2
    BackoffMin = 1
    BackoffMax = 3
SPECIFICATION FairSpec
PROPERTIES
    ShutdownStopsClient
    ShutdownStopsHelpers
    PromotionResumes
    DemotionCloses
CHECK_DEADLOCK FALSE
