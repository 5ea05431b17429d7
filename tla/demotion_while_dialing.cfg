\* A role transition between the gate check and the subscription.
CONSTANTS
    s1 = s1
    s2 = s2
    w = w
    NoSession = NoSession
    Subscribers <- MCSubscribersOne
    Waiter = w
    WireRoles <- MCWireRolesTwo
    AllowReplica = FALSE
    GateInstalled = TRUE
    DropOnFull = FALSE
    OutCap = 1
    MaxBuf = 1
    BackoffMin = 1
    BackoffMax = 1
SPECIFICATION FairSpec
PROPERTY
    ReplicaSessionCloses
CHECK_DEADLOCK FALSE
