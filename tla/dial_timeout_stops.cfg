\* A dial that times out while nobody asked the daemon to stop.
CONSTANTS
    s1 = s1
    s2 = s2
    w = w
    NoSession = NoSession
    Subscribers <- MCSubscribersOne
    Waiter = w
    WireRoles <- MCWireRolesTwo
    AllowReplica = FALSE
    GateInstalled = TRUE
    DropOnFull = FALSE
    OutCap = 1
    MaxBuf = 1
    BackoffMin = 1
    BackoffMax = 1
SPECIFICATION Spec
INVARIANT
    RunBlocksUntilCancelled
CHECK_DEADLOCK FALSE
