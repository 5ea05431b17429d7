\* Drop mode, a gate that closes on replicas, one spare slot in the queue.
CONSTANTS
    s1 = s1
    s2 = s2
    w = w
    NoSession = NoSession
    Subscribers <- MCSubscribers
    Waiter = w
    WireRoles <- MCWireRoles
    AllowReplica = FALSE
    GateInstalled = TRUE
    DropOnFull = TRUE
    OutCap = 1
    MaxBuf = 1
    BackoffMin = 1
    BackoffMax = 2
SPECIFICATION Spec
INVARIANTS
    TypeOK
    NoLostWakeup
    NoMissedTransition
    SessionWakeup
    NoLeakedSubscription
    OpenSessionIsGuarded
    QuiescentOutsideSession
SYMMETRY MCSymmetry
PROPERTY
    RCSpec
CHECK_DEADLOCK FALSE
