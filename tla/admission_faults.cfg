\* Two nodes, two calls, up to two faults of any kind but loss and expiry.
SPECIFICATION Spec
CONSTANTS
    n1 = n1  n2 = n2
    u1 = u1  u2 = u2  u3 = u3
    g1 = g1  g2 = g2  a1 = a1
    Node = {n1, n2}
    Uuid = {u1, u2}
    Gw = {g1, g2}
    Ap = {a1}
    Global = Global  NoGw = NoGw  NoAp = NoAp
    GLimit = 2
    GwLimit <- MCGwLimit
    ApLimit <- MCApLimit
    Home <- MCHome
    ApOf <- MCApOf
    FailOpen = FALSE
    QueueSize = 3
    FaultKinds = {"outage", "reply", "restart", "fscrash"}
    MaxFaults = 2
INVARIANTS
    TypeOK
    CountersMatchCredentials
    RoutedCallIsCharged
PROPERTIES
    RefusedAtMostOneSlotEarly
CHECK_DEADLOCK FALSE
