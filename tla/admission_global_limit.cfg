\* Two calls of two nodes, one global slot.
SPECIFICATION Spec
CONSTANTS
    n1 = n1  n2 = n2
    u1 = u1  u2 = u2  u3 = u3
    g1 = g1  g2 = g2  a1 = a1
    Node = {n1, n2}
    Uuid = {u1, u2}
    Gw = {g2}
    Ap = {}
    Global = Global  NoGw = NoGw  NoAp = NoAp
    GLimit = 1
    GwLimit <- MCGwLimit
    ApLimit <- MCApLimit
    Home <- MCHome
    ApOf <- MCApOf
    FailOpen = FALSE
    QueueSize = 3
    FaultKinds = {}
    MaxFaults = 0
INVARIANTS
    GlobalLimitHolds
CHECK_DEADLOCK FALSE
