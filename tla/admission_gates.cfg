\* Three calls of two nodes compete for one gateway slot, one access point slot and two global slots.
SPECIFICATION Spec
CONSTANTS
    n1 = n1  n2 = n2
    u1 = u1  u2 = u2  u3 = u3
    g1 = g1  g2 = g2  a1 = a1
    Node = {n1, n2}
    Uuid = {u1, u2, u3}
    Gw = {g1, g2}
    Ap = {a1}
    Global = Global  NoGw = NoGw  NoAp = NoAp
    GLimit = 2
    GwLimit <- MCGwLimit
    ApLimit <- MCApLimit
    Home <- MCHome
    ApOf <- MCApOf
    FailOpen = FALSE
    QueueSize = 1
    FaultKinds = {}
    MaxFaults = 0
INVARIANTS
    GwAdmittedWithinLimit
    ApWithinLimit
PROPERTIES
    RefinesLedger
CHECK_DEADLOCK FALSE
