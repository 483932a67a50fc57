\* Nothing fails; a call starts during a round.
SPECIFICATION RSpec
CONSTANTS
    n1 = n1  n2 = n2
    u1 = u1  u2 = u2  u3 = u3
    g1 = g1  g2 = g2  a1 = a1
    Node = {n1}
    Uuid = {u1}
    Gw = {g1}
    Ap = {}
    Global = Global  NoGw = NoGw  NoAp = NoAp
    GLimit = 2
    GwLimit <- MCGwLimit
    ApLimit <- MCApLimit
    Home <- MCHome
    ApOf <- MCApOf
    FailOpen = FALSE
    QueueSize = 3
    FaultKinds = {}
    MaxFaults = 0
INVARIANTS
    LiveCallKeepsCredential
CHECK_DEADLOCK FALSE
