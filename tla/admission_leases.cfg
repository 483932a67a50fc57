\* Fail-open, leases that end, events lost, Redis away; the queue has room for every event.
SPECIFICATION FairSpec
CONSTANTS
    n1 = n1  n2 = n2
    u1 = u1  u2 = u2  u3 = u3
    g1 = g1  g2 = g2  a1 = a1
    Node = {n1, n2}
    Uuid = {u1, u2}
    Gw = {g1, g2}
    Ap = {a1}
    Global = Global  NoGw = NoGw  NoAp = NoAp
    GLimit = 2
    GwLimit <- MCGwLimit
    ApLimit <- MCApLimit
    Home <- MCHome
    ApOf <- MCApOf
    FailOpen = TRUE
    QueueSize = 8
    FaultKinds = {"loss", "expiry", "outage"}
    MaxFaults = 1
INVARIANTS
    CountersCoverCredentials
    CredentialFollowsLeg
PROPERTIES
    EveryRequestIsAnswered
    GoneCallIsReleased
CHECK_DEADLOCK FALSE
