\* A request for the live calls is single, and the moves of gateways are bounded.
SPECIFICATION Spec
CONSTANTS
    n1 = n1  n2 = n2  m1 = m1  m2 = m2  g1 = g1  g2 = g2  c1 = c1  c2 = c2  c3 = c3
    HealthNode = {n1, n2}
    FAIL_THRESHOLD = 3
    STALE = 3
    MaxTrouble = 4
    MaxAge = 6
    Prober = n1
    MaxCount = 10
    Gateway = {g1, g2}
    FsState = {"REGED", "TRYING", "DOWN", "FAIL_WAIT", "UNHEARD_OF"}
    Attempts = 2
    MaxGwMoves = 2
    MaxFaults = 2
    Node = {m1, m2}
    Call = {c1, c2, c3}
    NodeOf <- MCNodeOf
    LateCall = {c1, c2}
    LateNodeOf <- MCLateNodeOf
    NoGateway = NoGateway
    MAX_CHANNELS = 3
    MaxMoves = 2
SYMMETRY Symmetry
INVARIANTS
    SteadyNodeIsOnline
    AlignmentTells
    LiveCallsAreTold
PROPERTIES
    DownOnlyAfterFailures
CHECK_DEADLOCK FALSE
