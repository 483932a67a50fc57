\* A call that is over does nothing more, and the bound on rules created is reached.
SPECIFICATION DialplanSpec
CONSTANTS
    u1 = u1  u2 = u2  u3 = u3
    NoAp = NoAp
    Null = Null
    Failed = Failed
    Setup <- MCSetup
    Call = {u1, u2}
    Document <- MCDocument
    Cause = {"NO_ANSWER", "USER_BUSY", "CALL_REJECTED"}
    Capacity = 1
    MaxRestarts = 1
    MaxTried = 4
    Sharer = {u1, u2, u3}
    SharedDocument <- MCShared
    SharedCause = {"NO_ANSWER"}
    SharedCapacity = 2
    SharedTried = 2
    Number <- MCNumber
    Pattern <- MCPattern
    Replacement <- MCReplacement
    MaxRules = 3
SYMMETRY Symmetry
INVARIANTS
    LegsAreTold
    LostOnlyIfBusy
    BestLegIsFirst
    RefusedOnlyIfAllRefuse
PROPERTIES
    RulesAreMonotone
CHECK_DEADLOCK FALSE
