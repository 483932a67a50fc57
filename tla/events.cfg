\* The stream of one connection; one call with a failover, two losses or restarts; the same call undisturbed.
SPECIFICATION EventsSpec
CONSTANTS
    c1 = c1
    g1 = g1  g2 = g2
    NoLeg = NoLeg
    NoGw = NoGw
    Call = {c1}
    Gateway = {g1, g2}
    Route <- MCRoute
    Reconciles = TRUE
    MaxTrouble = 2
    MaxQueue = 3
    MaxEvents = 2
    QueueSize = 1
    MaxStalls = 2
    MaxResubs = 1
    MaxBreaks = 1
    MaxLosses = 1
    Watchdog = 2
INVARIANTS
    EventsAreKept
    GlobalIsRecords
PROPERTIES
    GapIsReconciled
    CallCountsOnce
\* A call without the reconcile thread comes to its end.
CHECK_DEADLOCK FALSE
