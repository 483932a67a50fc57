\* One call, two threads that sweep, faults of each kind.
\* The calls of an instance are finite in number: the system stops when they are over.
SPECIFICATION RowsSpec
CONSTANTS
    c1 = c1
    s1 = s1  s2 = s2
    n1 = n1  n2 = n2
    u1 = u1  u2 = u2
    g1 = g1  g2 = g2
    Call = {c1}
    DialStart = {1}  EslStart = {2}  XmlStart = {3}
    Sweeper = {s1, s2}
    Answered = {c1}
    EslKinds = {"full", "vars", "bare", "lost"}
    EslCost = 2
    XmlCost = 1
    QueueSize = 2
    BatchSize = 2
    SweepLimit = 2
    MaxDials = 2
    FaultKinds = {"db", "crash"}
    MaxFaults = 2
INVARIANTS
    OneRowPerCall
    BilledIsPaid
PROPERTIES
    PaysOnce
    RowIsKept
    ReportArrives
    SteadyIsShown
CHECK_DEADLOCK FALSE
