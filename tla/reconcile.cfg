\* One node and everything that can be lost; two nodes whose rounds interleave.
SPECIFICATION Spec
CONSTANTS
    n1 = n1  n2 = n2
    u1 = u1
    g1 = g1
    a1 = a1
    Global = Global  NoGw = NoGw  NoAp = NoAp
PROPERTIES
    CountersConverge
    GoneCallLeavesNothing
\* A finite workload ends; a round sleeps between.
CHECK_DEADLOCK FALSE
