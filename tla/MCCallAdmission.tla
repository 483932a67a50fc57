--------------------------- MODULE MCCallAdmission ---------------------------
(* Instances of CallAdmission for TLC. *)
EXTENDS CallAdmission

CONSTANTS n1, n2, u1, u2, u3, g1, g2, a1

\* u2 comes in at the second node; u3 is a phone, the others use access point a1.
MCHome == [u \in Uuid |-> IF u = u2 THEN n2 ELSE n1]
MCApOf == [u \in Uuid |-> IF u = u3 \/ a1 \notin Ap THEN NoAp ELSE a1]

\* One slot on g1 and none to spare for a1; g2 is unlimited.
MCGwLimit == [g \in Gw |-> IF g = g1 THEN 1 ELSE 0]
MCApLimit == [a \in Ap |-> 1]
=============================================================================
