---------------------------- MODULE MCManagement ----------------------------
(* An instance of Management: three users, accounts and gateways, two nodes,  *)
(* two requests that overlap and one alone.                                   *)
EXTENDS Management, TLC

CONSTANTS
    b1, b2,             \* phones, address triples, and nodes to be provisioned
    r1, r2,             \* requests
    n1, n2, g1, g2      \* nodes that start, gateways

\* The second of the two nodes owns a gateway, and one gateway is nobody's.
MCListed == <<g1>>
MCOldNodes == <<n1, n2>>
MCOwner0 == g1 :> n2 @@ g2 :> None

\* What is alike is alike in each of its roles, which keeps the group small.
Symmetry == Permutations({b1, b2}) \cup Permutations({r1, r2})
=============================================================================
