------------------------------ MODULE MCNodes ------------------------------
(* An instance of Monitoring: two nodes, gateways and pages of up to three   *)
(* calls, two at one node and one at the other.                              *)
EXTENDS Monitoring, TLC

CONSTANTS n1, n2, m1, m2, g1, g2, c1, c2, c3

MCNodeOf == c1 :> m1 @@ c2 :> m1 @@ c3 :> m2
MCLateNodeOf == c1 :> m1 @@ c2 :> m1

Symmetry == Permutations({n1, n2}) \cup Permutations({c1, c2}) \cup Permutations({g1, g2})
=============================================================================
