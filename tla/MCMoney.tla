------------------------------ MODULE MCMoney ------------------------------
(* Values for Money. *)
EXTENDS Money

CONSTANTS u1, u2, u3, k1, k2, k3, b1, b2     \* calls, clerks and two accounts

\* One recharge of 5, one of 1, one deduction.
MCAmount == [c \in Clerk |-> CASE c = k1 -> 5 [] c = k2 -> 1 [] OTHER -> -1]

\* Neither the phone nor the access point nor the gateway has a rate; the accounts differ.
MCStartRate == [k \in {"ap", "ph", "gw", "cr", b1, b2} |->
                    CASE k \in {"ph", "gw", "ap"} -> 0 [] k = b2 -> 3 [] OTHER -> 1]
=============================================================================
