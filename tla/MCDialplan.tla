----------------------------- MODULE MCDialplan -----------------------------
(* Values for Dialplan. *)
EXTENDS Dialplan, TLC

CONSTANTS u1, u2, u3

\* A leg that lists 603, and one that keeps the default codes and is only left before
\* it rings.
Plain == [codes |-> {"603"}, pre_ring_only |-> FALSE]
Shy == [codes |-> {}, pre_ring_only |-> TRUE]

MCDocument == {<<>>, <<Plain>>, <<Plain, Shy, Plain>>}
MCShared == {<<Plain, Plain>>}

Row(g, l, p) == [gw |-> g, len |-> l, prio |-> p]

\* A phone calls: three gateways, one of which is known by its registrations, and two of
\* which have a limit.
Phone == [gateways |-> {1, 2, 3}, aps |-> {}, registered |-> {3}, ipMode |-> {},
          routes |-> {Row(1, 1, 2), Row(2, 1, 1), Row(2, 2, 0), Row(3, 2, 0)},
          limited |-> {2, 3}, limitedAps |-> {}, globalLimit |-> TRUE, failClose |-> TRUE,
          context |-> "phone", prepaid |-> FALSE]

\* A phone that pays calls from the address of an access point.
Desk == [gateways |-> {1}, aps |-> {1}, registered |-> {}, ipMode |-> {1},
         routes |-> {Row(1, 1, 1)},
         limited |-> {1}, limitedAps |-> {1}, globalLimit |-> FALSE, failClose |-> TRUE,
         context |-> "phone", prepaid |-> TRUE]

\* A call names its access point, whose account may be without balance.
Named == [gateways |-> {1, 2}, aps |-> {1}, registered |-> {2}, ipMode |-> {},
          routes |-> {Row(1, 1, 2), Row(2, 1, 1), Row(2, 2, 0)},
          limited |-> {1, 2}, limitedAps |-> {1}, globalLimit |-> FALSE, failClose |-> FALSE,
          context |-> "default", prepaid |-> TRUE]

\* A call comes over a trunk: three access points, two of which are known by address.
Trunk == [gateways |-> {1}, aps |-> {1, 2, 3}, registered |-> {}, ipMode |-> {1, 2},
          routes |-> {Row(1, 1, 1)},
          limited |-> {}, limitedAps |-> {2}, globalLimit |-> TRUE, failClose |-> FALSE,
          context |-> "trunk", prepaid |-> FALSE]

MCSetup == {Phone, Desk, Named, Trunk}

\* Up to three rules for numbers of up to three digits.
MCNumber == {<<"1">>, <<"1", "3">>, <<"1", "3", "8">>, <<"3", "1", "3">>, <<"8", "8">>}
MCPattern == {<<"1">>, <<"1", "3">>, <<"1", "*">>, <<"?", "3">>, <<"*", "8">>, <<"*">>}
MCReplacement == {<<"0">>, <<"0", "*">>}

Symmetry == Permutations({u1, u2, u3})
=============================================================================
