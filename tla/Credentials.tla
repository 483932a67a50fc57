---------------------------- MODULE Credentials ----------------------------
(***************************************************************************)
(* The data of the concurrency limiter (src/src/concurrency.py): the       *)
(* counters that exist, the credential a call may hold, and which counters *)
(* a credential charges.  No state: SlotLedger and ConcurrencyStore both   *)
(* build on these definitions.                                             *)
(*                                                                         *)
(* A credential is the JSON payload of the key conc:resv:<uuid>.  Its node *)
(* field is the home node of the call and is not repeated here.            *)
(***************************************************************************)
EXTENDS Integers, FiniteSets

CONSTANTS
    Uuid,       \* calls, one uuid per A leg
    Gw,         \* outbound gateways
    Ap,         \* access points
    Global,     \* the counter conc:cnt:global
    NoGw,       \* "g":0, and the counter conc:cnt:gw:0 that it names
    NoAp,       \* "a":0
    GLimit,     \* concurrent_limit_global, 0 = unlimited
    GwLimit,    \* concurrent_limit of each gateway, 0 = unlimited
    ApLimit     \* concurrent_limit of each access point, 0 = unlimited

ASSUME UuidFinite == IsFiniteSet(Uuid)
ASSUME LimitTypes == /\ GLimit \in Nat
                     /\ GwLimit \in [Gw -> Nat]
                     /\ ApLimit \in [Ap -> Nat]
ASSUME KeysDistinct == /\ Gw \cap Ap = {}
                       /\ Global \notin Gw \cup Ap
                       /\ NoGw \notin Gw \cup Ap \cup {Global}
                       /\ NoAp \notin Gw \cup Ap \cup {Global, NoGw}

\* Counters: conc:cnt:global, conc:cnt:gw:<id>, conc:cnt:ap:<id>.
Key == {Global, NoGw} \cup Gw \cup Ap

(***************************************************************************)
(* A call has no credential, the one ensure_leg writes ("b":1, charges the *)
(* global counter only) or a full one.  "reserved" and "moved" are the     *)
(* same payload in the code; the kind remembers whether the admission      *)
(* script or transfer_leg chose the gateway.                               *)
(***************************************************************************)
Absent         == [kind |-> "absent",   g |-> NoGw, a |-> NoAp]
Ensured        == [kind |-> "ensured",  g |-> NoGw, a |-> NoAp]
Reserved(g, a) == [kind |-> "reserved", g |-> g,    a |-> a]
Moved(g, a)    == [kind |-> "moved",    g |-> g,    a |-> a]

Full       == [kind : {"reserved", "moved"}, g : Gw, a : Ap \cup {NoAp}]
Credential == {Absent, Ensured} \cup Full

\* The counters that a stored credential stands for.
Charges(c) ==
    IF c.kind = "absent" THEN {}
    ELSE IF c.kind = "ensured" THEN {Global}
    ELSE {Global, c.g, c.a} \ {NoAp}

\* The calls whose credential in store r charges counter k.
Holders(r, k) == {u \in Uuid : k \in Charges(r[u])}

\* "limit > 0 and cur >= limit", the test of every gate.
AtLimit(cur, limit) == limit > 0 /\ cur >= limit
=============================================================================
