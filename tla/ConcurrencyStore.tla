-------------------------- MODULE ConcurrencyStore --------------------------
(***************************************************************************)
(* The Redis side of src/src/concurrency.py: the counters, the credentials *)
(* and the four Lua scripts, each of which runs atomically.  release_leg   *)
(* and transfer_leg read the credential with a GET of their own before the *)
(* script, so those scripts take the payload p read then: p names the      *)
(* counter keys, while the stored value, looked at again by the script,    *)
(* only says whether a credential exists and whether it is a full one.     *)
(*                                                                         *)
(* A definition named X_Something is X with a plausible bug, kept to show  *)
(* which property finds it; no specification uses it.                      *)
(***************************************************************************)
EXTENDS Credentials

VARIABLES
    cnt,        \* value of each counter (a missing key reads 0)
    resv        \* stored credential of each call

StoreTypeOK == /\ cnt \in [Key -> Nat]
               /\ resv \in [Uuid -> Credential]

StoreInit == /\ cnt  = [k \in Key |-> 0]
             /\ resv = [u \in Uuid |-> Absent]

\* INCR of every counter in K.
Incr(c, K) == [k \in Key |-> IF k \in K THEN c[k] + 1 ELSE c[k]]

\* DECR of every counter in K, put back to 0 when it goes below.
Decr(c, K) == [k \in Key |-> IF k \in K /\ c[k] > 0 THEN c[k] - 1 ELSE c[k]]

\* The upgrade as it was before PITFALLS #69: no gate is looked at again.
ReserveVerdict_FreeUpgrade(u, g, a) ==
    IF resv[u] # Absent THEN "ok"
    ELSE IF AtLimit(cnt[Global], GLimit) THEN "global"
    ELSE IF a \in Ap /\ AtLimit(cnt[a], ApLimit[a]) THEN "ap"
    ELSE IF AtLimit(cnt[g], GwLimit[g]) THEN "gw" ELSE "ok"

\* The upgrade looks at the gateway only.
ReserveVerdict_UpgradeSkipsAp(u, g, a) ==
    IF resv[u] \in Full THEN "ok"
    ELSE IF resv[u] = Absent /\ AtLimit(cnt[Global], GLimit) THEN "global"
    ELSE IF resv[u] = Absent /\ a \in Ap /\ AtLimit(cnt[a], ApLimit[a]) THEN "ap"
    ELSE IF AtLimit(cnt[g], GwLimit[g]) THEN "gw" ELSE "ok"

\* A call without a credential is not stopped by the global gate.
ReserveVerdict_NoGlobalGate(u, g, a) ==
    IF resv[u] \in Full THEN "ok"
    ELSE IF a \in Ap /\ AtLimit(cnt[a], ApLimit[a]) THEN "ap"
    ELSE IF AtLimit(cnt[g], GwLimit[g]) THEN "gw" ELSE "ok"

\* The gate that refuses first, or "ok".  An ensured credential is upgraded:
\* gateway, then access point, and the global gate is not looked at.  A call
\* without one passes the global, the access point and the gateway gate.
ReserveVerdict(u, g, a) ==
    LET globalFull == AtLimit(cnt[Global], GLimit)
        apFull     == a \in Ap /\ AtLimit(cnt[a], ApLimit[a])
        gwFull     == AtLimit(cnt[g], GwLimit[g])
    IN  IF resv[u] = Absent /\ globalFull THEN "global"
        ELSE IF resv[u] = Absent THEN IF apFull THEN "ap" ELSE IF gwFull THEN "gw" ELSE "ok"
        ELSE IF resv[u] = Ensured THEN IF gwFull THEN "gw" ELSE IF apFull THEN "ap" ELSE "ok"
        ELSE "ok"

\* The upgrade charges the global counter a second time.
ReserveEval_ChargesTwice(u, g, a) ==
    IF ReserveVerdict(u, g, a) = "ok" /\ resv[u] \in {Absent, Ensured}
    THEN /\ cnt'  = Incr(cnt, Charges(Reserved(g, a)))
         /\ resv' = [resv EXCEPT ![u] = Reserved(g, a)]
    ELSE UNCHANGED <<cnt, resv>>

\* _LUA_RESERVE.  A full credential is left as it is ('DUP').
ReserveEval(u, g, a) ==
    IF ReserveVerdict(u, g, a) = "ok" /\ resv[u] \in {Absent, Ensured}
    THEN /\ cnt'  = Incr(cnt, Charges(Reserved(g, a)) \ Charges(resv[u]))
         /\ resv' = [resv EXCEPT ![u] = Reserved(g, a)]
    ELSE UNCHANGED <<cnt, resv>>

\* Only a full credential is released.
ReleaseEval_KeepsEnsured(u, p) ==
    IF resv[u] \in Full
    THEN /\ cnt'  = Decr(cnt, {Global, p.g, p.a} \ {NoAp})
         /\ resv' = [resv EXCEPT ![u] = Absent]
    ELSE UNCHANGED <<cnt, resv>>

\* _LUA_RELEASE with the keys of payload p.
ReleaseEval(u, p) ==
    IF resv[u] = Absent
    THEN UNCHANGED <<cnt, resv>>
    ELSE /\ cnt'  = Decr(cnt, IF resv[u] = Ensured THEN {Global}
                              ELSE {Global, p.g, p.a} \ {NoAp})
         /\ resv' = [resv EXCEPT ![u] = Absent]

\* The new gateway is written to the credential but not counted.
TransferEval_NotCounted(u, p, g) ==
    IF resv[u] = Absent
    THEN UNCHANGED <<cnt, resv>>
    ELSE /\ cnt'  = IF resv[u] = Ensured THEN cnt ELSE Decr(cnt, {p.g})
         /\ resv' = [resv EXCEPT ![u] = Moved(g, p.a)]

\* A full credential stays on the gateway it was reserved for.
TransferEval_OnlyEnsured(u, p, g) ==
    IF resv[u] = Ensured
    THEN /\ cnt'  = Incr(cnt, {g})
         /\ resv' = [resv EXCEPT ![u] = Moved(g, p.a)]
    ELSE UNCHANGED <<cnt, resv>>

\* _LUA_TRANSFER_GW from the gateway of payload p to g; the access point of
\* the new payload is the one of p.
TransferEval(u, p, g) ==
    IF resv[u] = Absent
    THEN UNCHANGED <<cnt, resv>>
    ELSE /\ cnt'  = Incr(IF resv[u] = Ensured THEN cnt ELSE Decr(cnt, {p.g}), {g})
         /\ resv' = [resv EXCEPT ![u] = Moved(g, p.a)]

\* The "b":1 flag is forgotten: the payload looks like a full one of gateway 0.
EnsureEval_Unflagged(u) ==
    IF resv[u] = Absent
    THEN /\ cnt'  = Incr(cnt, {Global})
         /\ resv' = [resv EXCEPT ![u] = Reserved(NoGw, NoAp)]
    ELSE UNCHANGED <<cnt, resv>>

\* _LUA_ENSURE.
EnsureEval(u) ==
    IF resv[u] = Absent
    THEN /\ cnt'  = Incr(cnt, {Global})
         /\ resv' = [resv EXCEPT ![u] = Ensured]
    ELSE UNCHANGED <<cnt, resv>>

\* The lease of the credential (conc_lease_ttl) runs out: the key vanishes
\* and no counter is touched.
LeaseExpires(u) ==
    /\ resv[u] # Absent
    /\ resv' = [resv EXCEPT ![u] = Absent]
    /\ UNCHANGED cnt
-----------------------------------------------------------------------------
Ledger == INSTANCE SlotLedger

\* Every counter is at least the number of credentials that charge it, so a
\* gate that reads a counter never admits more than the credentials allow.
CountersCoverCredentials ==
    \A k \in Key : cnt[k] >= Cardinality(Holders(resv, k))

\* Every counter is exactly the number of credentials that charge it.
CountersMatchCredentials ==
    \A k \in Key : cnt[k] = Cardinality(Holders(resv, k))
=============================================================================
