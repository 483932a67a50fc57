----------------------------- MODULE SlotLedger -----------------------------
(***************************************************************************)
(* What the limiter promises, without counters: a ledger of credentials.   *)
(* Whether a call may be admitted is decided by counting the credentials   *)
(* that exist.  The Redis store (ConcurrencyStore) decides by counters it  *)
(* keeps beside the credentials; CallAdmission checks that every step it   *)
(* takes is a step of this ledger.                                         *)
(***************************************************************************)
EXTENDS Credentials

VARIABLE resv       \* the credential of each call

LedgerInit == resv = [u \in Uuid |-> Absent]

FreeSlot(k, limit) == ~AtLimit(Cardinality(Holders(resv, k)), limit)

\* A gateway (and access point) is granted to a call: a free slot on each,
\* and on the global counter too unless the call is already charged there.
Admit(u, g, a) ==
    /\ resv[u] \in {Absent, Ensured}
    /\ resv[u] = Absent => FreeSlot(Global, GLimit)
    /\ FreeSlot(g, GwLimit[g])
    /\ a \in Ap => FreeSlot(a, ApLimit[a])
    /\ resv' = [resv EXCEPT ![u] = Reserved(g, a)]

\* A call that was not admitted yet is charged to the global counter.
Register(u) ==
    /\ resv[u] = Absent
    /\ resv' = [resv EXCEPT ![u] = Ensured]

\* A registered or admitted call is found to use gateway g: no gate.
Move(u, g) ==
    /\ resv[u] # Absent
    /\ resv' = [resv EXCEPT ![u] = Moved(g, resv[u].a)]

\* The credential is released or its lease ends.
Drop(u) ==
    /\ resv[u] # Absent
    /\ resv' = [resv EXCEPT ![u] = Absent]

LedgerNext ==
    \E u \in Uuid :
        \/ Register(u) \/ Drop(u)
        \/ \E g \in Gw :
              Move(u, g) \/ \E a \in Ap \cup {NoAp} : Admit(u, g, a)

LedgerSpec == LedgerInit /\ [][LedgerNext]_resv
=============================================================================
