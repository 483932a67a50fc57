--------------------------- MODULE PrepaidBalance ---------------------------
(***************************************************************************)
(* The balance of one prepaid account: the gate that looks at it when a    *)
(* call asks for a route, charges of calls that are over, and recharges    *)
(* and manual deductions by the API.  Charges and recharges read the       *)
(* balance under the lock of its row and write what they computed from it. *)
(*                                                                         *)
(* A definition named X_Something is X with a plausible bug, kept to show  *)
(* which property finds it; no specification uses it.                      *)
(***************************************************************************)
EXTENDS Integers, FiniteSets

CONSTANTS
    Call,
    Cost,           \* what a call costs
    Credit,         \* credit_limit of the account
    Minimum,        \* min_balance of the account
    Clerk,          \* requests of the API that change the balance
    Amount          \* what each of them adds; negative for a deduction

ASSUME PrepaidConstants ==
    /\ IsFiniteSet(Call) /\ Cost \in Nat \ {0} /\ Credit \in Nat /\ Minimum \in Nat
    /\ Amount \in [Clerk -> Int] /\ Call \cap Clerk = {}

VARIABLES
    balance,
    booked,         \* sum of the entries in account_ledger
    call,           \* what became of each call
    clerk,          \* what became of each request
    holders,        \* the calls and requests that have locked the row
    seen,           \* the balance each of them read
    unguarded,      \* calls that were let in without a look at the balance
    peak            \* most calls that were let in and not yet charged at once

vars == <<balance, booked, call, clerk, holders, seen, unguarded, peak>>

TypeOK ==
    /\ balance \in Int /\ booked \in Int /\ peak \in Nat
    /\ seen \in [Call \cup Clerk -> Int]
    /\ call \in [Call -> {"new", "refused", "unpaid", "paid"}]
    /\ clerk \in [Clerk -> {"new", "done"}]
    /\ holders \subseteq Call \cup Clerk
    /\ unguarded \subseteq Call

Init ==
    /\ balance = 0 /\ booked = 0 /\ peak = 0
    /\ call = [u \in Call |-> "new"] /\ clerk = [c \in Clerk |-> "new"]
    /\ holders = {} /\ seen = [x \in Call \cup Clerk |-> 0] /\ unguarded = {}
-----------------------------------------------------------------------------
Unpaid == {u \in Call : call[u] = "unpaid"}

\* _check_balance_allowed
Available == balance + Credit - Minimum

Admit(u) ==
    /\ call' = [call EXCEPT ![u] = "unpaid"]
    /\ peak' = IF Cardinality(Unpaid) + 1 > peak THEN Cardinality(Unpaid) + 1 ELSE peak

\* The reserve is not subtracted.
Gate_NoMinimum(u) ==
    /\ call[u] = "new"
    /\ IF balance + Credit > 0 THEN Admit(u)
       ELSE call' = [call EXCEPT ![u] = "refused"] /\ UNCHANGED peak
    /\ UNCHANGED <<balance, booked, clerk, holders, seen, unguarded>>

\* The gate: a call of the account is let in while there is something available.
Gate(u) ==
    /\ call[u] = "new"
    /\ IF Available > 0 THEN Admit(u)
       ELSE call' = [call EXCEPT ![u] = "refused"] /\ UNCHANGED peak
    /\ UNCHANGED <<balance, booked, clerk, holders, seen, unguarded>>

\* The account of the caller or its balance cannot be read: the call is let in.
GateFails(u) ==
    /\ call[u] = "new" /\ Admit(u)
    /\ unguarded' = unguarded \cup {u}
    /\ UNCHANGED <<balance, booked, clerk, holders, seen>>

\* The row is read without a lock.
Lock_Shared(x) ==
    /\ x \notin holders
    /\ holders' = holders \cup {x} /\ seen' = [seen EXCEPT ![x] = balance]

\* SELECT ... FOR UPDATE
Lock(x) ==
    /\ holders = {}
    /\ holders' = {x} /\ seen' = [seen EXCEPT ![x] = balance]

\* The balance that was read is changed, the entry is written, both are committed.
Book(x, amount) ==
    /\ x \in holders /\ holders' = holders \ {x}
    /\ balance' = seen[x] + amount /\ booked' = booked + amount

\* The call is over and _charge_account runs.
StartCharge(u) ==
    /\ call[u] = "unpaid" /\ Lock(u)
    /\ UNCHANGED <<balance, booked, call, clerk, unguarded, peak>>

Charge(u) ==
    /\ Book(u, -Cost)
    /\ call' = [call EXCEPT ![u] = "paid"]
    /\ UNCHANGED <<clerk, seen, unguarded, peak>>

StartRecharge(c) ==
    /\ clerk[c] = "new" /\ Lock(c)
    /\ UNCHANGED <<balance, booked, call, clerk, unguarded, peak>>

Recharge(c) ==
    /\ Book(c, Amount[c])
    /\ clerk' = [clerk EXCEPT ![c] = "done"]
    /\ UNCHANGED <<call, seen, unguarded, peak>>

\* The transaction fails; the lock is gone with it.
RollBack ==
    /\ \E x \in holders : holders' = holders \ {x}
    /\ UNCHANGED <<balance, booked, call, clerk, seen, unguarded, peak>>

Next ==
    \/ \E u \in Call : Gate(u) \/ GateFails(u) \/ StartCharge(u) \/ Charge(u)
    \/ \E c \in Clerk : StartRecharge(c) \/ Recharge(c)
    \/ RollBack

Spec == Init /\ [][Next]_vars
-----------------------------------------------------------------------------
(* Properties. *)

\* The balance of an account is the sum of its ledger, however charges, recharges
\* and failed transactions interleave.
BalanceIsLedger == balance = booked

\* The requests that deducted something by hand.
Deducted == {c \in Clerk : clerk[c] = "done" /\ Amount[c] < 0}

\* What is available of an empty account.
Base == Credit - Minimum

\* Calls that are let in unseen may start from less than nothing.
Floor == IF unguarded = {} \/ Base > 0 THEN 0 ELSE Base

\* The gate reserves nothing: calls that are up together may overdraw the account,
\* but never by as much as what they cost, as many as were ever unpaid at once,
\* plus those let in unseen.
OverdraftBounded ==
    Deducted = {} =>
        \/ peak = 0 /\ Available >= Base
        \/ Available - Cost * Cardinality(Unpaid) > Floor - Cost * (peak + Cardinality(unguarded))
=============================================================================
