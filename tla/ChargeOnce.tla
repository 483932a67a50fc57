----------------------------- MODULE ChargeOnce -----------------------------
(***************************************************************************)
(* What prepaid billing promises: the account of a call pays for it at     *)
(* most once, and what left the account is what the ledger says.           *)
(***************************************************************************)
EXTENDS Integers

CONSTANT Call

VARIABLES
    paid,       \* what each call was charged, 0 if it was not
    debit       \* what was taken from the accounts

NothingPaid == paid = [u \in Call |-> 0] /\ debit = 0

Pay(u, amount) ==
    /\ amount > 0 /\ paid[u] = 0
    /\ paid' = [paid EXCEPT ![u] = amount]
    /\ debit' = debit + amount

PayNext == \E u \in Call : \E amount \in 1..(debit' - debit) : Pay(u, amount)

ChargeSpec == NothingPaid /\ [][PayNext]_<<paid, debit>>
=============================================================================
