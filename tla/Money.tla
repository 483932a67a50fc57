-------------------------------- MODULE Money --------------------------------
(***************************************************************************)
(* PrepaidBalance beside BillingRates: the balance of an account, and the  *)
(* rates at which its calls are billed.  They share no state, so that a    *)
(* behaviour is one of either, and the other rests.                        *)
(***************************************************************************)
EXTENDS PrepaidBalance

CONSTANTS
    Thread, Calls, Acct, NoAcct, Rate, StartRate,   \* of BillingRates
    MaxChanges, MaxFaults                           \* bounds

VARIABLES
    scenario,                   \* the instance
    db, ever, cache, toClear, job, bill, changes, faults, dbUp

Rates == INSTANCE BillingRates WITH Rates <- Rate, MayMove <- TRUE

ASSUME RatesAssumption == Rates!RateConstants

balanceVars == vars
rateVars == <<db, ever, cache, toClear, job, bill, changes, faults, dbUp>>

RatesRest ==
    /\ db = 0 /\ ever = 0 /\ cache = 0 /\ toClear = 0 /\ job = 0 /\ bill = 0
    /\ changes = 0 /\ faults = 0 /\ dbUp = 0

MoneyInit ==
    \/ scenario = "balance" /\ Init /\ RatesRest
    \/ scenario = "rates" /\ Init /\ Rates!Init

MoneyNext ==
    \/ scenario = "balance" /\ Next /\ UNCHANGED <<scenario, rateVars>>
    \/ scenario = "rates" /\ Rates!Next /\ UNCHANGED <<scenario, balanceVars>>

MoneySpec == MoneyInit /\ [][MoneyNext]_<<scenario, balanceVars, rateVars>>
-----------------------------------------------------------------------------
(* Properties, beside those of PrepaidBalance. *)

\* A call is billed at a rate that its own phone, access point or account has had, never
\* at that of another account, whatever is cached under which key; and it is not free
\* because one layer is not configured: unless the database failed, a rate of the
\* chain that always was configured is used (PITFALLS of 0.0000).
BilledByItsChain ==
    scenario = "rates" => Rates!TypeOK /\ Rates!BilledAtOwnRate /\ Rates!FreeOnlyIfNoRate
=============================================================================
