---------------------------- MODULE BillingRates ----------------------------
(***************************************************************************)
(* The rates a call is billed at (_compute_billing) and the cache they are *)
(* kept in.  Two threads compute bills, the event worker for the report of *)
(* the event and the CDR writer for that of the XML, while the API changes *)
(* rates; the cache is cleared after a rate was committed and its entries  *)
(* end with their TTL.                                                     *)
(*                                                                         *)
(* A definition named X_Something is X with a plausible bug, kept to show  *)
(* which property finds it; no specification uses it.                      *)
(***************************************************************************)
EXTENDS Integers

CONSTANTS
    Thread,
    Calls,          \* which calls there are: from a trunk, from a phone, from a trunk to a phone
    Acct,
    NoAcct,
    Rates,          \* configured rates; 0 is NULL or 0, "not configured"
    StartRate,      \* rate of each row at the start
    MayMove,        \* whether phones and access points change account
    MaxChanges, MaxFaults

\* Rows of the tables: the access point, the phone, the gateway and its carrier.
Row == {"ap", "ph", "gw", "cr"} \cup Acct

RateConstants ==
    /\ Rates \subseteq Nat \ {0} /\ StartRate \in [Row -> Rates \cup {0}]
    /\ Calls \subseteq {"trunk", "phone", "trunk to phone"}
    /\ Acct # {} /\ Acct \cap {"ap", "ph", "gw", "cr", "nothing"} = {} /\ NoAcct \notin Row
    /\ MayMove \in BOOLEAN
    /\ MaxChanges \in Nat /\ MaxFaults \in Nat

VARIABLES
    db,         \* account and rate of each row
    ever,       \* rates each row has ever had
    cache,      \* _RATE_CACHE
    toClear,    \* a rate was committed, clear_rate_cache is still to be called
    job,        \* the call each thread is billing
    bill,       \* the last bill of each thread
    changes, faults, dbUp

vars == <<db, ever, cache, toClear, job, bill, changes, faults, dbUp>>

\* What a lookup returns: account, rate and, of an access point, the rate of its account.
Value == [acct : Acct \cup {NoAcct}, rate : Rates \cup {0}, base : Rates \cup {0}]
Blank == [acct |-> NoAcct, rate |-> 0, base |-> 0]
NoEntry == [none |-> TRUE]
Nothing == [k \in {} |-> Blank]
NoJob   == [call |-> "none"]
NoRead  == [call |-> "none"]
NoBill  == [owner |-> NoAcct, rate |-> 0, cost |-> 0, layers |-> {}, clean |-> FALSE, current |-> TRUE]

TypeOK ==
    /\ db \in [Row -> [acct : Acct \cup {NoAcct}, rate : Rates \cup {0}]]
    /\ ever \in [Row -> SUBSET (Rates \cup {0})]
    /\ \A k \in Row : cache[k] = NoEntry \/ cache[k] \in Value
    /\ toClear \in BOOLEAN /\ dbUp \in BOOLEAN
    /\ \A t \in Thread : job[t] = NoJob \/
          /\ job[t].call \in Calls /\ job[t].clean \in BOOLEAN
          /\ DOMAIN job[t].got \subseteq Row /\ \A k \in DOMAIN job[t].got : job[t].got[k] \in Value
          /\ job[t].read \in Value \cup {NoRead}
    /\ changes \in 0..MaxChanges /\ faults \in 0..MaxFaults

Init ==
    /\ \E owner \in [{"ap", "ph"} -> Acct] :
          db = [k \in Row |-> [acct |-> IF k \in {"ap", "ph"} THEN owner[k] ELSE NoAcct,
                               rate |-> StartRate[k]]]
    /\ ever = [k \in Row |-> {StartRate[k]}]
    /\ cache = [k \in Row |-> NoEntry] /\ toClear = FALSE
    /\ job = [t \in Thread |-> NoJob] /\ bill = [t \in Thread |-> NoBill]
    /\ changes = 0 /\ faults = 0 /\ dbUp = TRUE
-----------------------------------------------------------------------------
(* The rate chains. *)

\* What a row gives in the database now.
ReadRow(k) == [acct |-> db[k].acct, rate |-> db[k].rate,
               base |-> IF k = "ap" THEN db[db[k].acct].rate ELSE 0]

Of(j, k) == IF k \in DOMAIN j.got THEN j.got[k] ELSE Blank

\* The account of the access point, or else of the phone.
Owner(j) == IF Of(j, "ap").acct # NoAcct THEN Of(j, "ap").acct ELSE Of(j, "ph").acct

\* _eff_rate: a rate that is not configured falls back on the next layer.
FirstSet(r, next) == IF r = 0 THEN next ELSE r

\* The rate of the phone is ignored if the phone belongs to another account.
PhoneRate(j) ==
    IF Of(j, "ph").acct \notin {NoAcct, Owner(j)} THEN 0 ELSE Of(j, "ph").rate

AccountRate(j) ==
    IF Of(j, "ap").acct # NoAcct THEN Of(j, "ap").base
    ELSE IF Owner(j) = NoAcct THEN 0 ELSE Of(j, Owner(j)).rate

IncomeRate(j) == FirstSet(PhoneRate(j), FirstSet(Of(j, "ap").rate, AccountRate(j)))
CostRate(j)   == FirstSet(Of(j, "gw").rate, Of(j, "cr").rate)

\* The rows whose rates the bill of a call may be made at.
Layers(j) ==
    {k \in {"ap"} : j.call # "phone"} \cup ({Owner(j)} \ {NoAcct})
      \cup {k \in {"ph"} : j.call # "trunk" /\ Of(j, "ph").acct \in {NoAcct, Owner(j)}}
-----------------------------------------------------------------------------
(* Billing a call. *)

\* The row that is looked up next.
Wanted(j) ==
    LET todo(k) == k \notin DOMAIN j.got IN
    IF j.call # "phone" /\ todo("ap") THEN "ap"
    ELSE IF j.call # "trunk" /\ todo("ph") THEN "ph"
    ELSE IF Of(j, "ap").acct = NoAcct /\ Owner(j) # NoAcct /\ todo(Owner(j)) THEN Owner(j)
    ELSE IF todo("gw") THEN "gw"
    ELSE IF Of(j, "gw").rate = 0 /\ todo("cr") THEN "cr"
    ELSE "nothing"

\* All accounts share one entry.
Slot_OneForAccounts(k) == IF k \in Acct THEN CHOOSE a \in Acct : TRUE ELSE k

\* The key of a row in the cache.
Slot(k) == k

Busy(t) == job[t] # NoJob
With(got, w, v) == [k \in DOMAIN got \cup {w} |-> IF k = w THEN v ELSE got[k]]
Got(t, v) == job' = [job EXCEPT ![t] = [call |-> @.call, got |-> With(@.got, Wanted(@), v), read |-> NoRead,
                                       clean |-> @.clean]]

\* A call is clean if no rate has changed since, or was changed but not cleared, when it starts.
StartBill(t) ==
    /\ ~Busy(t)
    /\ \E call \in Calls :
          job' = [job EXCEPT ![t] = [call |-> call, got |-> Nothing, read |-> NoRead,
                                    clean |-> ~toClear]]
    /\ bill' = [bill EXCEPT ![t] = NoBill]
    /\ UNCHANGED <<db, ever, cache, toClear, changes, faults, dbUp>>

Hit(t) ==
    /\ Busy(t) /\ job[t].read = NoRead /\ Wanted(job[t]) # "nothing"
    /\ LET e == cache[Slot(Wanted(job[t]))] IN e # NoEntry /\ Got(t, e)
    /\ UNCHANGED <<db, ever, cache, toClear, bill, changes, faults, dbUp>>

\* A row that cannot be read is blank; the blank access point is not kept.
Miss(t) ==
    /\ Busy(t) /\ job[t].read = NoRead
    /\ LET k == Wanted(job[t]) IN
       /\ k # "nothing" /\ cache[Slot(k)] = NoEntry
       /\ IF dbUp THEN job' = [job EXCEPT ![t].read = ReadRow(k)]
          ELSE IF k = "ap" THEN Got(t, Blank)
          ELSE job' = [job EXCEPT ![t].read = Blank]
    /\ UNCHANGED <<db, ever, cache, toClear, bill, changes, faults, dbUp>>

\* _rate_cache_set: what was read some time ago is kept from now on.
Keep(t) ==
    /\ Busy(t) /\ job[t].read # NoRead
    /\ cache' = [cache EXCEPT ![Slot(Wanted(job[t]))] = job[t].read]
    /\ Got(t, job[t].read)
    /\ UNCHANGED <<db, ever, toClear, bill, changes, faults, dbUp>>

FinishBill(t) ==
    /\ Busy(t) /\ job[t].read = NoRead /\ Wanted(job[t]) = "nothing"
    /\ LET j == job[t] IN
       bill' = [bill EXCEPT ![t] =
           [owner |-> Owner(j), rate |-> IncomeRate(j), cost |-> CostRate(j), layers |-> Layers(j),
            clean |-> j.clean, current |-> \A k \in DOMAIN j.got : j.got[k] = ReadRow(k)]]
    /\ job' = [job EXCEPT ![t] = NoJob]
    /\ UNCHANGED <<db, ever, cache, toClear, changes, faults, dbUp>>
-----------------------------------------------------------------------------
(* The API and the environment. *)

Dirty(jobs) == [t \in Thread |-> IF jobs[t] = NoJob THEN NoJob ELSE [jobs[t] EXCEPT !.clean = FALSE]]

\* A rate is committed.
SetRate(k, r) ==
    /\ changes < MaxChanges /\ dbUp /\ ~toClear /\ r # db[k].rate
    /\ db' = [db EXCEPT ![k].rate = r] /\ ever' = [ever EXCEPT ![k] = @ \cup {r}]
    /\ toClear' = TRUE /\ changes' = changes + 1 /\ job' = Dirty(job)
    /\ UNCHANGED <<cache, bill, faults, dbUp>>

\* clear_rate_cache
ClearCache ==
    /\ toClear /\ toClear' = FALSE
    /\ cache' = [k \in Row |-> NoEntry]
    /\ UNCHANGED <<db, ever, job, bill, changes, faults, dbUp>>

\* A phone or an access point changes account without a new rate: nothing is cleared.
Move(k, a) ==
    /\ MayMove /\ changes < MaxChanges /\ dbUp /\ a # db[k].acct
    /\ db' = [db EXCEPT ![k].acct = a] /\ changes' = changes + 1 /\ job' = Dirty(job)
    /\ UNCHANGED <<ever, cache, toClear, bill, faults, dbUp>>

\* _rate_cache_get: the time of an entry is over.
Expire(k) ==
    /\ cache[k] # NoEntry /\ cache' = [cache EXCEPT ![k] = NoEntry]
    /\ UNCHANGED <<db, ever, toClear, job, bill, changes, faults, dbUp>>

DbDown ==
    /\ dbUp /\ faults < MaxFaults /\ faults' = faults + 1 /\ dbUp' = FALSE
    /\ UNCHANGED <<db, ever, cache, toClear, job, bill, changes>>

DbBack ==
    /\ ~dbUp /\ dbUp' = TRUE
    /\ UNCHANGED <<db, ever, cache, toClear, job, bill, changes, faults>>

Next ==
    \/ \E t \in Thread : StartBill(t) \/ Hit(t) \/ Miss(t) \/ Keep(t) \/ FinishBill(t)
    \/ \E k \in Row : Expire(k) \/ \E r \in Rates \cup {0} : SetRate(k, r)
    \/ \E k \in {"ap", "ph"}, a \in Acct : Move(k, a)
    \/ ClearCache \/ DbDown \/ DbBack

Spec == Init /\ [][Next]_vars
-----------------------------------------------------------------------------
(* Properties. *)

\* A call is billed at a rate that its own phone, access point or account has had,
\* never at that of another account, whatever is cached under which key.
BilledAtOwnRate ==
    \A t \in Thread : bill[t].rate = 0 \/ \E k \in bill[t].layers : bill[t].rate \in ever[k]

\* PITFALLS of 0.0000: a call is not free because one layer is not configured; if the
\* database never failed, some rate of the chain that always was configured is used.
FreeOnlyIfNoRate ==
    \A t \in Thread : faults = 0 /\ bill[t].rate = 0 => \A k \in bill[t].layers : 0 \in ever[k]
-----------------------------------------------------------------------------
(* Said of the code and refuted by this model; the README tells how. *)

\* clear_rate_cache: the next call after a change of a rate is billed at the new one.
NextCallAtNewRate == \A t \in Thread : bill[t].clean => bill[t].current
=============================================================================
