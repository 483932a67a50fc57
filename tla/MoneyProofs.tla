---------------------------- MODULE MoneyProofs ----------------------------
(***************************************************************************)
(* Proofs about PrepaidBalance, for any calls, requests, price and limits: *)
(* the balance is the sum of the ledger, and how far it may be overdrawn;  *)
(* and about BillingRates, for any threads, accounts and rates: a call is  *)
(* billed at a rate of its own chain.                                      *)
(***************************************************************************)
EXTENDS Money, FiniteSetTheorems, TLAPS

\* Who holds the lock has seen the balance as it still is, and is entitled to book.
LockInv ==
    /\ \A x, y \in holders : x = y
    /\ \A x \in holders :
          /\ seen[x] = balance
          /\ x \in Call => call[x] = "unpaid"
          /\ x \in Clerk => clerk[x] = "new"

BalanceInv == TypeOK /\ BalanceIsLedger /\ LockInv

LEMMA UnpaidFinite ==
    /\ IsFiniteSet(Unpaid) /\ Cardinality(Unpaid) \in Nat
    /\ unguarded \subseteq Call => IsFiniteSet(unguarded) /\ Cardinality(unguarded) \in Nat
  BY PrepaidConstants, FS_Subset, FS_CardinalityType DEF Unpaid

\* The lock keeps what its holder has read true until it writes.
LEMMA BalanceStep == BalanceInv /\ [Next]_vars => BalanceInv'
<1> SUFFICES ASSUME BalanceInv, [Next]_vars PROVE BalanceInv'
  OBVIOUS
<1> USE PrepaidConstants DEF BalanceInv, TypeOK, BalanceIsLedger, LockInv
<1>1. ASSUME NEW u \in Call, Gate(u) PROVE BalanceInv'
  <2>1. peak' \in Nat
    BY <1>1, UnpaidFinite DEF Gate, Admit
  <2> QED
    BY <1>1, <2>1 DEF Gate, Admit
<1>2. ASSUME NEW u \in Call, GateFails(u) PROVE BalanceInv'
  <2>1. peak' \in Nat
    BY <1>2, UnpaidFinite DEF GateFails, Admit
  <2> QED
    BY <1>2, <2>1 DEF GateFails, Admit
<1>3. ASSUME NEW u \in Call, StartCharge(u) PROVE BalanceInv'
  BY <1>3 DEF StartCharge, Lock
<1>4. ASSUME NEW u \in Call, Charge(u) PROVE BalanceInv'
  <2>1. u \in holders /\ holders' = {} /\ seen[u] = balance
    BY <1>4 DEF Charge, Book
  <2> QED
    BY <1>4, <2>1 DEF Charge, Book
<1>5. ASSUME NEW c \in Clerk, StartRecharge(c) PROVE BalanceInv'
  BY <1>5 DEF StartRecharge, Lock
<1>6. ASSUME NEW c \in Clerk, Recharge(c) PROVE BalanceInv'
  <2>1. c \in holders /\ holders' = {} /\ seen[c] = balance
    BY <1>6 DEF Recharge, Book
  <2> QED
    BY <1>6, <2>1 DEF Recharge, Book
<1>7. CASE RollBack
  BY <1>7 DEF RollBack
<1>8. CASE UNCHANGED vars
  BY <1>8 DEF vars
<1> QED
  BY <1>1, <1>2, <1>3, <1>4, <1>5, <1>6, <1>7, <1>8 DEF Next

LEMMA BalanceInit == Init => BalanceInv
  BY PrepaidConstants DEF Init, BalanceInv, TypeOK, BalanceIsLedger, LockInv

\* No update of a balance is lost: it is the sum of the ledger in every reachable state.
THEOREM BalanceAlwaysLedger == Spec => []BalanceIsLedger
<1>1. BalanceInv => BalanceIsLedger
  BY DEF BalanceInv
<1> QED
  BY <1>1, BalanceInit, BalanceStep, PTL DEF Spec
-----------------------------------------------------------------------------
(* The overdraft. *)

\* A call is let in once, and there were never more unpaid calls than the peak says.
OverdraftInv ==
    /\ BalanceInv /\ OverdraftBounded
    /\ \A u \in Call : call[u] = "new" => u \notin unguarded
    /\ Cardinality(Unpaid) <= peak

LEMMA OverdraftInit == Init => OverdraftInv
<1> SUFFICES ASSUME Init PROVE OverdraftInv
  OBVIOUS
<1>1. BalanceInv
  BY BalanceInit
<1>2. Unpaid = {}
  BY DEF Unpaid, Init
<1>3. Cardinality(Unpaid) = 0
  BY <1>2, FS_EmptySet
<1>4. OverdraftBounded
  BY PrepaidConstants DEF OverdraftBounded, Init, Available, Base
<1> QED
  BY <1>1, <1>3, <1>4 DEF OverdraftInv, Init

\* What n calls cost grows by the price of each.
LEMMA CostOf ==
    /\ \A n \in Nat : Cost * n \in Nat /\ Cost * (n + 1) = Cost * n + Cost
    /\ \A n, k \in Nat : n <= k => Cost * n <= Cost * k
<1>1. ASSUME NEW n \in Nat PROVE Cost * n \in Nat /\ Cost * (n + 1) = Cost * n + Cost
  BY PrepaidConstants
<1>2. ASSUME NEW n \in Nat, NEW k \in Nat, n <= k PROVE Cost * n <= Cost * k
  <2>1. PICK d \in Nat : k = n + d
    BY <1>2, k - n \in Nat
  <2>2. Cost * (n + d) = Cost * n + Cost * d
    BY PrepaidConstants
  <2> QED
    BY <1>1, <2>1, <2>2
<1> QED
  BY <1>1, <1>2

LEMMA FloorIsLow == Floor \in Int /\ Floor <= 0 /\ (Base <= 0 => Floor >= Base)
  BY PrepaidConstants DEF Floor, Base

\* A call that is let in is one more unpaid call.
LEMMA AdmitCounts ==
    ASSUME TypeOK, NEW u \in Call, call[u] = "new", Admit(u)
    PROVE  /\ Cardinality(Unpaid)' = Cardinality(Unpaid) + 1
           /\ peak' \in Nat /\ peak' >= peak /\ peak' >= Cardinality(Unpaid) + 1
<1>1. Unpaid' = Unpaid \cup {u} /\ u \notin Unpaid
  BY DEF Admit, Unpaid, TypeOK
<1>2. Cardinality(Unpaid)' = Cardinality(Unpaid) + 1
  BY <1>1, UnpaidFinite, FS_AddElement
<1> QED
  BY <1>2, UnpaidFinite DEF Admit, TypeOK

\* The bound holds after every step, because the gate only lets a call in on a
\* positive balance, and a charge makes one unpaid call less.
LEMMA OverdraftStep == OverdraftInv /\ [Next]_vars => OverdraftInv'
<1> SUFFICES ASSUME OverdraftInv, [Next]_vars PROVE OverdraftInv'
  OBVIOUS
<1> DEFINE n == Cardinality(Unpaid)
           g == Cardinality(unguarded)
<1>1. BalanceInv' /\ BalanceInv /\ TypeOK /\ TypeOK'
  BY BalanceStep DEF OverdraftInv, BalanceInv
<1>2. n \in Nat /\ n' \in Nat /\ g \in Nat /\ g' \in Nat
  <2>1. unguarded \subseteq Call /\ unguarded' \subseteq Call
    BY <1>1 DEF TypeOK
  <2>2. Unpaid' \subseteq Call
    BY DEF Unpaid
  <2> QED
    BY <2>1, <2>2, UnpaidFinite, PrepaidConstants, FS_Subset, FS_CardinalityType
<1>3. n <= peak /\ peak \in Nat /\ peak' \in Nat
  BY <1>1 DEF OverdraftInv, TypeOK
<1>4. Available \in Int /\ Available' \in Int /\ Base \in Int /\ Floor \in Int /\ Floor' \in Int
  BY <1>1, PrepaidConstants DEF Available, TypeOK, Base, Floor
<1>5. \A k \in Nat : Cost * k \in Nat
  BY CostOf
<1>6. ASSUME NEW u \in Call, Gate(u) PROVE OverdraftInv'
  <2>1. CASE Available > 0
    <3>1. Admit(u) /\ call[u] = "new" /\ UNCHANGED <<balance, unguarded>>
      BY <1>6, <2>1 DEF Gate
    <3>2. n' = n + 1 /\ peak' >= n + 1
      BY <1>1, <3>1, AdmitCounts
    <3>3. Available' > 0 /\ Floor' <= 0
      BY <2>1, <3>1, FloorIsLow DEF Available, Floor, Base
    <3>4. Cost * n' <= Cost * (peak' + g')
      BY <1>2, <1>3, <3>2, CostOf
    <3>5. OverdraftBounded'
      <4>1. peak' + g' \in Nat
        BY <1>2, <1>3
      <4> QED
        BY <1>2, <1>4, <1>5, <3>3, <3>4, <4>1 DEF OverdraftBounded
    <3>6. \A v \in Call : call'[v] = "new" => v \notin unguarded'
      BY <1>1, <3>1 DEF OverdraftInv, Admit, TypeOK
    <3> QED
      BY <1>1, <3>2, <3>5, <3>6 DEF OverdraftInv
  <2>2. CASE ~(Available > 0)
    <3>1. call[u] = "new" /\ call' = [call EXCEPT ![u] = "refused"]
          /\ UNCHANGED <<balance, clerk, unguarded, peak>>
      BY <1>6, <2>2 DEF Gate
    <3>2. Unpaid' = Unpaid
      BY <1>1, <3>1 DEF Unpaid, TypeOK
    <3>3. OverdraftBounded'
      BY <3>1, <3>2 DEF OverdraftInv, OverdraftBounded, Available, Floor, Base, Deducted
    <3>4. \A v \in Call : call'[v] = "new" => v \notin unguarded'
      BY <1>1, <3>1 DEF OverdraftInv, TypeOK
    <3> QED
      BY <1>1, <1>3, <3>1, <3>2, <3>3, <3>4 DEF OverdraftInv
  <2> QED
    BY <2>1, <2>2
<1>7. ASSUME NEW u \in Call, GateFails(u) PROVE OverdraftInv'
  <2>1. Admit(u) /\ call[u] = "new" /\ unguarded' = unguarded \cup {u}
        /\ UNCHANGED <<balance, clerk>>
    BY <1>7 DEF GateFails
  <2>2. n' = n + 1 /\ peak' >= n + 1 /\ peak' >= peak
    BY <1>1, <2>1, AdmitCounts
  <2>3. g' = g + 1
    <3>1. u \notin unguarded /\ IsFiniteSet(unguarded)
      BY <1>1, <2>1, UnpaidFinite DEF OverdraftInv, TypeOK
    <3> QED
      BY <2>1, <3>1, FS_AddElement
  <2>4. Floor' <= Floor /\ Floor' <= 0 /\ (Floor' <= Base)
    BY <2>1, PrepaidConstants DEF Floor, Base
  <2>5. Cost * n' = Cost * n + Cost
    BY <1>2, <2>2, CostOf
  <2>6. Cost * (peak' + g') >= Cost * (peak + g) + Cost
    <3>1. peak + g \in Nat /\ peak + g + 1 \in Nat /\ peak' + g' \in Nat
          /\ peak + g + 1 <= peak' + g'
      BY <1>2, <1>3, <2>2, <2>3
    <3>2. Cost * (peak + g + 1) = Cost * (peak + g) + Cost
      BY <3>1, CostOf
    <3>3. Cost * (peak + g + 1) <= Cost * (peak' + g')
      BY <3>1, CostOf
    <3> QED
      BY <3>1, <3>2, <3>3, <1>5, PrepaidConstants
  <2>7. OverdraftBounded'
    <3> SUFFICES ASSUME Deducted = {}
                 PROVE  Available' - Cost * n' > Floor' - Cost * (peak' + g')
      BY <2>1 DEF OverdraftBounded, Deducted
    <3>1. Available' = Available
      BY <2>1 DEF Available
    <3>2. peak + g \in Nat /\ peak' + g' \in Nat
      BY <1>2, <1>3
    <3>3. CASE Available - Cost * n > Floor - Cost * (peak + g)
      BY <3>1, <3>2, <3>3, <2>4, <2>5, <2>6, <1>2, <1>4, <1>5, PrepaidConstants
    <3>4. CASE peak = 0 /\ Available >= Base
      <4>1. n = 0 /\ Cost * n = 0
        BY <3>4, <1>2, <1>3, PrepaidConstants
      <4>2. Cost * (peak' + g') >= Cost + Cost
        <5>1. 2 <= peak' + g' /\ Cost * 2 = Cost + Cost
          BY <1>2, <1>3, <2>2, <2>3, PrepaidConstants
        <5> QED
          BY <5>1, <3>2, CostOf
      <4> QED
        BY <3>1, <3>2, <3>4, <4>1, <4>2, <2>4, <2>5, <1>2, <1>4, <1>5, PrepaidConstants
    <3> QED
      BY <3>3, <3>4 DEF OverdraftInv, OverdraftBounded
  <2>8. \A v \in Call : call'[v] = "new" => v \notin unguarded'
    BY <1>1, <2>1 DEF OverdraftInv, Admit, TypeOK
  <2> QED
    BY <1>1, <1>2, <1>3, <2>2, <2>7, <2>8 DEF OverdraftInv
<1>8. ASSUME NEW u \in Call, Charge(u) PROVE OverdraftInv'
  <2>1. call[u] = "unpaid" /\ seen[u] = balance
    BY <1>1, <1>8, PrepaidConstants DEF Charge, Book, BalanceInv, LockInv
  <2>2. Unpaid' = Unpaid \ {u} /\ u \in Unpaid
    BY <1>1, <1>8, <2>1 DEF Charge, Unpaid, TypeOK
  <2>3. n' = n - 1 /\ n = n' + 1
    <3>1. IsFiniteSet(Unpaid) /\ u \in Unpaid
      BY <2>2, UnpaidFinite
    <3>2. Cardinality(Unpaid \ {u}) = Cardinality(Unpaid) - 1
      BY <3>1, FS_RemoveElement
    <3> QED
      BY <1>2, <2>2, <3>2
  <2>4. Available' = Available - Cost /\ Cost * n = Cost * n' + Cost
    BY <1>1, <1>2, <1>8, <2>1, <2>3, CostOf, PrepaidConstants DEF Available, Charge, Book, TypeOK
  <2>5. UNCHANGED <<clerk, unguarded, peak>>
    BY <1>8 DEF Charge
  <2>6. OverdraftBounded'
    <3> SUFFICES ASSUME Deducted = {}
                 PROVE  Available' - Cost * n' > Floor' - Cost * (peak' + g')
      BY <2>5 DEF OverdraftBounded, Deducted
    <3>1. peak # 0
      BY <1>2, <1>3, <2>3
    <3>2. Available - Cost * n > Floor - Cost * (peak + g)
      BY <3>1 DEF OverdraftInv, OverdraftBounded
    <3>3. Floor' = Floor /\ peak + g \in Nat /\ peak' = peak /\ g' = g
      BY <2>5, <1>2, <1>3 DEF Floor, Base
    <3> QED
      BY <3>2, <3>3, <2>4, <1>2, <1>4, <1>5, PrepaidConstants
  <2>7. \A v \in Call : call'[v] = "new" => v \notin unguarded'
    BY <1>1, <1>8 DEF OverdraftInv, Charge, TypeOK
  <2> QED
    BY <1>1, <1>2, <1>3, <2>3, <2>5, <2>6, <2>7 DEF OverdraftInv
<1>9. ASSUME NEW c \in Clerk, Recharge(c) PROVE OverdraftInv'
  <2>1. seen[c] = balance /\ clerk[c] = "new"
    BY <1>1, <1>9, PrepaidConstants DEF Recharge, Book, BalanceInv, LockInv
  <2>2. UNCHANGED <<call, unguarded, peak>> /\ balance' = balance + Amount[c]
    BY <1>9, <2>1 DEF Recharge, Book
  <2>3. Deducted' = {} => Deducted = {} /\ Amount[c] >= 0
    <3>1. clerk' = [clerk EXCEPT ![c] = "done"]
      BY <1>9 DEF Recharge
    <3>2. Deducted \subseteq Deducted'
      BY <1>1, <3>1 DEF Deducted, TypeOK
    <3>3. Amount[c] < 0 => c \in Deducted'
      BY <1>1, <3>1 DEF Deducted, TypeOK
    <3> QED
      BY <3>2, <3>3, PrepaidConstants
  <2>4. Unpaid' = Unpaid
    BY <2>2 DEF Unpaid
  <2>5. OverdraftBounded'
    <3> SUFFICES ASSUME Deducted' = {}
                 PROVE  \/ peak = 0 /\ Available' >= Base
                        \/ Available' - Cost * n > Floor - Cost * (peak + g)
      BY <2>2, <2>4 DEF OverdraftBounded, Floor, Base
    <3>1. Available' >= Available
      BY <1>1, <2>2, <2>3, PrepaidConstants DEF Available, TypeOK
    <3>2. \/ peak = 0 /\ Available >= Base
          \/ Available - Cost * n > Floor - Cost * (peak + g)
      BY <2>3 DEF OverdraftInv, OverdraftBounded
    <3>3. peak + g \in Nat
      BY <1>2, <1>3
    <3> QED
      BY <3>1, <3>2, <3>3, <1>2, <1>3, <1>4, <1>5
  <2> QED
    BY <1>1, <1>3, <2>2, <2>4, <2>5 DEF OverdraftInv
<1>10. CASE \/ \E u \in Call : StartCharge(u)
            \/ \E c \in Clerk : StartRecharge(c)
            \/ RollBack \/ UNCHANGED vars
  <2>1. UNCHANGED <<balance, call, clerk, unguarded, peak>>
    BY <1>10 DEF StartCharge, StartRecharge, RollBack, vars
  <2>2. Unpaid' = Unpaid /\ Deducted' = Deducted
    BY <2>1 DEF Unpaid, Deducted
  <2>3. OverdraftBounded'
    BY <2>1, <2>2 DEF OverdraftInv, OverdraftBounded, Available, Floor, Base
  <2> QED
    BY <1>1, <1>3, <2>1, <2>2, <2>3 DEF OverdraftInv
<1> QED
  BY <1>6, <1>7, <1>8, <1>9, <1>10 DEF Next

\* Whatever calls are let in together, the account is never overdrawn by as much as
\* the most calls that were unpaid at once cost, plus those let in unseen.
THEOREM OverdraftAlwaysBounded == Spec => []OverdraftBounded
<1>1. OverdraftInv => OverdraftBounded
  BY DEF OverdraftInv
<1> QED
  BY <1>1, OverdraftInit, OverdraftStep, PTL DEF Spec
-----------------------------------------------------------------------------
(* Rates. *)

Fetched == UNION {[D -> Rates!Value] : D \in SUBSET Rates!Row}
Billing == [call : Calls, got : Fetched, read : Rates!Value \cup {Rates!NoRead}, clean : BOOLEAN]

RatesTyped ==
    /\ db \in [Rates!Row -> [acct : Acct \cup {NoAcct}, rate : Rate \cup {0}]]
    /\ ever \in [Rates!Row -> SUBSET (Rate \cup {0})]
    /\ cache \in [Rates!Row -> Rates!Value \cup {Rates!NoEntry}]
    /\ toClear \in BOOLEAN /\ dbUp \in BOOLEAN
    /\ job \in [Thread -> Billing \cup {Rates!NoJob}]
    /\ bill \in [Thread -> [owner : Acct \cup {NoAcct}, rate : Rate \cup {0}, cost : Rate \cup {0},
                            layers : SUBSET Rates!Row, clean : BOOLEAN, current : BOOLEAN]]
    /\ changes \in 0 .. MaxChanges /\ faults \in 0 .. MaxFaults

\* The rates in the tables are among those the rows have had; a phone and an access point
\* have an account, no other row has.
TablesKept ==
    /\ \A k \in Rates!Row : db[k].rate \in ever[k]
    /\ \A k \in {"ap", "ph"} : db[k].acct \in Acct
    /\ \A a \in Acct : db[a].acct = NoAcct
    /\ faults = 0 => dbUp

\* What was read of row k: rates it has had and its account had, or nothing as the row
\* could not be read.
Fits(k, v) ==
    /\ v.rate = 0 \/ v.rate \in ever[k]
    /\ k = "ap" /\ v.acct # NoAcct => v.base = 0 \/ v.base \in ever[v.acct]
    /\ faults = 0 =>
        /\ v.rate \in ever[k]
        /\ k = "ap" => v.acct \in Acct /\ v.base \in ever[v.acct]
        /\ k = "ph" => v.acct \in Acct

CacheFits == \A k \in Rates!Row : cache[k] = Rates!NoEntry \/ Fits(k, cache[k])

\* A thread has looked up rows of its call, and knows what fits them.
JobFetched(j) ==
    /\ "ap" \in DOMAIN j.got => j.call # "phone"
    /\ "ph" \in DOMAIN j.got => j.call # "trunk"
    /\ \A k \in DOMAIN j.got : Fits(k, j.got[k])
    /\ j.read = Rates!NoRead \/ (Rates!Wanted(j) \in Rates!Row /\ Fits(Rates!Wanted(j), j.read))

RatesInv ==
    /\ RatesTyped /\ TablesKept /\ CacheFits
    /\ \A t \in Thread : job[t] = Rates!NoJob \/ JobFetched(job[t])
    /\ Rates!BilledAtOwnRate /\ Rates!FreeOnlyIfNoRate

LEMMA RateFacts ==
    /\ Rate \subseteq Nat \ {0} /\ 0 \notin Rate /\ StartRate \in [Rates!Row -> Rate \cup {0}]
    /\ Calls \subseteq {"trunk", "phone", "trunk to phone"} /\ NoAcct \notin Rates!Row
    /\ Rates!Row = {"ap", "ph", "gw", "cr"} \cup Acct
    /\ Acct \cap {"ap", "ph", "gw", "cr"} = {} /\ "nothing" \notin Rates!Row
BY RatesAssumption DEF Rates!RateConstants, Rates!Row

LEMMA MaxInNat == MaxChanges \in Nat /\ MaxFaults \in Nat
BY RatesAssumption DEF Rates!RateConstants

LEMMA RateBounds == 0 \in 0 .. MaxChanges /\ 0 \in 0 .. MaxFaults
BY MaxInNat

LEMMA RatesInit == Rates!Init => RatesInv
<1> SUFFICES ASSUME Rates!Init PROVE RatesInv
    OBVIOUS
<1> USE RateFacts
<1>1. PICK owner \in [{"ap", "ph"} -> Acct] :
        db = [k \in Rates!Row |-> [acct |-> IF k \in {"ap", "ph"} THEN owner[k] ELSE NoAcct, rate |-> StartRate[k]]]
    BY DEF Rates!Init
<1>2. /\ \A k \in Rates!Row : db[k].rate = StartRate[k] /\ db[k].acct = IF k \in {"ap", "ph"} THEN owner[k] ELSE NoAcct
      /\ \A k \in Rates!Row : ever[k] = {StartRate[k]}
    BY <1>1 DEF Rates!Init
<1>3. /\ db \in [Rates!Row -> [acct : Acct \cup {NoAcct}, rate : Rate \cup {0}]]
      /\ ever \in [Rates!Row -> SUBSET (Rate \cup {0})]
    <2>1. \A k \in Rates!Row : StartRate[k] \in Rate \cup {0} /\ {StartRate[k]} \in SUBSET (Rate \cup {0})
        OBVIOUS
    <2>2. \A k \in Rates!Row : (IF k \in {"ap", "ph"} THEN owner[k] ELSE NoAcct) \in Acct \cup {NoAcct}
        OBVIOUS
    <2>3. ever = [k \in Rates!Row |-> {StartRate[k]}]
        BY DEF Rates!Init
    <2>4. db \in [Rates!Row -> [acct : Acct \cup {NoAcct}, rate : Rate \cup {0}]]
        BY <1>1, <2>1, <2>2
    <2> QED
        BY <2>1, <2>3, <2>4
<1>4. bill \in [Thread -> [owner : Acct \cup {NoAcct}, rate : Rate \cup {0}, cost : Rate \cup {0},
                           layers : SUBSET Rates!Row, clean : BOOLEAN, current : BOOLEAN]]
    BY DEF Rates!Init, Rates!NoBill
<1>5. /\ cache \in [Rates!Row -> Rates!Value \cup {Rates!NoEntry}]
      /\ job \in [Thread -> Billing \cup {Rates!NoJob}]
    BY DEF Rates!Init
<1>8. RatesTyped
    <2>1. toClear \in BOOLEAN /\ dbUp \in BOOLEAN
        BY DEF Rates!Init
    <2>2. changes = 0 /\ faults = 0
        BY DEF Rates!Init
    <2> QED
        BY <1>3, <1>4, <1>5, <2>1, <2>2, RateBounds DEF RatesTyped
<1>6. TablesKept
    BY <1>2 DEF TablesKept, Rates!Init
<1>7. Rates!BilledAtOwnRate /\ Rates!FreeOnlyIfNoRate
    BY DEF Rates!BilledAtOwnRate, Rates!FreeOnlyIfNoRate, Rates!Init, Rates!NoBill
<1> QED
    BY <1>6, <1>7, <1>8 DEF RatesInv, CacheFits, Rates!Init

\* What fits a row still fits when the row has had more rates, or the database fails.
LEMMA StillFits ==
    ASSUME RatesTyped, \A k \in Rates!Row : ever[k] \subseteq ever'[k], faults' = 0 => faults = 0
    PROVE  \A k \in Rates!Row, v \in Rates!Value : Fits(k, v) => Fits(k, v)'
BY RateFacts DEF Fits, Rates!Value, RatesTyped

\* The row that is looked up next is one, and one that the call has.
LEMMA NextRow ==
    ASSUME NEW j, j.call \in Calls, NEW k, k = Rates!Wanted(j),
           Rates!Owner(j) \in Acct \cup {NoAcct}
    PROVE  (k # "nothing" => k \in Rates!Row) /\ (k = "ap" => j.call # "phone") /\ (k = "ph" => j.call # "trunk")
BY RateFacts DEF Rates!Wanted

LEMMA OwnerTyped ==
    ASSUME NEW j \in Billing
    PROVE  /\ \A k \in Rates!Row : Rates!Of(j, k) \in Rates!Value
           /\ Rates!Owner(j) \in Acct \cup {NoAcct}
<1>1. PICK D \in SUBSET Rates!Row : j.got \in [D -> Rates!Value]
    BY DEF Billing, Fetched
<1>2. Rates!Blank \in Rates!Value
    BY DEF Rates!Blank, Rates!Value
<1>3. \A k \in Rates!Row : Rates!Of(j, k) \in Rates!Value
    BY <1>1, <1>2 DEF Rates!Of
<1>4. Rates!Of(j, "ap").acct \in Acct \cup {NoAcct} /\ Rates!Of(j, "ph").acct \in Acct \cup {NoAcct}
    BY <1>3, RateFacts DEF Rates!Value
<1> QED
    BY <1>3, <1>4 DEF Rates!Owner

\* What a thread learned does not change what the others know.
LEMMA LearnStep ==
    ASSUME RatesInv, NEW t \in Thread, job[t] # Rates!NoJob,
           NEW k \in Rates!Row, k = Rates!Wanted(job[t]),
           NEW v \in Rates!Value, Fits(k, v), Rates!Got(t, v),
           cache' \in [Rates!Row -> Rates!Value \cup {Rates!NoEntry}], CacheFits',
           UNCHANGED <<db, ever, toClear, bill, changes, faults, dbUp>>
    PROVE  RatesInv'
<1> DEFINE j == job[t]
           got == Rates!With(j.got, k, v)
           new == [call |-> j.call, got |-> got, read |-> Rates!NoRead, clean |-> j.clean]
<1>1. j \in Billing /\ JobFetched(j) /\ job \in [Thread -> Billing \cup {Rates!NoJob}]
    BY DEF RatesInv, RatesTyped
<1>2. DOMAIN got = DOMAIN j.got \cup {k} /\ got[k] = v /\ \A m \in DOMAIN j.got \ {k} : got[m] = j.got[m]
    BY DEF Rates!With
<1>3. got \in Fetched
    <2>1. PICK D \in SUBSET Rates!Row : j.got \in [D -> Rates!Value]
        BY <1>1 DEF Billing, Fetched
    <2>2. got \in [D \cup {k} -> Rates!Value] /\ D \cup {k} \in SUBSET Rates!Row
        BY <2>1 DEF Rates!With
    <2> HIDE DEF got
    <2> QED
        BY <2>2 DEF Fetched
<1>4. job' = [job EXCEPT ![t] = new]
    BY <1>1 DEF Rates!Got
<1> HIDE DEF got
<1>5. new \in Billing
    BY <1>1, <1>3 DEF Billing
<1>6. k = "ap" => j.call # "phone"
    BY <1>1, NextRow, OwnerTyped DEF Billing
<1>7. k = "ph" => j.call # "trunk"
    BY <1>1, NextRow, OwnerTyped DEF Billing
<1>8. JobFetched(new)
    BY <1>1, <1>2, <1>6, <1>7 DEF JobFetched
<1> HIDE DEF new, j
<1>9. job' \in [Thread -> Billing \cup {Rates!NoJob}] /\ job'[t] = new /\ \A s \in Thread \ {t} : job'[s] = job[s]
    BY <1>1, <1>4, <1>5
<1>10. \A s \in Thread : job'[s] = Rates!NoJob \/ JobFetched(job'[s])
    BY <1>8, <1>9 DEF RatesInv
<1>11. \A s \in Thread : job'[s] = Rates!NoJob \/ JobFetched(job[s])'
    BY <1>10 DEF JobFetched, Fits
<1> QED
    BY <1>9, <1>11 DEF RatesInv, RatesTyped, TablesKept, Rates!BilledAtOwnRate, Rates!FreeOnlyIfNoRate

LEMMA StartBillStep ==
    ASSUME RatesInv, NEW t \in Thread, Rates!StartBill(t)
    PROVE  RatesInv'
<1>1. PICK kind \in Calls :
        job' = [job EXCEPT ![t] = [call |-> kind, got |-> Rates!Nothing, read |-> Rates!NoRead, clean |-> ~toClear]]
    BY DEF Rates!StartBill
<1> DEFINE new == [call |-> kind, got |-> Rates!Nothing, read |-> Rates!NoRead, clean |-> ~toClear]
<1>2. new \in Billing /\ JobFetched(new)
    <2>1. Rates!Nothing \in [{} -> Rates!Value] /\ DOMAIN Rates!Nothing = {}
        BY DEF Rates!Nothing
    <2>2. Rates!Nothing \in Fetched
        BY <2>1 DEF Fetched
    <2>3. new \in Billing
        BY <2>2 DEF Billing, RatesInv, RatesTyped
    <2> QED
        BY <2>1, <2>3 DEF JobFetched
<1>3. UNCHANGED <<db, ever, cache, toClear, changes, faults, dbUp>> /\ bill' = [bill EXCEPT ![t] = Rates!NoBill]
    BY DEF Rates!StartBill
<1> HIDE DEF new
<1>4. /\ job' \in [Thread -> Billing \cup {Rates!NoJob}] /\ job'[t] = new
      /\ \A s \in Thread \ {t} : job'[s] = job[s]
    BY <1>1, <1>2 DEF new, RatesInv, RatesTyped
<1>5. \A s \in Thread : job'[s] = Rates!NoJob \/ JobFetched(job'[s])
    BY <1>2, <1>4 DEF RatesInv
<1>6. \A s \in Thread : job'[s] = Rates!NoJob \/ JobFetched(job[s])'
    BY <1>3, <1>5 DEF JobFetched, Fits
<1>7. Rates!NoBill \in [owner : Acct \cup {NoAcct}, rate : Rate \cup {0}, cost : Rate \cup {0},
                        layers : SUBSET Rates!Row, clean : BOOLEAN, current : BOOLEAN]
      /\ Rates!NoBill.rate = 0 /\ Rates!NoBill.layers = {}
    BY DEF Rates!NoBill
<1>8. /\ bill' \in [Thread -> [owner : Acct \cup {NoAcct}, rate : Rate \cup {0}, cost : Rate \cup {0},
                               layers : SUBSET Rates!Row, clean : BOOLEAN, current : BOOLEAN]]
      /\ \A s \in Thread : bill'[s] = Rates!NoBill \/ bill'[s] = bill[s]
    BY <1>3, <1>7 DEF RatesInv, RatesTyped
<1>9. RatesTyped' /\ TablesKept' /\ CacheFits'
    BY <1>3, <1>4, <1>8 DEF RatesInv, RatesTyped, TablesKept, CacheFits, Fits
<1>10. Rates!BilledAtOwnRate'
    BY <1>3, <1>7, <1>8 DEF RatesInv, Rates!BilledAtOwnRate
<1>11. Rates!FreeOnlyIfNoRate'
    BY <1>3, <1>7, <1>8 DEF RatesInv, Rates!FreeOnlyIfNoRate
<1> QED
    BY <1>6, <1>9, <1>10, <1>11 DEF RatesInv

LEMMA HitStep ==
    ASSUME RatesInv, NEW t \in Thread, Rates!Hit(t)
    PROVE  RatesInv'
<1>1. PICK k : k = Rates!Wanted(job[t])
    OBVIOUS
<1>2. /\ job[t] # Rates!NoJob /\ k # "nothing" /\ cache[k] # Rates!NoEntry /\ Rates!Got(t, cache[k])
      /\ UNCHANGED <<db, ever, cache, toClear, bill, changes, faults, dbUp>>
    BY <1>1 DEF Rates!Hit, Rates!Busy, Rates!Slot
<1>3. job[t] \in Billing
    BY <1>2 DEF RatesInv, RatesTyped
<1>4. k \in Rates!Row
    BY <1>1, <1>2, <1>3, NextRow, OwnerTyped DEF Billing
<1>5. PICK v \in Rates!Value : v = cache[k]
    BY <1>2, <1>4 DEF RatesInv, RatesTyped
<1>6. Fits(k, v) /\ Rates!Got(t, v)
    BY <1>2, <1>4, <1>5 DEF RatesInv, CacheFits
<1>7. cache' \in [Rates!Row -> Rates!Value \cup {Rates!NoEntry}] /\ CacheFits'
    BY <1>2 DEF RatesInv, RatesTyped, CacheFits, Fits
<1> QED
    BY <1>1, <1>2, <1>4, <1>6, <1>7, LearnStep

\* What was read goes into the cache under the key of its row, and to the call.
LEMMA KeepStep ==
    ASSUME RatesInv, NEW t \in Thread, Rates!Keep(t)
    PROVE  RatesInv'
<1>1. PICK k, v : k = Rates!Wanted(job[t]) /\ v = job[t].read
    OBVIOUS
<1>2. /\ job[t] # Rates!NoJob /\ v # Rates!NoRead /\ Rates!Got(t, v)
      /\ cache' = [cache EXCEPT ![k] = v]
      /\ UNCHANGED <<db, ever, toClear, bill, changes, faults, dbUp>>
    BY <1>1 DEF Rates!Keep, Rates!Busy, Rates!Slot
<1>3. job[t] \in Billing /\ JobFetched(job[t])
    BY <1>2 DEF RatesInv, RatesTyped
<1>4. v \in Rates!Value /\ k \in Rates!Row /\ Fits(k, v)
    BY <1>1, <1>2, <1>3 DEF Billing, JobFetched
<1>5. cache' \in [Rates!Row -> Rates!Value \cup {Rates!NoEntry}]
    BY <1>2, <1>4 DEF RatesInv, RatesTyped
<1>6. \A m \in Rates!Row : (cache'[m] = v /\ m = k) \/ cache'[m] = cache[m]
    BY <1>2, <1>4 DEF RatesInv, RatesTyped
<1>7. CacheFits'
    BY <1>2, <1>4, <1>6 DEF RatesInv, CacheFits, Fits
<1> QED
    BY <1>1, <1>2, <1>4, <1>5, <1>7, LearnStep

\* What a row gives fits it; that it can not be read is a fault.
LEMMA ReadFits ==
    ASSUME RatesInv, NEW k \in Rates!Row
    PROVE  /\ Rates!ReadRow(k) \in Rates!Value /\ Fits(k, Rates!ReadRow(k))
           /\ Rates!Blank \in Rates!Value /\ (faults # 0 => Fits(k, Rates!Blank))
<1> USE RateFacts DEF RatesInv
<1>1. k = "ap" => db[k].acct \in Acct /\ db[db[k].acct].rate \in ever[db[k].acct]
                 /\ db[db[k].acct].rate \in Rate \cup {0}
    BY DEF TablesKept, RatesTyped
<1>2. db[k].acct \in Acct \cup {NoAcct} /\ db[k].rate \in Rate \cup {0} /\ db[k].rate \in ever[k]
    BY DEF RatesTyped, TablesKept
<1>3. Rates!ReadRow(k) \in Rates!Value
    BY <1>1, <1>2 DEF Rates!ReadRow, Rates!Value
<1>4. Fits(k, Rates!ReadRow(k))
    BY <1>1, <1>2 DEF Rates!ReadRow, Fits, TablesKept
<1>5. Rates!Blank \in Rates!Value /\ (faults # 0 => Fits(k, Rates!Blank))
    BY DEF Rates!Blank, Rates!Value, Fits
<1> QED
    BY <1>3, <1>4, <1>5

LEMMA MissStep ==
    ASSUME RatesInv, NEW t \in Thread, Rates!Miss(t)
    PROVE  RatesInv'
<1>1. PICK k : k = Rates!Wanted(job[t])
    OBVIOUS
<1>2. /\ job[t] # Rates!NoJob /\ k # "nothing"
      /\ UNCHANGED <<db, ever, cache, toClear, bill, changes, faults, dbUp>>
      /\ \/ dbUp /\ job' = [job EXCEPT ![t].read = Rates!ReadRow(k)]
         \/ ~dbUp /\ k = "ap" /\ Rates!Got(t, Rates!Blank)
         \/ ~dbUp /\ job' = [job EXCEPT ![t].read = Rates!Blank]
    BY <1>1 DEF Rates!Miss, Rates!Busy
<1>3. job[t] \in Billing /\ JobFetched(job[t]) /\ job \in [Thread -> Billing \cup {Rates!NoJob}]
    BY <1>2 DEF RatesInv, RatesTyped
<1>4. k \in Rates!Row
    BY <1>1, <1>2, <1>3, NextRow, OwnerTyped DEF Billing
<1>5. ~dbUp => faults # 0
    BY DEF RatesInv, TablesKept
<1>6. CASE Rates!Got(t, Rates!Blank) /\ ~dbUp
    <2>1. PICK v \in Rates!Value : v = Rates!Blank /\ Fits(k, v)
        BY <1>4, <1>5, <1>6, ReadFits
    <2>2. cache' \in [Rates!Row -> Rates!Value \cup {Rates!NoEntry}] /\ CacheFits'
        BY <1>2 DEF RatesInv, RatesTyped, CacheFits, Fits
    <2> QED
        BY <1>1, <1>2, <1>4, <1>6, <2>1, <2>2, LearnStep
<1>7. ASSUME NEW v \in Rates!Value, Fits(k, v), job' = [job EXCEPT ![t].read = v]
      PROVE  RatesInv'
    <2> DEFINE new == [job[t] EXCEPT !.read = v]
    <2>1. new = [call |-> job[t].call, got |-> job[t].got, read |-> v, clean |-> job[t].clean]
        BY <1>3 DEF Billing
    <2>2. job' = [job EXCEPT ![t] = new]
        BY <1>3, <1>7
    <2>3. Rates!Wanted(new) = Rates!Wanted(job[t])
        BY <2>1 DEF Rates!Wanted, Rates!Owner, Rates!Of
    <2>4. new \in Billing
        BY <1>3, <2>1 DEF Billing
    <2>5. JobFetched(new)
        BY <1>1, <1>3, <1>4, <1>7, <2>1, <2>3 DEF JobFetched
    <2> HIDE DEF new
    <2>6. /\ job' \in [Thread -> Billing \cup {Rates!NoJob}] /\ job'[t] = new
          /\ \A s \in Thread \ {t} : job'[s] = job[s]
        BY <1>3, <2>2, <2>4
    <2>7. \A s \in Thread : job'[s] = Rates!NoJob \/ JobFetched(job'[s])
        BY <2>5, <2>6 DEF RatesInv
    <2>8. \A s \in Thread : job'[s] = Rates!NoJob \/ JobFetched(job[s])'
        BY <1>2, <2>7 DEF JobFetched, Fits
    <2> QED
        BY <1>2, <2>6, <2>8 DEF RatesInv, RatesTyped, TablesKept, CacheFits, Fits,
                                Rates!BilledAtOwnRate, Rates!FreeOnlyIfNoRate
<1> QED
    BY <1>2, <1>4, <1>5, <1>6, <1>7, ReadFits

\* The rate of the chain, if it is set, is one that a layer of the call has had.
LEMMA ChainRate ==
    ASSUME RatesInv, NEW j \in Billing, JobFetched(j), Rates!Wanted(j) = "nothing"
    PROVE  /\ Rates!IncomeRate(j) \in Rate \cup {0} /\ Rates!CostRate(j) \in Rate \cup {0}
           /\ Rates!Layers(j) \in SUBSET Rates!Row
           /\ Rates!IncomeRate(j) = 0 \/ \E k \in Rates!Layers(j) : Rates!IncomeRate(j) \in ever[k]
           /\ faults = 0 /\ Rates!IncomeRate(j) = 0 => \A k \in Rates!Layers(j) : 0 \in ever[k]
<1> USE RateFacts
<1> DEFINE ap == Rates!Of(j, "ap")
           ph == Rates!Of(j, "ph")
           ow == Rates!Owner(j)
           in == Rates!Of(j, ow)
<1>1. /\ \A k \in Rates!Row : Rates!Of(j, k) \in Rates!Value
      /\ ow \in Acct \cup {NoAcct}
    BY OwnerTyped
<1>2. ap \in Rates!Value /\ ph \in Rates!Value /\ (ow # NoAcct => in \in Rates!Value)
    BY <1>1
<1>3. /\ ap.acct \in Acct \cup {NoAcct} /\ ap.rate \in Rate \cup {0} /\ ap.base \in Rate \cup {0}
      /\ ph.acct \in Acct \cup {NoAcct} /\ ph.rate \in Rate \cup {0}
      /\ ow # NoAcct => in.rate \in Rate \cup {0}
    BY <1>2 DEF Rates!Value
<1>4. \A k \in Rates!Row : k \in DOMAIN j.got => Fits(k, Rates!Of(j, k))
    BY DEF JobFetched, Rates!Of
<1>5. \A k \in Rates!Row : k \notin DOMAIN j.got => Rates!Of(j, k) = Rates!Blank
    BY DEF Rates!Of
<1>6. /\ j.call # "phone" <=> "ap" \in DOMAIN j.got
      /\ j.call # "trunk" <=> "ph" \in DOMAIN j.got
      /\ ap.acct = NoAcct /\ ow # NoAcct => ow \in DOMAIN j.got
    <2>1. "ap" \in DOMAIN j.got => j.call # "phone"
        BY DEF JobFetched
    <2>2. "ph" \in DOMAIN j.got => j.call # "trunk"
        BY DEF JobFetched
    <2>3. ow # NoAcct => ow # "nothing"
        BY <1>1
    <2> HIDE DEF ow, ap
    <2>4. /\ j.call # "phone" => "ap" \in DOMAIN j.got
          /\ j.call # "trunk" => "ph" \in DOMAIN j.got
          /\ ap.acct = NoAcct /\ ow # NoAcct => ow \in DOMAIN j.got
        BY <2>3 DEF Rates!Wanted, ow, ap
    <2> QED
        BY <2>1, <2>2, <2>4
<1>7. /\ j.call = "phone" => ap.rate = 0 /\ ap.acct = NoAcct
      /\ j.call = "trunk" => ph.rate = 0 /\ ph.acct = NoAcct
    <2>1. Rates!Blank.rate = 0 /\ Rates!Blank.acct = NoAcct
        BY DEF Rates!Blank
    <2>2. j.call = "phone" => ap = Rates!Blank
        BY <1>5, <1>6
    <2>3. j.call = "trunk" => ph = Rates!Blank
        BY <1>5, <1>6
    <2> QED
        BY <2>1, <2>2, <2>3
<1>8. /\ j.call # "phone" => Fits("ap", ap)
      /\ j.call # "trunk" => Fits("ph", ph)
      /\ ap.acct = NoAcct /\ ow # NoAcct => Fits(ow, in)
    BY <1>1, <1>4, <1>6
<1>9. ap.acct # NoAcct => ow = ap.acct
    BY DEF Rates!Owner
<1> DEFINE phone == Rates!PhoneRate(j)
           acct == Rates!AccountRate(j)
<1>10. /\ phone \in Rate \cup {0} /\ (phone # 0 => phone \in ever["ph"] /\ "ph" \in Rates!Layers(j))
    <2>1. phone = IF ph.acct \notin {NoAcct, ow} THEN 0 ELSE ph.rate
        BY DEF Rates!PhoneRate
    <2> QED
        BY <1>3, <1>7, <1>8, <2>1 DEF Rates!Layers, Fits
<1>11. ap.rate # 0 => ap.rate \in ever["ap"] /\ "ap" \in Rates!Layers(j)
    BY <1>7, <1>8 DEF Rates!Layers, Fits
<1>12. acct \in Rate \cup {0} /\ (acct # 0 => ow \in Rates!Layers(j) /\ acct \in ever[ow])
    <2>1. acct = IF ap.acct # NoAcct THEN ap.base ELSE IF ow = NoAcct THEN 0 ELSE in.rate
        BY DEF Rates!AccountRate
    <2>2. ow # NoAcct => ow \in Rates!Layers(j)
        BY DEF Rates!Layers
    <2> QED
        BY <1>3, <1>7, <1>8, <1>9, <2>1, <2>2 DEF Fits
<1>13. Rates!IncomeRate(j) = IF phone # 0 THEN phone ELSE IF ap.rate # 0 THEN ap.rate ELSE acct
    BY DEF Rates!IncomeRate, Rates!FirstSet
<1>14. Rates!CostRate(j) \in Rate \cup {0}
    <2>1. Rates!Of(j, "gw").rate \in Rate \cup {0} /\ Rates!Of(j, "cr").rate \in Rate \cup {0}
        BY <1>1 DEF Rates!Value
    <2> QED
        BY <2>1 DEF Rates!CostRate, Rates!FirstSet
<1>15. Rates!Layers(j) \in SUBSET Rates!Row
    BY <1>1 DEF Rates!Layers
<1>16. ASSUME faults = 0, phone = 0, ap.rate = 0, acct = 0, NEW k \in Rates!Layers(j) PROVE 0 \in ever[k]
    <2>1. CASE k = "ap" /\ j.call # "phone"
        BY <1>8, <1>16, <2>1 DEF Fits
    <2>2. CASE k = ow /\ ow # NoAcct
        <3>1. acct = IF ap.acct # NoAcct THEN ap.base ELSE in.rate
            BY <2>2 DEF Rates!AccountRate
        <3> QED
            BY <1>7, <1>8, <1>9, <1>16, <2>2, <3>1 DEF Fits
    <2>3. CASE k = "ph" /\ j.call # "trunk" /\ ph.acct \in {NoAcct, ow}
        <3>1. phone = ph.rate
            BY <2>3 DEF Rates!PhoneRate
        <3> QED
            BY <1>8, <1>16, <2>3, <3>1 DEF Fits
    <2> QED
        BY <2>1, <2>2, <2>3 DEF Rates!Layers
<1> HIDE DEF ap, ph, ow, in, phone, acct
<1>17. Rates!IncomeRate(j) \in Rate \cup {0}
    BY <1>3, <1>10, <1>12, <1>13
<1>18. Rates!IncomeRate(j) = 0 \/ \E k \in Rates!Layers(j) : Rates!IncomeRate(j) \in ever[k]
    BY <1>10, <1>11, <1>12, <1>13
<1>19. faults = 0 /\ Rates!IncomeRate(j) = 0 => \A k \in Rates!Layers(j) : 0 \in ever[k]
    BY <1>13, <1>16
<1> QED
    BY <1>14, <1>15, <1>17, <1>18, <1>19

\* A bill is made of what the thread knows.
LEMMA FinishStep ==
    ASSUME RatesInv, NEW t \in Thread, Rates!FinishBill(t)
    PROVE  RatesInv'
<1>1. PICK j : j = job[t]
    OBVIOUS
<1> DEFINE now == \A k \in DOMAIN j.got : j.got[k] = Rates!ReadRow(k)
           b == [owner |-> Rates!Owner(j), rate |-> Rates!IncomeRate(j), cost |-> Rates!CostRate(j),
                 layers |-> Rates!Layers(j), clean |-> j.clean, current |-> now]
<1>2. /\ j # Rates!NoJob /\ Rates!Wanted(j) = "nothing"
      /\ bill' = [bill EXCEPT ![t] = b] /\ job' = [job EXCEPT ![t] = Rates!NoJob]
      /\ UNCHANGED <<db, ever, cache, toClear, changes, faults, dbUp>>
    BY <1>1 DEF Rates!FinishBill, Rates!Busy
<1>3. j \in Billing /\ JobFetched(j)
    BY <1>1, <1>2 DEF RatesInv, RatesTyped
<1>4. /\ b.rate \in Rate \cup {0} /\ b.cost \in Rate \cup {0} /\ b.layers \in SUBSET Rates!Row
      /\ b.rate = 0 \/ \E k \in b.layers : b.rate \in ever[k]
      /\ faults = 0 /\ b.rate = 0 => \A k \in b.layers : 0 \in ever[k]
    BY <1>2, <1>3, ChainRate
<1>5. b.owner \in Acct \cup {NoAcct} /\ b.clean \in BOOLEAN /\ b.current \in BOOLEAN
    BY <1>3, OwnerTyped DEF Billing
<1>6. b \in [owner : Acct \cup {NoAcct}, rate : Rate \cup {0}, cost : Rate \cup {0},
             layers : SUBSET Rates!Row, clean : BOOLEAN, current : BOOLEAN]
    BY <1>4, <1>5
<1> HIDE DEF b
<1>7. /\ bill' \in [Thread -> [owner : Acct \cup {NoAcct}, rate : Rate \cup {0}, cost : Rate \cup {0},
                               layers : SUBSET Rates!Row, clean : BOOLEAN, current : BOOLEAN]]
      /\ \A s \in Thread : bill'[s] = b \/ bill'[s] = bill[s]
    BY <1>2, <1>6 DEF RatesInv, RatesTyped
<1>8. /\ job' \in [Thread -> Billing \cup {Rates!NoJob}]
      /\ \A s \in Thread : job'[s] = Rates!NoJob \/ job'[s] = job[s]
    BY <1>2 DEF RatesInv, RatesTyped
<1>9. \A s \in Thread : job'[s] = Rates!NoJob \/ JobFetched(job'[s])
    BY <1>8 DEF RatesInv
<1>10. \A s \in Thread : job'[s] = Rates!NoJob \/ JobFetched(job[s])'
    BY <1>2, <1>9 DEF JobFetched, Fits
<1>11. RatesTyped' /\ TablesKept' /\ CacheFits'
    BY <1>2, <1>7, <1>8 DEF RatesInv, RatesTyped, TablesKept, CacheFits, Fits
<1>12. Rates!BilledAtOwnRate'
    BY <1>2, <1>4, <1>7 DEF RatesInv, Rates!BilledAtOwnRate
<1>13. Rates!FreeOnlyIfNoRate'
    BY <1>2, <1>4, <1>7 DEF RatesInv, Rates!FreeOnlyIfNoRate
<1> QED
    BY <1>10, <1>11, <1>12, <1>13 DEF RatesInv

\* The tables and the environment change: what threads and the cache know fits as before.
LEMMA WorldStep ==
    ASSUME RatesInv, RatesTyped', TablesKept', UNCHANGED bill,
           \A k \in Rates!Row : ever[k] \subseteq ever'[k], faults' = 0 => faults = 0,
           \A k \in Rates!Row : cache'[k] = cache[k] \/ cache'[k] = Rates!NoEntry,
           job' = job \/ job' = Rates!Dirty(job)
    PROVE  RatesInv'
<1>1. \A k \in Rates!Row, v \in Rates!Value : Fits(k, v) => Fits(k, v)'
    BY StillFits DEF RatesInv
<1>2. CacheFits'
    <2> SUFFICES ASSUME NEW k \in Rates!Row, cache'[k] # Rates!NoEntry PROVE Fits(k, cache[k])'
        BY DEF CacheFits
    <2>1. PICK v \in Rates!Value : v = cache[k] /\ v = cache'[k] /\ Fits(k, v)
        BY DEF RatesInv, RatesTyped, CacheFits
    <2>2. Fits(k, v)'
        BY <1>1, <2>1
    <2> QED
        BY <2>1, <2>2 DEF Fits
<1>3. ASSUME NEW t \in Thread, job'[t] # Rates!NoJob PROVE JobFetched(job[t])'
    <2>1. PICK j \in Billing : j = job[t] /\ JobFetched(j) /\ job[t] # Rates!NoJob
        BY <1>3 DEF RatesInv, RatesTyped, Rates!Dirty
    <2>2. PICK D \in SUBSET Rates!Row : j.got \in [D -> Rates!Value]
        BY DEF Billing, Fetched
    <2>3. JobFetched(j)'
        <3>1. \A k \in DOMAIN j.got : Fits(k, j.got[k])'
            BY <1>1, <2>1, <2>2 DEF JobFetched
        <3>2. j.read = Rates!NoRead \/ (Rates!Wanted(j) \in Rates!Row /\ Fits(Rates!Wanted(j), j.read)')
            BY <1>1, <2>1 DEF JobFetched, Billing
        <3> QED
            BY <2>1, <3>1, <3>2 DEF JobFetched
    <2>4. job'[t] = j \/ job'[t] = [j EXCEPT !.clean = FALSE]
        BY <2>1 DEF Rates!Dirty
    <2>5. PICK i : i = job'[t]
        OBVIOUS
    <2>6. i.got = j.got /\ i.call = j.call /\ i.read = j.read
        BY <2>4, <2>5 DEF Billing
    <2>7. Rates!Wanted(i) = Rates!Wanted(j)
        BY <2>6 DEF Rates!Wanted, Rates!Owner, Rates!Of
    <2>8. JobFetched(i)'
        BY <2>3, <2>6, <2>7 DEF JobFetched
    <2> QED
        BY <2>5, <2>8 DEF JobFetched, Fits
<1>4. Rates!BilledAtOwnRate'
    BY DEF RatesInv, RatesTyped, Rates!BilledAtOwnRate
<1>5. Rates!FreeOnlyIfNoRate'
    BY DEF RatesInv, RatesTyped, Rates!FreeOnlyIfNoRate
<1> QED
    BY <1>2, <1>3, <1>4, <1>5 DEF RatesInv

LEMMA DirtyTyped ==
    ASSUME RatesTyped
    PROVE  Rates!Dirty(job) \in [Thread -> Billing \cup {Rates!NoJob}]
<1>1. ASSUME NEW t \in Thread, job[t] # Rates!NoJob PROVE [job[t] EXCEPT !.clean = FALSE] \in Billing
    BY <1>1 DEF RatesTyped, Billing
<1> QED
    BY <1>1 DEF Rates!Dirty

LEMMA RatesNext ==
    ASSUME RatesInv, [Rates!Next]_rateVars
    PROVE  RatesInv'
<1>0. RatesTyped /\ TablesKept
    BY DEF RatesInv
<1>1. ASSUME NEW k \in Rates!Row, NEW r \in Rate \cup {0}, Rates!SetRate(k, r) PROVE RatesInv'
    <2>1. /\ db' = [db EXCEPT ![k].rate = r] /\ ever' = [ever EXCEPT ![k] = @ \cup {r}]
          /\ job' = Rates!Dirty(job) /\ UNCHANGED <<cache, bill, faults, dbUp>>
          /\ toClear' = TRUE /\ changes < MaxChanges /\ changes' = changes + 1
        BY <1>1 DEF Rates!SetRate
    <2>2. db' \in [Rates!Row -> [acct : Acct \cup {NoAcct}, rate : Rate \cup {0}]]
          /\ \A m \in Rates!Row : db'[m].acct = db[m].acct /\ db'[m].rate = IF m = k THEN r ELSE db[m].rate
        <3>1. db[k] \in [acct : Acct \cup {NoAcct}, rate : Rate \cup {0}]
            BY <1>0 DEF RatesTyped
        <3> DEFINE row == [db[k] EXCEPT !.rate = r]
        <3>2. row \in [acct : Acct \cup {NoAcct}, rate : Rate \cup {0}] /\ row.acct = db[k].acct /\ row.rate = r
            BY <3>1
        <3>3. db' = [db EXCEPT ![k] = row]
            BY <2>1
        <3> HIDE DEF row
        <3> QED
            BY <1>0, <3>2, <3>3 DEF RatesTyped
    <2>3. ever' \in [Rates!Row -> SUBSET (Rate \cup {0})]
          /\ \A m \in Rates!Row : ever'[m] = IF m = k THEN ever[m] \cup {r} ELSE ever[m]
        BY <1>0, <2>1 DEF RatesTyped
    <2>4. changes' \in 0 .. MaxChanges /\ toClear' \in BOOLEAN
        <3>1. changes \in 0 .. MaxChanges
            BY <1>0 DEF RatesTyped
        <3> QED
            BY <2>1, <3>1, MaxInNat
    <2>5. RatesTyped'
        BY <1>0, <2>1, <2>2, <2>3, <2>4, DirtyTyped DEF RatesTyped
    <2>6. TablesKept'
        <3>1. \A m \in Rates!Row : db'[m].rate \in ever'[m]
            BY <1>0, <2>2, <2>3 DEF TablesKept
        <3>2. (\A m \in {"ap", "ph"} : db'[m].acct \in Acct) /\ \A b \in Acct : db'[b].acct = NoAcct
            BY <1>0, <2>2, RateFacts DEF TablesKept
        <3> QED
            BY <1>0, <2>1, <3>1, <3>2 DEF TablesKept
    <2> QED
        BY <2>1, <2>3, <2>5, <2>6, WorldStep
<1>2. ASSUME NEW k \in {"ap", "ph"}, NEW a \in Acct, Rates!Move(k, a) PROVE RatesInv'
    <2>1. /\ db' = [db EXCEPT ![k].acct = a] /\ job' = Rates!Dirty(job)
          /\ UNCHANGED <<ever, cache, toClear, bill, faults, dbUp>>
          /\ changes < MaxChanges /\ changes' = changes + 1
        BY <1>2 DEF Rates!Move
    <2>2. db' \in [Rates!Row -> [acct : Acct \cup {NoAcct}, rate : Rate \cup {0}]]
          /\ \A m \in Rates!Row : db'[m].rate = db[m].rate /\ db'[m].acct = IF m = k THEN a ELSE db[m].acct
        <3>1. k \in Rates!Row /\ db[k] \in [acct : Acct \cup {NoAcct}, rate : Rate \cup {0}]
            BY <1>0, RateFacts DEF RatesTyped
        <3> DEFINE row == [db[k] EXCEPT !.acct = a]
        <3>2. row \in [acct : Acct \cup {NoAcct}, rate : Rate \cup {0}] /\ row.acct = a /\ row.rate = db[k].rate
            BY <3>1
        <3>3. db' = [db EXCEPT ![k] = row]
            BY <2>1
        <3> HIDE DEF row
        <3> QED
            BY <1>0, <3>1, <3>2, <3>3 DEF RatesTyped
    <2>4. changes' \in 0 .. MaxChanges
        <3>1. changes \in 0 .. MaxChanges
            BY <1>0 DEF RatesTyped
        <3> QED
            BY <2>1, <3>1, MaxInNat
    <2>5. RatesTyped'
        BY <1>0, <2>1, <2>2, <2>4, DirtyTyped DEF RatesTyped
    <2>6. TablesKept'
        <3>1. \A m \in Rates!Row : db'[m].rate \in ever'[m]
            BY <1>0, <2>1, <2>2 DEF TablesKept
        <3>2. (\A m \in {"ap", "ph"} : db'[m].acct \in Acct) /\ \A b \in Acct : db'[b].acct = NoAcct
            BY <1>0, <2>2, RateFacts DEF TablesKept
        <3> QED
            BY <1>0, <2>1, <3>1, <3>2 DEF TablesKept
    <2> QED
        BY <2>1, <2>5, <2>6, WorldStep
<1>3. CASE Rates!ClearCache \/ \E k \in Rates!Row : Rates!Expire(k)
    <2>1. /\ UNCHANGED <<db, ever, job, bill, changes, faults, dbUp>>
          /\ cache' \in [Rates!Row -> Rates!Value \cup {Rates!NoEntry}]
          /\ \A k \in Rates!Row : cache'[k] = cache[k] \/ cache'[k] = Rates!NoEntry
        BY <1>0, <1>3 DEF Rates!ClearCache, Rates!Expire, RatesTyped
    <2>2. toClear' \in BOOLEAN
        BY <1>0, <1>3 DEF Rates!ClearCache, Rates!Expire, RatesTyped
    <2>3. RatesTyped' /\ TablesKept'
        BY <1>0, <2>1, <2>2 DEF RatesTyped, TablesKept
    <2> QED
        BY <2>1, <2>3, WorldStep
<1>4. CASE Rates!DbDown \/ Rates!DbBack
    <2>1. UNCHANGED <<db, ever, cache, toClear, job, bill, changes>>
        BY <1>4 DEF Rates!DbDown, Rates!DbBack
    <2>2. faults' \in 0 .. MaxFaults /\ dbUp' \in BOOLEAN /\ (faults' = 0 => faults = 0 /\ dbUp')
        <3>1. faults \in 0 .. MaxFaults /\ (faults = 0 => dbUp)
            BY <1>0 DEF RatesTyped, TablesKept
        <3>2. CASE Rates!DbDown
            <4>1. faults < MaxFaults /\ faults' = faults + 1 /\ dbUp' = FALSE
                BY <3>2 DEF Rates!DbDown
            <4>2. faults' \in 0 .. MaxFaults /\ faults' # 0
                BY <3>1, <4>1, MaxInNat
            <4> QED
                BY <4>1, <4>2
        <3>3. CASE Rates!DbBack
            BY <3>1, <3>3 DEF Rates!DbBack
        <3> QED
            BY <1>4, <3>2, <3>3
    <2>3. RatesTyped' /\ TablesKept'
        BY <1>0, <2>1, <2>2 DEF RatesTyped, TablesKept
    <2> QED
        BY <2>1, <2>2, <2>3, WorldStep
<1>5. CASE UNCHANGED rateVars
    <2>1. UNCHANGED <<db, ever, cache, toClear, job, bill, changes, faults, dbUp>>
        BY <1>5 DEF rateVars
    <2>2. RatesTyped' /\ TablesKept'
        BY <1>0, <2>1 DEF RatesTyped, TablesKept
    <2> QED
        BY <2>1, <2>2, WorldStep
<1> QED
    BY <1>1, <1>2, <1>3, <1>4, <1>5, StartBillStep, HitStep, MissStep, KeepStep, FinishStep DEF Rates!Next

LEMMA RatesInvImplies ==
    ASSUME RatesInv
    PROVE  Rates!TypeOK
<1>1. ASSUME NEW t \in Thread, job[t] # Rates!NoJob
      PROVE  /\ job[t].call \in Calls /\ job[t].clean \in BOOLEAN
             /\ DOMAIN job[t].got \subseteq Rates!Row /\ \A k \in DOMAIN job[t].got : job[t].got[k] \in Rates!Value
             /\ job[t].read \in Rates!Value \cup {Rates!NoRead}
    <2>1. job[t] \in Billing
        BY <1>1 DEF RatesInv, RatesTyped
    <2>2. PICK D \in SUBSET Rates!Row : job[t].got \in [D -> Rates!Value]
        BY <2>1 DEF Billing, Fetched
    <2> QED
        BY <2>1, <2>2 DEF Billing
<1> QED
    BY <1>1 DEF RatesInv, RatesTyped, Rates!TypeOK

\* For any threads, accounts and rates: whatever is cached, changed, moved and fails, a
\* call is billed at a rate of its own chain, and free only if no rate of it is set.
THEOREM BilledAlwaysByItsChain == MoneySpec => []BilledByItsChain
<1> DEFINE Inv == scenario = "rates" => RatesInv
<1>1. MoneyInit => Inv
    BY RatesInit DEF MoneyInit
<1>2. Inv /\ [MoneyNext]_<<scenario, balanceVars, rateVars>> => Inv'
    <2> SUFFICES ASSUME Inv, [MoneyNext]_<<scenario, balanceVars, rateVars>> PROVE Inv'
        OBVIOUS
    <2>1. CASE scenario = "rates" /\ Rates!Next /\ UNCHANGED <<scenario, balanceVars>>
        BY <2>1, RatesNext
    <2>2. CASE UNCHANGED <<scenario, rateVars>>
        BY <2>2, RatesNext
    <2> QED
        BY <2>1, <2>2 DEF MoneyNext
<1>3. Inv => BilledByItsChain
    BY RatesInvImplies DEF BilledByItsChain, RatesInv
<1> QED
    BY <1>1, <1>2, <1>3, PTL DEF MoneySpec
=============================================================================
