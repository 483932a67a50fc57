------------------------------ MODULE Tenants ------------------------------
(***************************************************************************)
(* Accounts (tenants), and the phones and access points that belong to     *)
(* them, under the requests of the management API.  A request looks at the *)
(* database, refuses or not, and then writes; others write in between.     *)
(*                                                                         *)
(* A definition named X_Something is X with a plausible bug, kept to show  *)
(* which property finds it; no specification uses it.                      *)
(***************************************************************************)
EXTENDS Integers, FiniteSetsExt

CONSTANTS
    Account, Phone, AccessPoint, Request,
    None,
    NewSchema,     \* is the database a new one: sip_phone.account_id is NOT NULL and a foreign
                   \* key; in one that was migrated it is neither
    Blanks,        \* do requests send an empty account
    MaxRequests    \* bound: requests

TenantsConstants ==
    NewSchema \in BOOLEAN /\ Blanks \in BOOLEAN /\ MaxRequests \in Nat /\ None \notin Account

VARIABLES
    number,   \* account_number of the accounts there are
    phone,    \* account and number prefix of the phones there are
    ap,       \* account_id of the access points
    req,      \* what each request is about to write
    requests

vars == <<number, phone, ap, req, requests>>

FIRST == 8000
Idle == [op |-> "idle"]
Absent == [acct |-> None, prefix |-> 0]
Accounts == DOMAIN number

Init ==
    /\ number = <<>> /\ phone = [p \in Phone |-> Absent] /\ ap = [a \in AccessPoint |-> None]
    /\ req = [r \in Request |-> Idle] /\ requests = 0

Numbers == {number[a] : a \in Accounts}

\* _next_account_number
NextNumber == IF Numbers = {} THEN FIRST ELSE Max(Numbers) + 1

Phones(a) == {p \in Phone : phone[p].acct = a}

Begin(r, job) ==
    /\ requests < MaxRequests /\ requests' = requests + 1
    /\ req[r] = Idle /\ req' = [req EXCEPT ![r] = job]
    /\ UNCHANGED <<number, phone, ap>>
-----------------------------------------------------------------------------
(* What a request reads, and what it is refused for. *)

CreateAccount(r, a) ==
    /\ a \notin Accounts /\ \A q \in Request : req[q].op = "account" => req[q].acct # a
    /\ Begin(r, [op |-> "account", acct |-> a, number |-> NextNumber])

\* An account with phones is not deleted; access points are not counted.
DeleteAccount(r, a) == a \in Accounts /\ Phones(a) = {} /\ Begin(r, [op |-> "delete", acct |-> a])

\* Only the account that is sent is checked, with the number the phone has or is sent.
X_Valid(p, acct, prefix) == acct \in Accounts \/ (acct = None /\ prefix \in Numbers)

\* _validate_phone: what is not sent, or sent empty, is what the row has.
Valid(p, acct, prefix) ==
    LET a == IF acct = None THEN phone[p].acct ELSE acct
        n == IF prefix = 0 THEN phone[p].prefix ELSE prefix
    IN  a \in Accounts /\ n = number[a]

\* A phone that is created sends everything; a change sends an account, a number, both, or
\* an account that is empty.
SavePhone(r, p) ==
    \E acct \in Account \cup {None}, prefix \in Numbers \cup {0}, blank \in (IF Blanks THEN BOOLEAN ELSE {FALSE}) :
        /\ phone[p] = Absent => (acct # None /\ prefix # 0 /\ ~blank)
        /\ (acct # None \/ prefix # 0 \/ blank) /\ (blank => acct = None)
        /\ Valid(p, acct, prefix)
        /\ Begin(r, [op |-> "phone", phone |-> p, acct |-> acct, prefix |-> prefix, blank |-> blank,
                     new |-> phone[p] = Absent])

\* The form offers the accounts there are; nothing is checked.
SaveAccessPoint(r, x) == \E a \in Accounts : Begin(r, [op |-> "ap", ap |-> x, acct |-> a])
-----------------------------------------------------------------------------
(* What it writes. *)

End(r) == req' = [req EXCEPT ![r] = Idle] /\ UNCHANGED requests

\* A number another request has taken meanwhile is refused by its unique key.
CommitAccount(r) ==
    /\ req[r].op = "account" /\ End(r)
    /\ number' = IF req[r].number \in Numbers THEN number
                 ELSE [a \in Accounts \cup {req[r].acct} |-> IF a = req[r].acct THEN req[r].number ELSE number[a]]
    /\ UNCHANGED <<phone, ap>>

CommitDelete(r) ==
    /\ req[r].op = "delete" /\ End(r)
    /\ number' = IF NewSchema /\ Phones(req[r].acct) # {} THEN number
                 ELSE [a \in Accounts \ {req[r].acct} |-> number[a]]
    /\ UNCHANGED <<phone, ap>>

\* The columns that were sent are written, the rest is left as it is now.
CommitPhone(r) ==
    /\ req[r].op = "phone" /\ End(r)
    /\ LET j == req[r]
           old == phone[j.phone]
           row == [acct |-> IF j.blank THEN None ELSE IF j.acct = None THEN old.acct ELSE j.acct,
                   prefix |-> IF j.prefix = 0 THEN old.prefix ELSE j.prefix]
           refused == (NewSchema /\ row.acct \notin Accounts) \/ (j.new /\ old # Absent)
       IN  phone' = IF refused THEN phone ELSE [phone EXCEPT ![j.phone] = row]
    /\ UNCHANGED <<number, ap>>

CommitAccessPoint(r) ==
    /\ req[r].op = "ap" /\ End(r) /\ ap' = [ap EXCEPT ![req[r].ap] = req[r].acct]
    /\ UNCHANGED <<number, phone>>

Next ==
    \E r \in Request :
        \/ \E a \in Account : CreateAccount(r, a) \/ DeleteAccount(r, a)
        \/ \E p \in Phone : SavePhone(r, p)
        \/ \E x \in AccessPoint : SaveAccessPoint(r, x)
        \/ CommitAccount(r) \/ CommitDelete(r) \/ CommitPhone(r) \/ CommitAccessPoint(r)

Spec == Init /\ [][Next]_vars
-----------------------------------------------------------------------------
\* Account numbers start at 8000, phones and access points name accounts.
TypeOK ==
    /\ Accounts \subseteq Account /\ \A a \in Accounts : number[a] \in FIRST .. FIRST + MaxRequests
    /\ \A p \in Phone : phone[p].acct \in Account \cup {None} /\ phone[p].prefix \in Nat
    /\ ap \in [AccessPoint -> Account \cup {None}]
    /\ \A r \in Request : req[r].op \in {"idle", "account", "delete", "phone", "ap"}

\* No two tenants share a number, the prefix of their phones (accounts.py:4), however
\* creations and deletions overlap.
NumbersAreUnique == \A a, b \in Accounts : number[a] = number[b] => a = b

\* Every phone there is belongs to an account there is, and its number begins with the
\* account's (crud.py:342, migrate.py:707: kept by the application).
PhoneIsOfItsAccount ==
    \A p \in Phone : phone[p] # Absent =>
        phone[p].acct \in Accounts /\ phone[p].prefix = number[phone[p].acct]
-----------------------------------------------------------------------------
(* Said of the code and refuted by this model; the README tells how. *)

\* An account is not deleted while something depends on it (accounts.py:8).
AccessPointHasAccount == \A x \in AccessPoint : ap[x] \in Accounts \cup {None}
=============================================================================
