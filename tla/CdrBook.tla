------------------------------ MODULE CdrBook ------------------------------
(***************************************************************************)
(* The row a call leaves in the cdr table and the money taken for it.      *)
(*                                                                         *)
(* Five writers meet on one row: the dialplan handler inserts it, the CDR  *)
(* writer thread applies the report of the hangup event ("esl") and that   *)
(* of mod_xml_cdr ("xml") in batches, the reaper replays reports that were *)
(* spooled to disk, the reconcile thread closes calls whose hangup event   *)
(* was lost, and the sweepers mark calls as billed (src/src/esl_client.py, *)
(* src/src/cdr_truth.py).  The key of the table is (uuid, start_time), so  *)
(* that it is one row only if all writers agree on the start time; each    *)
(* looks it up in a session of its own.  Only the writer thread keeps a    *)
(* transaction open over several steps; it holds the lock of every row it  *)
(* has written, and what it reads is the snapshot of its first read.       *)
(* prepaid_enabled is on.                                                  *)
(***************************************************************************)
EXTENDS Integers, Sequences, FiniteSets, SequencesExt

CONSTANTS
    Call,
    DialStart, EslStart, XmlStart,  \* start times the writers may bring of their own
    Sweeper,        \* threads that run sweep_unbilled_charges
    Answered,       \* the calls that are answered
    EslKinds,       \* what may become of the hangup event of a call
    EslCost,        \* price by the event's timestamps
    XmlCost,        \* price by the XML's billsec
    QueueSize,      \* maxsize of _CDR_Q
    BatchSize,      \* batch_size of the writer
    SweepLimit,     \* rows a sweep takes
    MaxDials,       \* bound on the dialplan requests of a call
    FaultKinds, MaxFaults

\* The event of a call whose record is complete; of a call whose record was
\* lost, with and without channel variables; no event at all.
Kinds == {"full", "vars", "bare", "lost"}

Second == DialStart \cup EslStart \cup XmlStart

ASSUME CdrConstants ==
    /\ IsFiniteSet(Call) /\ IsFiniteSet(Second) /\ Answered \subseteq Call
    /\ EslKinds \subseteq Kinds
    /\ EslCost \in Nat \ {0} /\ XmlCost \in Nat \ {0}
    /\ QueueSize \in Nat \ {0} /\ BatchSize \in Nat \ {0} /\ SweepLimit \in Nat \ {0}
    /\ MaxDials \in Nat /\ MaxFaults \in Nat
    /\ FaultKinds \subseteq {"db", "crash"}

VARIABLES
    row,        \* committed rows
    older,      \* the rows that were there when a row was inserted (the order of cdr.id)
    ledger,     \* account_ledger: what each call was charged, 0 without an entry
    debit,      \* what was taken from the accounts
    carrier,    \* calls with an entry in carrier_ledger
    dials,      \* dialplan requests of each call
    due,        \* reports still to come for each call, "lost" for one that never will
    queue,      \* _CDR_Q
    wr,         \* the writer thread
    tx,         \* rows its open transaction has written
    snap,       \* snapshot its reads see
    spool,      \* the report spooled for each call
    reap,       \* call the reaper has replayed but not removed from the spool
    sweep,      \* rows each sweeper has selected
    dbUp,
    faults,     \* history: what failed so far
    unpriced    \* history: answered calls a report of which was left without a price

rows  == <<row, older>>
money == <<ledger, debit, carrier>>
calls == <<dials, due>>
write == <<queue, wr, tx, snap>>
vars  == <<row, older, ledger, debit, carrier, dials, due, queue, wr, tx, snap, spool, reap,
           sweep, dbUp, faults, unpriced>>

Key     == Call \X Second
Rows(u) == {u} \X Second

NoCall == "none"
Row    == [st : {"none", "open", "final"}, acct : BOOLEAN, carr : BOOLEAN,
           cost : {0, EslCost, XmlCost}, billed : BOOLEAN]
NoRow  == [st |-> "none", acct |-> FALSE, carr |-> FALSE, cost |-> 0, billed |-> FALSE]
Opened == [NoRow EXCEPT !.st = "open"]

\* What _save_cdr knows of a call when it makes the report.
Told     == [degraded : BOOLEAN, cost : {0, EslCost}, acct : BOOLEAN, carr : BOOLEAN, owed : BOOLEAN]
Report   == [src : {"esl"}, u : Call, start : Second, told : Told] \cup
            [src : {"xml"}, u : Call, start : Second]
NoReport == [src |-> "none"]
Idle     == [pc |-> "idle", batch |-> <<>>, todo |-> <<>>, failed |-> <<>>,
             redo |-> <<>>, single |-> FALSE, seen |-> NoRow, start |-> 0]

TypeOK ==
    /\ row \in [Key -> Row] /\ tx \in [Key -> Row]
    /\ snap \in [Key -> Row] \cup {<<>>}
    /\ older \in [Key -> SUBSET Key]
    /\ ledger \in [Call -> {0, EslCost, XmlCost}] /\ debit \in Nat
    /\ carrier \subseteq Call
    /\ dials \in [Call -> 0..MaxDials]
    /\ due \in [Call -> SUBSET {"hangup", "esl", "xml", "lost"}]
    /\ queue \in Seq(Report) /\ Len(queue) <= QueueSize
    /\ wr \in [pc : {"idle", "exec", "read"}, batch : Seq(Report), todo : Seq(Report),
               failed : Seq(Report), redo : Seq(Report), single : BOOLEAN, seen : Row,
               start : Second \cup {0}]
    /\ spool \in [Call -> Report \cup {NoReport}]
    /\ reap \in Call \cup {NoCall}
    /\ sweep \in [Sweeper -> Seq([u : Call, cost : {EslCost, XmlCost}])]
    /\ dbUp \in BOOLEAN /\ faults \in Seq(FaultKinds) /\ Len(faults) <= MaxFaults
    /\ unpriced \subseteq Answered

Init ==
    /\ row = [k \in Key |-> NoRow] /\ older = [k \in Key |-> {}]
    /\ ledger = [u \in Call |-> 0] /\ debit = 0 /\ carrier = {}
    /\ dials = [u \in Call |-> 0] /\ due = [u \in Call |-> {"hangup"}]
    /\ queue = <<>> /\ wr = Idle
    /\ tx = [k \in Key |-> NoRow] /\ snap = <<>>
    /\ spool = [u \in Call |-> NoReport] /\ reap = NoCall
    /\ sweep = [s \in Sweeper |-> <<>>]
    /\ dbUp = TRUE /\ faults = <<>> /\ unpriced = {}

Fault(kind) == kind \in FaultKinds /\ Len(faults) < MaxFaults /\ faults' = Append(faults, kind)
-----------------------------------------------------------------------------
(* Which row a report is written to. *)

Stored(u) == {k \in Rows(u) : row[k] # NoRow}
Present   == {k \in Key : row[k] # NoRow \/ tx[k] # NoRow}

\* Every writer writes under the start time it has itself.
Start_Own(u, own) == own

\* _existing_start_time: that of the first committed row of the call; what the open
\* transaction has inserted is not seen.  The look-up has a session of its own, so that
\* once the database fails it may fail when the write does not, and tells nothing then.
\* So the start time a writer ends with, one of its own where there is no other.
Start(u, own) ==
    IF Stored(u) = {} THEN own
    ELSE {k[2] : k \in {k \in Stored(u) : older[k] \cap Stored(u) = {}}}
            \cup (IF "db" \in ToSet(faults) THEN own ELSE {})

\* cdr.id is given when a row is inserted, and not when that is committed.
Placed(k) == IF k \in Present THEN older ELSE [older EXCEPT ![k] = Present]

Unlocked(k)    == tx[k] = NoRow
AllUnlocked(u) == \A k \in Rows(u) : Unlocked(k)
-----------------------------------------------------------------------------
(* What a report makes of a row. *)

\* A row without an answer time overwrites the prices as well.
EslWrite_Unprotected(old, told) ==
    [st |-> "final", acct |-> told.acct, carr |-> told.carr, cost |-> told.cost, billed |-> FALSE]

\* _save_cdr: every column is written, billed as 0.  Without an answer time the
\* price is not known and BILLING_COLS keep their values.
EslWrite(old, told) ==
    [st |-> "final", acct |-> told.acct, carr |-> told.carr,
     cost |-> IF told.degraded THEN old.cost ELSE told.cost, billed |-> FALSE]

\* _apply_billing: the price and the account it was charged to; or no price, where no
\* rate is found or the look-up of the rates failed, and the account may be lost then.
Priced(r) == {[r EXCEPT !.cost = XmlCost, !.acct = TRUE]}
                \cup {[r EXCEPT !.acct = known] : known \in BOOLEAN}

Filled(r) == [st |-> "final", acct |-> r.acct, carr |-> TRUE, cost |-> r.cost, billed |-> r.billed]

\* A row whose price the XML report brings counts as billed.
XmlPatch_Billed(seen, u) ==
    IF seen.cost > 0 \/ u \notin Answered THEN {Filled(seen)}
    ELSE {[r EXCEPT !.billed = TRUE] : r \in Priced(Filled(seen))}

\* _patch_existing: what is missing is filled in, a price is kept; all columns are
\* written back as they were read, billed among them.  _patch_insert likewise fills a row
\* of its own.
XmlPatch(seen, u) ==
    IF seen.cost > 0 \/ u \notin Answered THEN {Filled(seen)} ELSE Priced(Filled(seen))

\* History: the report of an answered call looked for its price and found none.
NoPriceFor(u, none) == unpriced' = IF none THEN unpriced \cup {u} ELSE unpriced
EslUnpriced(r)      == ~r.told.degraded /\ r.told.cost = 0
XmlUnpriced(u, seen, new) == u \in Answered /\ seen.cost = 0 /\ new.cost = 0

\* _charge_carrier has a session of its own and reads some committed row of the call.
ChargeCarrier(r) ==
    \E known \in IF Stored(r.u) = {} THEN {FALSE} ELSE {row[k].carr : k \in Stored(r.u)} :
        carrier' = IF r.told.owed /\ known THEN carrier \cup {r.u} ELSE carrier
-----------------------------------------------------------------------------
(* Writers outside the writer thread: each commits at once. *)

CommitRow(k, r) == row' = [row EXCEPT ![k] = r] /\ older' = Placed(k)

\* A dialplan request, of the call or of a leg of its failover; the caller may
\* have hung up meanwhile.  An existing row is left alone.
PreInsert(u) ==
    /\ dials[u] < MaxDials
    /\ dials' = [dials EXCEPT ![u] = @ + 1]
    /\ \/ /\ dbUp
          /\ \E t \in Start(u, DialStart) :
                /\ Unlocked(<<u, t>>)
                /\ IF row[<<u, t>>] = NoRow THEN CommitRow(<<u, t>>, Opened) ELSE UNCHANGED rows
       \/ ~dbUp /\ UNCHANGED rows
    /\ UNCHANGED <<money, due, write, spool, reap, sweep, dbUp, faults, unpriced>>

HangUp(u) ==
    /\ "hangup" \in due[u] /\ dials[u] > 0
    /\ due' = [due EXCEPT ![u] = {"esl", "xml"}]
    /\ UNCHANGED <<rows, money, dials, write, spool, reap, sweep, dbUp, faults, unpriced>>

\* A job that is run on the spot, in a session of its own.
RunNow(r) ==
    \/ /\ r.src = "esl"
       /\ \E t \in Start(r.u, {r.start}) :
             /\ Unlocked(<<r.u, t>>)
             /\ CommitRow(<<r.u, t>>, EslWrite(row[<<r.u, t>>], r.told))
       /\ ChargeCarrier(r) /\ NoPriceFor(r.u, EslUnpriced(r))
    \/ /\ r.src = "xml"
       /\ \E k \in IF Stored(r.u) = {} THEN {<<r.u, r.start>>} ELSE Stored(r.u) :
          \E t \in Start(r.u, {k[2]}) : \E new \in XmlPatch(row[k], r.u) :
             /\ Unlocked(<<r.u, t>>)
             /\ CommitRow(<<r.u, t>>, new)
             /\ NoPriceFor(r.u, XmlUnpriced(r.u, row[k], new))
       /\ UNCHANGED carrier

\* _enqueue_cdr_job: a full queue makes the caller run the job itself, which
\* so overtakes the reports that are queued.
Enqueue(r) ==
    \/ /\ Len(queue) < QueueSize
       /\ queue' = Append(queue, r)
       /\ UNCHANGED <<rows, carrier, spool, unpriced>>
    \/ /\ Len(queue) = QueueSize /\ UNCHANGED queue
       /\ \/ dbUp /\ RunNow(r) /\ UNCHANGED spool
          \/ /\ ~dbUp /\ UNCHANGED <<rows, carrier, unpriced>>
             /\ spool' = IF r.src = "esl" THEN [spool EXCEPT ![r.u] = r] ELSE spool

\* What _save_cdr can tell of a call: all; what the channel variables say, or nothing,
\* where the record of the call is gone.  _compute_billing passes over a look-up that
\* fails and over a rate that is not there: the cost is 0 then, as if it were known, and
\* the account may be missing.
EslTold(kind) ==
    CASE kind = "full" -> {told \in [degraded : {FALSE}, cost : {0, EslCost}, acct : BOOLEAN,
                                     carr : {TRUE}, owed : BOOLEAN] : told.cost > 0 => told.acct}
      [] kind = "vars" -> [degraded : {TRUE}, cost : {0}, acct : BOOLEAN, carr : {TRUE}, owed : {FALSE}]
      [] OTHER -> [degraded : {TRUE}, cost : {0}, acct : {FALSE}, carr : {FALSE}, owed : {FALSE}]

\* The event worker saves the row of the call that hung up.
EslReport(u) ==
    /\ "esl" \in due[u]
    /\ due' = [due EXCEPT ![u] = @ \ {"esl"}]
    /\ \E kind \in EslKinds \ {"lost"} :
          /\ kind = "full" => u \in Answered
          /\ \E told \in EslTold(kind), t \in Start(u, EslStart) :
                Enqueue([src |-> "esl", u |-> u, start |-> t, told |-> told])
    /\ UNCHANGED <<ledger, debit, dials, wr, tx, snap, reap, sweep, dbUp, faults>>

\* The hangup event was lost: the reconcile thread closes the open rows of the call.
Finalize(u) ==
    /\ "esl" \in due[u] /\ "lost" \in EslKinds /\ AllUnlocked(u)
    /\ due' = [due EXCEPT ![u] = (@ \ {"esl"}) \cup {"lost"}]
    /\ row' = [k \in Key |-> IF dbUp /\ k \in Rows(u) /\ row[k].st = "open"
                             THEN [row[k] EXCEPT !.st = "final"] ELSE row[k]]
    /\ UNCHANGED <<older, money, dials, write, spool, reap, sweep, dbUp, faults, unpriced>>

\* POST /fs/cdr.
XmlReport(u) ==
    /\ "xml" \in due[u]
    /\ due' = [due EXCEPT ![u] = @ \ {"xml"}]
    /\ \E t \in XmlStart : Enqueue([src |-> "xml", u |-> u, start |-> t])
    /\ UNCHANGED <<ledger, debit, dials, wr, tx, snap, reap, sweep, dbUp, faults>>
-----------------------------------------------------------------------------
(* The writer thread. *)

TakeBatch ==
    /\ wr.pc = "idle" /\ wr.redo = <<>> /\ queue # <<>>
    /\ \E n \in 1..Len(queue) :
          /\ n <= BatchSize
          /\ wr' = [Idle EXCEPT !.pc = "exec", !.batch = SubSeq(queue, 1, n),
                                !.todo = SubSeq(queue, 1, n)]
          /\ queue' = SubSeq(queue, n + 1, Len(queue))
    /\ UNCHANGED <<rows, money, calls, tx, snap, spool, reap, sweep, dbUp, faults, unpriced>>

\* _retry_cdr_single: one report in a session of its own.
RetryOne ==
    /\ wr.pc = "idle" /\ wr.redo # <<>>
    /\ wr' = [wr EXCEPT !.pc = "exec", !.single = TRUE,
                        !.batch = <<Head(wr.redo)>>, !.todo = <<Head(wr.redo)>>]
    /\ UNCHANGED <<rows, money, calls, queue, tx, snap, spool, reap, sweep, dbUp, faults, unpriced>>

Done == [wr EXCEPT !.pc = "exec", !.todo = Tail(@), !.seen = NoRow, !.start = 0]

\* A row as the open transaction sees it.
Written(k) == IF tx[k] = NoRow THEN row[k] ELSE tx[k]

WriteRow(k, r) == tx' = [tx EXCEPT ![k] = r] /\ older' = Placed(k)

\* The charges of the job use sessions of their own, which see what is committed
\* and not what this transaction has just written.  That of the account then
\* waits for the lock of the row, which only this thread can give up, and fails.
RunEsl ==
    /\ wr.pc = "exec" /\ wr.todo # <<>> /\ Head(wr.todo).src = "esl" /\ dbUp
    /\ LET r == Head(wr.todo) IN
       /\ \E t \in Start(r.u, {r.start}) :
             WriteRow(<<r.u, t>>, EslWrite(Written(<<r.u, t>>), r.told))
       /\ ChargeCarrier(r) /\ NoPriceFor(r.u, EslUnpriced(r))
    /\ wr' = Done
    /\ UNCHANGED <<row, ledger, debit, calls, queue, snap, spool, reap, sweep, dbUp, faults>>

\* _row_loader: some row of the call, as the snapshot or the transaction has it.
ReadXml ==
    /\ wr.pc = "exec" /\ wr.todo # <<>> /\ Head(wr.todo).src = "xml" /\ dbUp
    /\ snap' = IF snap = <<>> THEN row ELSE snap
    /\ LET r == Head(wr.todo)
           seen(k) == IF tx[k] = NoRow THEN snap'[k] ELSE tx[k]
           found == {k \in Rows(r.u) : seen(k) # NoRow}
       IN \E k \in IF found = {} THEN {<<r.u, r.start>>} ELSE found :
             wr' = [wr EXCEPT !.pc = "read", !.seen = seen(k), !.start = k[2]]
    /\ UNCHANGED <<rows, money, calls, queue, tx, spool, reap, sweep, dbUp, faults, unpriced>>

WriteXml ==
    /\ wr.pc = "read" /\ dbUp
    /\ LET u == Head(wr.todo).u IN
       \E t \in Start(u, {wr.start}) : \E new \in XmlPatch(wr.seen, u) :
          WriteRow(<<u, t>>, new) /\ NoPriceFor(u, XmlUnpriced(u, wr.seen, new))
    /\ wr' = Done
    /\ UNCHANGED <<row, money, calls, queue, snap, spool, reap, sweep, dbUp, faults>>

RunFails ==
    /\ wr.pc \in {"exec", "read"} /\ wr.todo # <<>> /\ ~dbUp
    /\ wr' = [Done EXCEPT !.failed = Append(@, Head(wr.todo))]
    /\ UNCHANGED <<rows, money, calls, queue, tx, snap, spool, reap, sweep, dbUp, faults, unpriced>>

\* The rest of redo after a report was retried for the last time.
EndTx(redo) ==
    /\ wr' = [Idle EXCEPT !.redo = redo]
    /\ tx' = [k \in Key |-> NoRow] /\ snap' = <<>>

\* What the transaction has inserted is gone.
RollBack ==
    older' = [k \in Key |-> IF row[k] = NoRow THEN {} ELSE {j \in older[k] : row[j] # NoRow}]

\* The failed reports of a batch that commits are forgotten.
Commit_ForgetsFailed ==
    /\ wr.pc = "exec" /\ wr.todo = <<>> /\ dbUp /\ (wr.single => wr.failed = <<>>)
    /\ row' = [k \in Key |-> Written(k)]
    /\ EndTx(IF wr.single THEN Tail(wr.redo) ELSE <<>>)
    /\ UNCHANGED <<older, money, calls, queue, spool, reap, sweep, dbUp, faults, unpriced>>

Commit ==
    /\ wr.pc = "exec" /\ wr.todo = <<>> /\ dbUp /\ (wr.single => wr.failed = <<>>)
    /\ row' = [k \in Key |-> Written(k)]
    /\ EndTx(IF wr.single THEN Tail(wr.redo) ELSE wr.failed)
    /\ UNCHANGED <<older, money, calls, queue, spool, reap, sweep, dbUp, faults, unpriced>>

\* A batch that cannot be committed is retried one by one; a report that was
\* retried in vain is tried again, or after three times spooled if it is of
\* the event ("xml" has no fallback).
CommitFails ==
    /\ wr.pc = "exec" /\ wr.todo = <<>>
    /\ ~dbUp \/ (wr.single /\ wr.failed # <<>>)
    /\ RollBack
    /\ \/ EndTx(IF wr.single THEN wr.redo ELSE wr.batch) /\ UNCHANGED spool
       \/ /\ wr.single /\ EndTx(Tail(wr.redo))
          /\ LET r == Head(wr.redo) IN
             spool' = IF r.src = "esl" THEN [spool EXCEPT ![r.u] = r] ELSE spool
    /\ UNCHANGED <<row, money, calls, queue, reap, sweep, dbUp, faults, unpriced>>

Writer == TakeBatch \/ RetryOne \/ RunEsl \/ ReadXml \/ WriteXml \/ RunFails
            \/ Commit \/ CommitFails
-----------------------------------------------------------------------------
(* The reaper. *)

Replay(u) ==
    /\ reap = NoCall /\ spool[u] # NoReport /\ dbUp
    /\ \E t \in Start(u, {spool[u].start}) :
          /\ Unlocked(<<u, t>>)
          /\ CommitRow(<<u, t>>, EslWrite(row[<<u, t>>], spool[u].told))
    /\ NoPriceFor(u, EslUnpriced(spool[u]))
    /\ reap' = u
    /\ UNCHANGED <<money, calls, write, spool, sweep, dbUp, faults>>

RemoveSpooled ==
    /\ reap # NoCall
    /\ spool' = [spool EXCEPT ![reap] = NoReport]
    /\ reap' = NoCall
    /\ UNCHANGED <<rows, money, calls, write, sweep, dbUp, faults, unpriced>>

Reaper == RemoveSpooled \/ \E u \in Call : Replay(u)
-----------------------------------------------------------------------------
(* The sweepers. *)

\* The rows that have a price and an account and are not billed; a sweep takes the
\* newest of them.
Unbilled == {k \in Key : ~row[k].billed /\ row[k].cost > 0 /\ row[k].acct}
Picked   == {k \in Unbilled : Cardinality({j \in Unbilled : k \in older[j]}) < SweepLimit}

Select(s) ==
    /\ sweep[s] = <<>> /\ dbUp
    /\ \E found \in SetToSeqs(Picked) :
          /\ \A i, j \in DOMAIN found : i < j => found[i] \notin older[found[j]]
          /\ sweep' = [sweep EXCEPT ![s] =
                 [i \in DOMAIN found |-> [u |-> found[i][1], cost |-> row[found[i]].cost]]]
    /\ UNCHANGED <<rows, money, calls, write, spool, reap, dbUp, faults, unpriced>>

\* The billed flag of all rows of the call.
Billed(u) == [k \in Key |-> IF k \in Stored(u) THEN [row[k] EXCEPT !.billed = TRUE] ELSE row[k]]

\* The billed flag alone protects from a second charge.
Charge_FlagOnly(s) ==
    /\ sweep[s] # <<>>
    /\ sweep' = [sweep EXCEPT ![s] = Tail(@)]
    /\ LET u == Head(sweep[s]).u IN
       \/ /\ ~dbUp \/ \E k \in Stored(u) : row[k].billed \/ ~row[k].acct
          /\ UNCHANGED <<row, ledger, debit>>
       \/ /\ dbUp /\ \E k \in Stored(u) : ~row[k].billed /\ row[k].acct
          /\ AllUnlocked(u)
          /\ ledger' = [ledger EXCEPT ![u] = Head(sweep[s]).cost]
          /\ debit' = debit + Head(sweep[s]).cost
          /\ row' = Billed(u)
    /\ UNCHANGED <<older, carrier, calls, write, spool, reap, dbUp, faults, unpriced>>

\* _charge_account reads some row of the call; the unique key of the ledger refuses a
\* second entry and the transaction, flag included, is rolled back.
Charge(s) ==
    /\ sweep[s] # <<>>
    /\ sweep' = [sweep EXCEPT ![s] = Tail(@)]
    /\ LET u == Head(sweep[s]).u IN
       \/ /\ ~dbUp \/ ledger[u] # 0 \/ \E k \in Stored(u) : row[k].billed \/ ~row[k].acct
          /\ UNCHANGED <<row, ledger, debit>>
       \/ /\ dbUp /\ ledger[u] = 0 /\ \E k \in Stored(u) : ~row[k].billed /\ row[k].acct
          /\ AllUnlocked(u)
          /\ ledger' = [ledger EXCEPT ![u] = Head(sweep[s]).cost]
          /\ debit' = debit + Head(sweep[s]).cost
          /\ row' = Billed(u)
    /\ UNCHANGED <<older, carrier, calls, write, spool, reap, dbUp, faults, unpriced>>
-----------------------------------------------------------------------------
(* The environment. *)

DbDown ==
    /\ dbUp /\ Fault("db") /\ dbUp' = FALSE
    /\ UNCHANGED <<rows, money, calls, write, spool, reap, sweep, unpriced>>

DbBack ==
    /\ ~dbUp /\ dbUp' = TRUE
    /\ UNCHANGED <<rows, money, calls, write, spool, reap, sweep, faults, unpriced>>

\* The gateway restarts: the open transaction, the queue and all rounds are
\* gone, the files are not.
Crash ==
    /\ Fault("crash")
    /\ queue' = <<>> /\ EndTx(<<>>) /\ RollBack
    /\ reap' = NoCall /\ sweep' = [s \in Sweeper |-> <<>>]
    /\ UNCHANGED <<row, money, calls, spool, dbUp, unpriced>>

Next ==
    \/ \E u \in Call : PreInsert(u) \/ HangUp(u) \/ EslReport(u) \/ Finalize(u) \/ XmlReport(u)
    \/ Writer \/ Reaper
    \/ \E s \in Sweeper : Select(s) \/ Charge(s)
    \/ DbDown \/ DbBack \/ Crash

Spec == Init /\ [][Next]_vars

\* Threads that loop for ever, and a database that is brought back.
Fairness == /\ WF_vars(Writer) /\ WF_vars(Reaper) /\ WF_vars(DbBack)
            /\ \A s \in Sweeper : WF_vars(Select(s)) /\ WF_vars(Charge(s))

FairSpec == Spec /\ Fairness
-----------------------------------------------------------------------------
(* Properties. *)

\* However often reports are retried, spooled, replayed and the billed flag is
\* reset by them: an account pays once for a call.
AccountPaysOnce == INSTANCE ChargeOnce WITH paid <- ledger
PaysOnce == AccountPaysOnce!ChargeSpec

\* The billed flag of a row is never ahead of the ledger: a write of the XML
\* report that puts back what it read cannot mark an unpaid call as paid.
BilledIsPaid == \A k \in Key : row[k].billed => ledger[k[1]] # 0

\* "One uuid, one row" (esl_client.py:1043), though the key is (uuid, start_time), each
\* writer has a start time of its own, and none sees what the open transaction has
\* inserted: as long as the database has not failed, neither the dialplan requests of a
\* failover, the two reports, their retries after a restart and the reaper leave a call
\* two rows, nor does the open transaction hold a second one.
OneRowPerCall ==
    "db" \notin ToSet(faults) => \A k, j \in Present : k[1] = j[1] => k = j

\* No report that does not know the price takes away the price another report has brought
\* (BILLING_COLS), and no late dialplan request of a failover leg reopens the row of
\* a call that is over (ignore_existing), in whatever order they come.  Only a report that
\* looked for the price and found none, which the code cannot tell from a call that costs
\* nothing, may do so.
RowIsKept ==
    [][\A k \in Key :
          /\ row[k].cost > 0 => row'[k].cost > 0 \/ k[1] \in unpriced'
          /\ row[k].st = "final" => row'[k].st = "final"]_vars

\* The hangup report of a call was made.
Reported(u) == due[u] \subseteq {"xml"}

Restarted == "crash" \in ToSet(faults)

\* T-208: as long as the gateway is not restarted, the hangup report of a call gets
\* into a row once the database is back, whatever failed, was spooled and retried
\* before (the XML report of the call need not have come).
ReportArrives ==
    \A u \in Call : Reported(u) /\ ~Restarted ~> (\E k \in Rows(u) : row[k].st = "final") \/ Restarted
-----------------------------------------------------------------------------
(* Said of the code and refuted by this model; the README tells how. *)

\* One uuid, one row, whatever fails (esl_client.py:1043, models.py:257).
AlwaysOneRow == \A k, j \in Key : k[1] = j[1] /\ row[k] # NoRow /\ row[j] # NoRow => k = j

\* The price the XML report has brought is never set to 0 again (esl_client.py:814-816).
PriceIsKept == [][\A k \in Key : row[k].cost > 0 => row'[k].cost > 0]_vars

\* A priced row is charged in the end: the sweep looks at what the rows say and
\* not at the events.
PricedIsPaid == \A k \in Key : (row[k].cost > 0) ~> (ledger[k[1]] # 0)

\* A degraded row is charged by the sweep once its price is known, so it must
\* not lose the account the sweep looks for.
PricedRowHasAccount == \A k \in Key : row[k].cost > 0 => row[k].acct

\* The carrier of a call is charged once a report of it has come whose price is known.
OwesCarrier(u) == \E i \in DOMAIN wr.todo : LET r == wr.todo[i] IN r.src = "esl" /\ r.u = u /\ r.told.owed
CarrierIsPaid  == \A u \in Call : OwesCarrier(u) ~> u \in carrier
=============================================================================
