---------------------------- MODULE CdrBookProofs ----------------------------
(***************************************************************************)
(* Proofs about CdrBook, for any calls, start times, sweepers, prices,     *)
(* queue and batch sizes and faults: a billed row has been paid, a price   *)
(* is not taken away by a report that does not know one, a final state is  *)
(* never lost, a call has one row as long as the database has not failed,  *)
(* and the account of a call pays for it once.                             *)
(***************************************************************************)
EXTENDS CdrBook, SequenceTheorems, FiniteSetTheorems, TLAPS

\* A report is that of a call that was dialled, and with an answer time that of an
\* answered one.
Sound == {r \in Report : /\ dials[r.u] > 0
                         /\ r.src = "esl" => (~r.told.degraded => r.u \in Answered)}

WriterState ==
    [pc : {"idle", "exec", "read"}, batch : Seq(Sound), todo : Seq(Sound),
     failed : Seq(Sound), redo : Seq(Sound), single : BOOLEAN, seen : Row,
     start : Second \cup {0}]

\* A spooled report is that of its call, made of its hangup event.
Spools == {f \in [Call -> Sound \cup {NoReport}] :
              \A u \in Call : f[u] # NoReport => f[u].u = u /\ f[u].src = "esl"}

\* Every place a report may be waiting in holds sound reports.
BookTyped ==
    /\ row \in [Key -> Row] /\ tx \in [Key -> Row]
    /\ snap \in [Key -> Row] \cup {<<>>}
    /\ older \in [Key -> SUBSET Key]
    /\ ledger \in [Call -> {0, EslCost, XmlCost}] /\ debit \in Nat
    /\ carrier \subseteq Call
    /\ dials \in [Call -> 0..MaxDials]
    /\ due \in [Call -> SUBSET {"hangup", "esl", "xml", "lost"}]
    /\ \A u \in Call : due[u] # {"hangup"} => dials[u] > 0
    /\ queue \in Seq(Sound) /\ Len(queue) <= QueueSize
    /\ wr \in WriterState
    /\ spool \in Spools
    /\ reap \in Call \cup {NoCall}
    /\ sweep \in [Sweeper -> Seq([u : Call, cost : {EslCost, XmlCost}])]
    /\ dbUp \in BOOLEAN /\ faults \in Seq(FaultKinds) /\ Len(faults) <= MaxFaults
    /\ unpriced \subseteq Answered

\* What a row of a call says is backed: the flag by the ledger, a price by an answer.
Backed(r, u) == (r.billed => ledger[u] # 0) /\ (r.cost > 0 => u \in Answered)

\* So do the committed rows, those the open transaction has written, its snapshot and
\* what the job at work has read, however old it is; and a row that waits for its
\* commit is final and keeps the price of the row it replaces.
RowsBacked ==
    /\ \A k \in Key : Backed(row[k], k[1]) /\ Backed(tx[k], k[1])
    /\ snap # <<>> => \A k \in Key : Backed(snap[k], k[1])
    /\ wr.pc = "read" => Backed(wr.seen, Head(wr.todo).u)
    /\ \A k \in Key : tx[k] # NoRow =>
          tx[k].st = "final" /\ (row[k].cost > 0 => tx[k].cost > 0 \/ k[1] \in unpriced)

WriterInv == /\ wr.pc = "read" => wr.todo # <<>> /\ wr.start \in Second
             /\ wr.single => wr.redo # <<>>

BookInv == BookTyped /\ RowsBacked /\ WriterInv
-----------------------------------------------------------------------------
(* Keys, rows and reports. *)

LEMMA KeyFacts ==
    /\ \A k \in Key : k[1] \in Call /\ k[2] \in Second /\ k = <<k[1], k[2]>>
    /\ \A u \in Call, t \in Second : <<u, t>> \in Key /\ <<u, t>>[1] = u
    /\ \A u \in Call : Stored(u) \subseteq Key /\ \A k \in Stored(u) : k[1] = u /\ row[k] # NoRow
  BY DEF Key, Rows, Stored

\* A start time that is looked up is one that some writer has brought.
LEMMA StartIsKnown ==
    ASSUME NEW u \in Call, NEW own \in SUBSET Second, NEW t \in Start(u, own)
    PROVE  t \in Second
<1>1. \A k \in Stored(u) : k[2] \in Second
  BY KeyFacts
<1> QED
  BY <1>1 DEF Start

LEMMA ReportFacts ==
    \A r \in Report : /\ r.u \in Call /\ r.start \in Second /\ r.src \in {"esl", "xml"}
                      /\ r.src = "esl" => r.told \in Told
  BY DEF Report

LEMMA ToldFacts ==
    \A told \in Told : /\ told.degraded \in BOOLEAN /\ told.cost \in {0, EslCost}
                       /\ told.acct \in BOOLEAN /\ told.carr \in BOOLEAN
  BY DEF Told

LEMMA RowFacts ==
    /\ NoRow \in Row /\ Opened \in Row /\ Opened # NoRow
    /\ \A u : Backed(NoRow, u) /\ Backed(Opened, u)
    /\ Sound \subseteq Report /\ NoReport \notin Report
<1>1. NoRow \in Row /\ Opened \in Row /\ Opened # NoRow
  BY CdrConstants DEF Row, NoRow, Opened
<1>2. \A u : Backed(NoRow, u) /\ Backed(Opened, u)
  BY DEF NoRow, Opened, Backed
<1>3. NoReport.src = "none" /\ \A r \in Report : r.src # "none"
  BY ReportFacts DEF NoReport
<1> QED
  BY <1>1, <1>2, <1>3 DEF Sound

LEMMA ClosedRow ==
    ASSUME NEW r \in Row, r.st = "final"
    PROVE  r # NoRow
  BY DEF NoRow

\* Once dialled is dialled for good: what was sound stays so.
LEMMA SoundStays ==
    ASSUME BookTyped, dials' \in [Call -> 0..MaxDials], \A u \in Call : dials'[u] >= dials[u]
    PROVE  /\ Sound \subseteq Sound' /\ \A seq \in Seq(Sound) : seq \in Seq(Sound')
           /\ wr \in WriterState' /\ queue \in Seq(Sound') /\ spool \in Spools'
<1>1. Sound \subseteq Sound'
  <2> SUFFICES ASSUME NEW r \in Sound PROVE r \in Sound'
    OBVIOUS
  <2>1. r \in Report /\ r.u \in Call /\ dials[r.u] > 0
    BY ReportFacts DEF Sound
  <2>2. dials'[r.u] > 0
    BY <2>1, CdrConstants DEF BookTyped
  <2> QED
    BY <2>1, <2>2 DEF Sound
<1>2. \A seq \in Seq(Sound) : seq \in Seq(Sound')
  BY <1>1, SeqMonotonic
<1>3. wr \in WriterState'
  <2>1. wr \in WriterState
    BY DEF BookTyped
  <2>2. wr.batch \in Seq(Sound') /\ wr.todo \in Seq(Sound') /\ wr.failed \in Seq(Sound')
        /\ wr.redo \in Seq(Sound')
    BY <1>2, <2>1 DEF WriterState
  <2> QED
    BY <2>1, <2>2 DEF WriterState
<1>4. spool \in Spools'
  BY <1>1 DEF BookTyped, Spools
<1> QED
  BY <1>1, <1>2, <1>3, <1>4 DEF BookTyped

LEMMA SoundSame ==
    ASSUME UNCHANGED dials
    PROVE  Sound' = Sound /\ WriterState' = WriterState /\ Spools' = Spools
  BY DEF Sound, WriterState, Spools
-----------------------------------------------------------------------------
(* What a report makes of a row. *)

\* The event's report closes the row and clears its flag; a price the row had is gone only
\* if the report had looked for one.
LEMMA EslWriteKeeps ==
    ASSUME NEW old \in Row, NEW r \in Sound, r.src = "esl", old.cost > 0 => r.u \in Answered
    PROVE  LET new == EslWrite(old, r.told) IN
           /\ new \in Row /\ new # NoRow /\ new.st = "final"
           /\ old.cost > 0 => new.cost > 0 \/ EslUnpriced(r)
           /\ Backed(new, r.u)
           /\ EslUnpriced(r) => r.u \in Answered
<1>1. r.told \in Told /\ (~r.told.degraded => r.u \in Answered)
  BY ReportFacts DEF Sound
<1> DEFINE told == r.told
           new == EslWrite(old, told)
<1>2. told.acct \in BOOLEAN /\ told.carr \in BOOLEAN /\ told.cost \in {0, EslCost}
  BY <1>1, ToldFacts
<1>3. old.cost \in {0, EslCost, XmlCost}
  BY DEF Row
<1> DEFINE cost == IF told.degraded THEN old.cost ELSE told.cost
<1>4. cost \in {0, EslCost, XmlCost}
  BY <1>2, <1>3
<1>5. new = [st |-> "final", acct |-> told.acct, carr |-> told.carr, cost |-> cost, billed |-> FALSE]
  BY DEF EslWrite
<1>6. EslUnpriced(r) <=> ~told.degraded /\ told.cost = 0
  BY DEF EslUnpriced
<1> HIDE DEF told, new, cost
<1>7. new \in Row /\ new.st = "final" /\ new.cost = cost /\ new.billed = FALSE
  BY <1>2, <1>4, <1>5 DEF Row
<1>8. new # NoRow
  BY <1>7, ClosedRow
<1>9. old.cost > 0 => cost > 0 \/ EslUnpriced(r)
  BY <1>2, <1>6, CdrConstants DEF cost
<1>10. cost > 0 => r.u \in Answered
  BY <1>1 DEF cost, told
<1>11. Backed(new, r.u)
  BY <1>7, <1>10 DEF Backed
<1>12. EslUnpriced(r) => r.u \in Answered
  BY <1>1, <1>6 DEF told
<1> QED
  BY <1>7, <1>8, <1>9, <1>11, <1>12 DEF new, told

\* The XML report closes the row and keeps its price, though it writes over a row it has
\* read earlier: an answered call leaves it with a price, or it found none.
LEMMA XmlPatchKeeps ==
    ASSUME NEW seen \in Row, NEW u \in Call, Backed(seen, u), NEW new \in XmlPatch(seen, u)
    PROVE  /\ new \in Row /\ new # NoRow /\ new.st = "final"
           /\ u \in Answered => new.cost > 0 \/ XmlUnpriced(u, seen, new)
           /\ Backed(new, u)
           /\ XmlUnpriced(u, seen, new) => u \in Answered
<1>1. seen.cost \in {0, EslCost, XmlCost} /\ seen.st \in {"none", "open", "final"}
      /\ seen.acct \in BOOLEAN /\ seen.carr \in BOOLEAN /\ seen.billed \in BOOLEAN
  BY DEF Row
<1> DEFINE kept == [st |-> "final", acct |-> seen.acct, carr |-> TRUE, cost |-> seen.cost,
                    billed |-> seen.billed]
<1>2. Filled(seen) = kept
  BY DEF Filled
<1>3. PICK acct \in BOOLEAN, cost \in {seen.cost, XmlCost} :
          /\ new = [st |-> "final", acct |-> acct, carr |-> TRUE, cost |-> cost, billed |-> seen.billed]
          /\ seen.cost > 0 \/ u \notin Answered => cost = seen.cost
  <2>1. CASE seen.cost > 0 \/ u \notin Answered
    BY <1>1, <1>2, <2>1 DEF XmlPatch
  <2>2. CASE ~(seen.cost > 0 \/ u \notin Answered)
    <3>1. new \in Priced(kept)
      BY <1>2, <2>2 DEF XmlPatch
    <3>2. CASE new = [kept EXCEPT !.cost = XmlCost, !.acct = TRUE]
      BY <2>2, <3>2
    <3>3. CASE \E known \in BOOLEAN : new = [kept EXCEPT !.acct = known]
      BY <2>2, <3>3
    <3> HIDE DEF kept
    <3> QED
      BY <3>1, <3>2, <3>3 DEF Priced
  <2> QED
    BY <2>1, <2>2
<1>4. cost \in {0, EslCost, XmlCost}
  BY <1>1
<1>5. new \in Row /\ new.st = "final" /\ new.cost = cost /\ new.billed = seen.billed
  BY <1>1, <1>3, <1>4 DEF Row
<1>6. new # NoRow
  BY <1>5, ClosedRow
<1>7. u \in Answered => cost > 0 \/ (seen.cost = 0 /\ cost = 0)
  BY <1>1, <1>3, CdrConstants
<1>8. cost > 0 => u \in Answered
  BY <1>3 DEF Backed
<1>9. Backed(new, u)
  BY <1>5, <1>8 DEF Backed
<1> QED
  BY <1>5, <1>6, <1>7, <1>9 DEF XmlUnpriced
-----------------------------------------------------------------------------
(* Every step keeps the invariant and the rows. *)

\* A price stays unless a report looked for it in vain, and a final state stays.
RowsKept ==
    \A k \in Key : /\ row[k].cost > 0 => row'[k].cost > 0 \/ k[1] \in unpriced'
                   /\ row[k].st = "final" => row'[k].st = "final"

\* Steps that leave all rows and what was read of them alone.
LEMMA NothingWritten ==
    ASSUME RowsBacked, UNCHANGED <<row, ledger, tx, snap, unpriced>>,
           wr'.pc # "read" \/ (wr'.pc = wr.pc /\ wr'.seen = wr.seen /\ wr'.todo = wr.todo)
    PROVE  RowsBacked' /\ RowsKept
  BY DEF RowsBacked, Backed, RowsKept

\* Steps that commit rows which the writer thread has not locked.
LEMMA RowsCommitted ==
    ASSUME BookInv, UNCHANGED <<tx, snap, wr>>, unpriced \subseteq unpriced',
           \A v \in Call : ledger[v] # 0 => ledger'[v] # 0,
           \A k \in Key : \/ row'[k] = row[k]
                          \/ /\ tx[k] = NoRow
                             /\ row'[k].billed => ledger'[k[1]] # 0
                             /\ row'[k].cost > 0 => k[1] \in Answered
    PROVE  RowsBacked'
<1> USE DEF BookInv, RowsBacked
<1>1. \A k \in Key : k[1] \in Call
  BY KeyFacts
<1>2. (\A k \in Key : Backed(row[k], k[1]) /\ Backed(tx[k], k[1]))'
  BY <1>1 DEF Backed
<1>3. (snap # <<>> => \A k \in Key : Backed(snap[k], k[1]))'
  BY <1>1 DEF Backed
<1>4. (wr.pc = "read" => Backed(wr.seen, Head(wr.todo).u))'
  <2>1. wr.pc = "read" => Head(wr.todo).u \in Call
    BY HeadTailProperties, RowFacts, ReportFacts DEF BookTyped, WriterInv, WriterState
  <2> QED
    BY <2>1 DEF Backed
<1>5. (\A k \in Key : tx[k] # NoRow =>
          tx[k].st = "final" /\ (row[k].cost > 0 => tx[k].cost > 0 \/ k[1] \in unpriced))'
  OBVIOUS
<1> QED
  BY <1>2, <1>3, <1>4, <1>5

LEMMA PlacedTyped ==
    ASSUME BookTyped, NEW k \in Key
    PROVE  Placed(k) \in [Key -> SUBSET Key]
  BY DEF Placed, Present, BookTyped

\* Steps that commit one such row.
LEMMA KeyCommitted ==
    ASSUME BookInv, NEW k \in Key, NEW r \in Row, Unlocked(k), CommitRow(k, r),
           UNCHANGED <<tx, snap, wr, ledger>>, unpriced \subseteq unpriced',
           Backed(r, k[1]), row[k].cost > 0 => r.cost > 0 \/ k[1] \in unpriced',
           row[k].st = "final" => r.st = "final"
    PROVE  /\ row' \in [Key -> Row] /\ older' \in [Key -> SUBSET Key]
           /\ RowsBacked' /\ RowsKept
<1>1. row' = [row EXCEPT ![k] = r] /\ older' = Placed(k) /\ row \in [Key -> Row]
  BY DEF CommitRow, BookInv, BookTyped
<1>2. row' \in [Key -> Row] /\ \A j \in Key : row'[j] = IF j = k THEN r ELSE row[j]
  BY <1>1
<1>3. older' \in [Key -> SUBSET Key]
  BY <1>1, PlacedTyped DEF BookInv
<1>4. RowsBacked'
  BY <1>2, RowsCommitted DEF Backed, Unlocked
<1>5. RowsKept
  BY <1>2 DEF RowsKept
<1> QED
  BY <1>2, <1>3, <1>4, <1>5

LEMMA PreInsertStep ==
    ASSUME BookInv, NEW u \in Call, PreInsert(u) PROVE BookInv' /\ RowsKept
<1> USE DEF BookInv
<1>1. /\ dials' \in [Call -> 0..MaxDials] /\ \A v \in Call : dials'[v] >= dials[v]
      /\ UNCHANGED <<money, due, write, spool, reap, sweep, dbUp, faults, unpriced>>
  <2>1. dials \in [Call -> 0..MaxDials] /\ dials[u] < MaxDials /\ dials' = [dials EXCEPT ![u] = @ + 1]
    BY DEF PreInsert, BookTyped
  <2>2. dials' \in [Call -> 0..MaxDials] /\ \A v \in Call : dials'[v] >= dials[v]
    BY <2>1, CdrConstants
  <2> QED
    BY <2>2 DEF PreInsert
<1>2. /\ row' \in [Key -> Row] /\ older' \in [Key -> SUBSET Key]
      /\ RowsBacked' /\ RowsKept
  <2>1. CASE UNCHANGED rows
    BY <1>1, <2>1, NothingWritten DEF rows, money, write, BookTyped
  <2>2. CASE ~UNCHANGED rows
    <3>1. PICK t \in Start(u, DialStart) :
             Unlocked(<<u, t>>) /\ row[<<u, t>>] = NoRow /\ CommitRow(<<u, t>>, Opened)
      BY <2>2 DEF PreInsert
    <3>2. <<u, t>> \in Key
      BY KeyFacts, StartIsKnown DEF Second
    <3>3. ~(NoRow.cost > 0) /\ NoRow.st # "final"
      BY DEF NoRow
    <3> QED
      BY <1>1, <3>1, <3>2, <3>3, RowFacts, KeyCommitted DEF write, money
  <2> QED
    BY <2>1, <2>2
<1>3. wr' \in WriterState' /\ queue' \in Seq(Sound') /\ spool' \in Spools'
  <2>1. wr' = wr /\ queue' = queue /\ spool' = spool
    BY <1>1 DEF write
  <2> QED
    BY <1>1, <2>1, SoundStays
<1>4. (\A v \in Call : due[v] # {"hangup"} => dials[v] > 0)'
  BY <1>1, CdrConstants DEF BookTyped
<1>5. BookTyped'
  BY <1>1, <1>2, <1>3, <1>4 DEF BookTyped, money, write
<1>6. WriterInv'
  BY <1>1 DEF WriterInv, write
<1> QED
  BY <1>2, <1>5, <1>6

LEMMA FinalizeStep ==
    ASSUME BookInv, NEW u \in Call, Finalize(u) PROVE BookInv' /\ RowsKept
<1> USE DEF BookInv
<1>1. \A k \in Key : /\ [row[k] EXCEPT !.st = "final"] \in Row
                     /\ [row[k] EXCEPT !.st = "final"].st = "final"
                     /\ [row[k] EXCEPT !.st = "final"].cost = row[k].cost
                     /\ [row[k] EXCEPT !.st = "final"].billed = row[k].billed
  <2> SUFFICES ASSUME NEW r \in Row
               PROVE  /\ [r EXCEPT !.st = "final"] \in Row /\ [r EXCEPT !.st = "final"].st = "final"
                      /\ [r EXCEPT !.st = "final"].cost = r.cost
                      /\ [r EXCEPT !.st = "final"].billed = r.billed
    BY DEF BookTyped
  <2>1. [r EXCEPT !.st = "final"] \in Row /\ [r EXCEPT !.st = "final"].st = "final"
    BY DEF Row
  <2>2. [r EXCEPT !.st = "final"].cost = r.cost /\ [r EXCEPT !.st = "final"].billed = r.billed
    BY DEF Row
  <2> QED
    BY <2>1, <2>2
<1>2. \A k \in Key : row'[k] = row[k] \/ (k \in Rows(u) /\ row'[k] = [row[k] EXCEPT !.st = "final"])
  BY DEF Finalize
<1>3. row' \in [Key -> Row]
  BY <1>1 DEF Finalize, BookTyped
<1>4. \A k \in Key : row'[k].cost = row[k].cost /\ row'[k].billed = row[k].billed
                     /\ (row[k].st = "final" => row'[k].st = "final")
  BY <1>1, <1>2
<1>5. UNCHANGED <<older, money, dials, write, spool, reap, sweep, dbUp, faults, unpriced>>
  BY DEF Finalize
<1>6. RowsBacked'
  <2>1. \A k \in Key : row'[k] = row[k] \/ tx[k] = NoRow
    BY <1>2 DEF Finalize, AllUnlocked, Unlocked
  <2> QED
    BY <1>4, <1>5, <2>1, RowsCommitted DEF RowsBacked, Backed, money, write
<1>7. RowsKept
  BY <1>4 DEF RowsKept
<1>8. BookTyped' /\ WriterInv'
  <2>1. due' \in [Call -> SUBSET {"hangup", "esl", "xml", "lost"}]
    BY DEF Finalize, BookTyped
  <2>2. (\A v \in Call : due[v] # {"hangup"} => dials[v] > 0)'
    BY <1>5 DEF Finalize, BookTyped
  <2>3. WriterState' = WriterState /\ Spools' = Spools /\ Sound' = Sound
    BY <1>5, SoundSame
  <2> QED
    BY <1>3, <1>5, <2>1, <2>2, <2>3 DEF BookTyped, WriterInv, money, write
<1> QED
  BY <1>6, <1>7, <1>8

\* A look for a price in vain is one for that of an answered call.
LEMMA UnpricedGrows ==
    ASSUME unpriced \subseteq Answered, NEW u, NEW none \in BOOLEAN, none => u \in Answered, NoPriceFor(u, none)
    PROVE  unpriced \subseteq unpriced' /\ unpriced' \subseteq Answered /\ (none => u \in unpriced')
  BY DEF NoPriceFor

\* The report of the event is written over a row of the call.
LEMMA EslCommitted ==
    ASSUME BookInv, NEW r \in Sound, r.src = "esl", NEW t \in Start(r.u, {r.start}), Unlocked(<<r.u, t>>),
           CommitRow(<<r.u, t>>, EslWrite(row[<<r.u, t>>], r.told)), NoPriceFor(r.u, EslUnpriced(r)),
           UNCHANGED <<tx, snap, wr, ledger>>
    PROVE  /\ row' \in [Key -> Row] /\ older' \in [Key -> SUBSET Key]
           /\ RowsBacked' /\ RowsKept /\ unpriced' \subseteq Answered
<1> DEFINE k == <<r.u, t>>
           old == row[k]
           new == EslWrite(old, r.told)
<1>1. r.u \in Call /\ t \in Second
  BY RowFacts, ReportFacts, StartIsKnown
<1>2. k \in Key /\ k[1] = r.u
  BY <1>1, KeyFacts
<1>3. old \in Row /\ (old.cost > 0 => r.u \in Answered)
  BY <1>2 DEF BookInv, BookTyped, RowsBacked, Backed
<1> HIDE DEF old
<1>4. /\ new \in Row /\ new.st = "final" /\ Backed(new, r.u)
      /\ old.cost > 0 => new.cost > 0 \/ EslUnpriced(r)
      /\ EslUnpriced(r) => r.u \in Answered
  BY <1>3, EslWriteKeeps
<1>5. unpriced \subseteq unpriced' /\ unpriced' \subseteq Answered /\ (EslUnpriced(r) => r.u \in unpriced')
  BY <1>4, UnpricedGrows DEF BookInv, BookTyped, EslUnpriced
<1>6. CommitRow(k, new) /\ Unlocked(k)
  BY DEF old
<1> HIDE DEF new, k
<1>7. row[k].cost > 0 => new.cost > 0 \/ k[1] \in unpriced'
  BY <1>2, <1>4, <1>5 DEF old
<1> QED
  BY <1>2, <1>4, <1>5, <1>6, <1>7, KeyCommitted

\* So is that of mod_xml_cdr, with what it has read of one.
LEMMA XmlCommitted ==
    ASSUME BookInv, NEW u \in Call, NEW j \in Key, j[1] = u, NEW t \in Start(u, {j[2]}), Unlocked(<<u, t>>),
           NEW new \in XmlPatch(row[j], u), CommitRow(<<u, t>>, new),
           NoPriceFor(u, XmlUnpriced(u, row[j], new)), UNCHANGED <<tx, snap, wr, ledger>>
    PROVE  /\ row' \in [Key -> Row] /\ older' \in [Key -> SUBSET Key]
           /\ RowsBacked' /\ RowsKept /\ unpriced' \subseteq Answered
<1> DEFINE k == <<u, t>>
           seen == row[j]
<1>1. t \in Second
  BY KeyFacts, StartIsKnown
<1>2. k \in Key /\ k[1] = u
  BY <1>1, KeyFacts
<1>3. seen \in Row /\ Backed(seen, u)
  BY DEF BookInv, BookTyped, RowsBacked
<1> HIDE DEF seen
<1>4. /\ new \in Row /\ new.st = "final" /\ Backed(new, u)
      /\ u \in Answered => new.cost > 0 \/ XmlUnpriced(u, seen, new)
      /\ XmlUnpriced(u, seen, new) => u \in Answered
  BY <1>3, XmlPatchKeeps DEF seen
<1>5. unpriced \subseteq unpriced' /\ unpriced' \subseteq Answered /\ (XmlUnpriced(u, seen, new) => u \in unpriced')
  BY <1>4, UnpricedGrows DEF BookInv, BookTyped, XmlUnpriced, seen
<1>6. row[k].cost > 0 => u \in Answered
  BY <1>2 DEF BookInv, RowsBacked, Backed
<1> HIDE DEF k
<1>7. row[k].cost > 0 => new.cost > 0 \/ k[1] \in unpriced'
  BY <1>2, <1>4, <1>5, <1>6
<1> QED
  BY <1>2, <1>4, <1>5, <1>7, KeyCommitted DEF k

LEMMA CarrierTyped ==
    ASSUME BookInv, NEW r \in Sound, ChargeCarrier(r)
    PROVE  carrier' \subseteq Call
  BY RowFacts, ReportFacts DEF ChargeCarrier, BookInv, BookTyped

\* A report that finds the queue full is applied on the spot.
LEMMA EnqueueStep ==
    ASSUME BookInv, NEW r \in Sound, Enqueue(r),
           due' \in [Call -> SUBSET {"hangup", "esl", "xml", "lost"}],
           \A u \in Call : due'[u] # {"hangup"} => dials[u] > 0,
           UNCHANGED <<ledger, debit, dials, wr, tx, snap, reap, sweep, dbUp, faults>>
    PROVE  BookInv' /\ RowsKept
<1> USE DEF BookInv
<1>1. r.u \in Call /\ r.start \in Second
  BY RowFacts, ReportFacts
<1>2. WriterInv'
  BY DEF WriterInv
<1>3. /\ row' \in [Key -> Row] /\ older' \in [Key -> SUBSET Key] /\ carrier' \subseteq Call
      /\ RowsBacked' /\ RowsKept /\ unpriced' \subseteq Answered
  <2>1. CASE UNCHANGED <<rows, carrier, unpriced>>
    BY <2>1, NothingWritten DEF rows, BookTyped
  <2>2. CASE RunNow(r)
    <3>1. CASE /\ r.src = "esl"
               /\ \E t \in Start(r.u, {r.start}) :
                     /\ Unlocked(<<r.u, t>>)
                     /\ CommitRow(<<r.u, t>>, EslWrite(row[<<r.u, t>>], r.told))
               /\ ChargeCarrier(r) /\ NoPriceFor(r.u, EslUnpriced(r))
      BY <3>1, EslCommitted, CarrierTyped
    <3>2. CASE /\ r.src = "xml"
               /\ \E k \in IF Stored(r.u) = {} THEN {<<r.u, r.start>>} ELSE Stored(r.u) :
                  \E t \in Start(r.u, {k[2]}) : \E new \in XmlPatch(row[k], r.u) :
                     /\ Unlocked(<<r.u, t>>)
                     /\ CommitRow(<<r.u, t>>, new)
                     /\ NoPriceFor(r.u, XmlUnpriced(r.u, row[k], new))
               /\ UNCHANGED carrier
      <4>1. PICK k \in IF Stored(r.u) = {} THEN {<<r.u, r.start>>} ELSE Stored(r.u) :
               \E t \in Start(r.u, {k[2]}) : \E new \in XmlPatch(row[k], r.u) :
                  /\ Unlocked(<<r.u, t>>)
                  /\ CommitRow(<<r.u, t>>, new)
                  /\ NoPriceFor(r.u, XmlUnpriced(r.u, row[k], new))
        BY <3>2
      <4>2. k \in Key /\ k[1] = r.u
        BY <1>1, KeyFacts
      <4>3. /\ row' \in [Key -> Row] /\ older' \in [Key -> SUBSET Key]
            /\ RowsBacked' /\ RowsKept /\ unpriced' \subseteq Answered
        BY <1>1, <4>1, <4>2, XmlCommitted
      <4> QED
        BY <3>2, <4>3 DEF BookTyped
    <3> QED
      BY <2>2, <3>1, <3>2 DEF RunNow
  <2> QED
    BY <2>1, <2>2 DEF Enqueue
<1>4. queue' \in Seq(Sound) /\ Len(queue') <= QueueSize
  <2>1. CASE Len(queue) < QueueSize /\ queue' = Append(queue, r)
    BY <2>1, AppendProperties, LenProperties, CdrConstants DEF BookTyped
  <2>2. CASE UNCHANGED queue
    BY <2>2 DEF BookTyped
  <2> QED
    BY <2>1, <2>2 DEF Enqueue
<1>5. spool' \in Spools
  <2>1. spool' = spool \/ (r.src = "esl" /\ spool' = [spool EXCEPT ![r.u] = r])
    BY DEF Enqueue
  <2>2. /\ spool \in [Call -> Sound \cup {NoReport}]
        /\ \A v \in Call : spool[v] # NoReport => spool[v].u = v /\ spool[v].src = "esl"
    BY DEF BookTyped, Spools
  <2>3. spool' \in [Call -> Sound \cup {NoReport}]
    BY <1>1, <2>1, <2>2
  <2>4. \A v \in Call : spool'[v] # NoReport => spool'[v].u = v /\ spool'[v].src = "esl"
    BY <1>1, <2>1, <2>2
  <2> QED
    BY <2>3, <2>4 DEF Spools
<1>6. BookTyped'
  <2>1. WriterState' = WriterState /\ Spools' = Spools /\ Sound' = Sound
    BY SoundSame
  <2> QED
    BY <1>3, <1>4, <1>5, <2>1 DEF BookTyped
<1> QED
  BY <1>2, <1>3, <1>6

\* What _save_cdr tells is told of an answered call if it has an answer time.
LEMMA EslToldSound ==
    ASSUME NEW kind \in Kinds, NEW told \in EslTold(kind)
    PROVE  told \in Told /\ (kind # "full" => told.degraded)
<1>1. 0 \in {0, EslCost} /\ TRUE \in BOOLEAN /\ FALSE \in BOOLEAN
  OBVIOUS
<1>2. CASE kind = "full"
  BY <1>2 DEF EslTold, Told
<1>3. CASE kind = "vars"
  BY <1>3 DEF EslTold, Told
<1>4. CASE kind # "full" /\ kind # "vars"
  BY <1>4 DEF EslTold, Told
<1> QED
  BY <1>2, <1>3, <1>4

LEMMA ReportStep ==
    ASSUME BookInv, NEW u \in Call, EslReport(u) \/ XmlReport(u) PROVE BookInv' /\ RowsKept
<1>1. /\ due' \in [Call -> SUBSET {"hangup", "esl", "xml", "lost"}] /\ dials[u] > 0
      /\ \A v \in Call : due'[v] # {"hangup"} => dials[v] > 0
  <2>1. due[u] # {"hangup"}
    BY DEF EslReport, XmlReport
  <2> QED
    BY <2>1 DEF BookInv, BookTyped, EslReport, XmlReport
<1>2. CASE EslReport(u)
  <2>1. PICK kind \in EslKinds \ {"lost"} :
           /\ kind = "full" => u \in Answered
           /\ \E told \in EslTold(kind), t \in Start(u, EslStart) :
                 Enqueue([src |-> "esl", u |-> u, start |-> t, told |-> told])
    BY <1>2 DEF EslReport
  <2>2. PICK told \in EslTold(kind), t \in Start(u, EslStart) :
           Enqueue([src |-> "esl", u |-> u, start |-> t, told |-> told])
    BY <2>1
  <2>3. told \in Told /\ (kind # "full" => told.degraded) /\ t \in Second
    BY EslToldSound, StartIsKnown, CdrConstants DEF Second
  <2> DEFINE r == [src |-> "esl", u |-> u, start |-> t, told |-> told]
  <2>4. r \in Report /\ r.src = "esl" /\ r.u = u /\ r.told = told
    BY <2>3 DEF Report
  <2> HIDE DEF r
  <2>5. r \in Sound
    BY <1>1, <2>1, <2>3, <2>4 DEF Sound
  <2>6. Enqueue(r)
    BY <2>2 DEF r
  <2> QED
    BY <1>1, <1>2, <2>5, <2>6, EnqueueStep DEF EslReport
<1>3. CASE XmlReport(u)
  <2>1. PICK t \in XmlStart : Enqueue([src |-> "xml", u |-> u, start |-> t])
    BY <1>3 DEF XmlReport
  <2> DEFINE r == [src |-> "xml", u |-> u, start |-> t]
  <2>2. r \in Report /\ r.src = "xml" /\ r.u = u
    BY DEF Report, Second
  <2> HIDE DEF r
  <2>3. r \in Sound
    BY <1>1, <2>2 DEF Sound
  <2>4. Enqueue(r)
    BY <2>1 DEF r
  <2> QED
    BY <1>1, <1>3, <2>3, <2>4, EnqueueStep DEF XmlReport
<1> QED
  BY <1>2, <1>3
-----------------------------------------------------------------------------
(* The steps of the writer thread. *)

LEMMA IdleWriter ==
    /\ Idle \in WriterState /\ Idle.pc = "idle" /\ ~Idle.single
    /\ \A seq \in Seq(Sound) : [Idle EXCEPT !.redo = seq] \in WriterState
                               /\ [Idle EXCEPT !.redo = seq].pc = "idle"
                               /\ ~[Idle EXCEPT !.redo = seq].single
<1>1. <<>> \in Seq(Sound)
  BY EmptySeq
<1> QED
  BY <1>1, RowFacts DEF Idle, WriterState

\* The job at work is done with.
LEMMA DoneWriter ==
    ASSUME BookInv, wr.todo # <<>>
    PROVE  /\ Done \in WriterState /\ Done.pc = "exec" /\ Done.single = wr.single
           /\ Done.redo = wr.redo /\ Done.failed = wr.failed
           /\ Head(wr.todo) \in Sound /\ Head(wr.todo).u \in Call
<1>1. wr \in WriterState
  BY DEF BookInv, BookTyped
<1>2. wr.todo \in Seq(Sound)
  BY <1>1 DEF WriterState
<1>3. Head(wr.todo) \in Sound /\ Tail(wr.todo) \in Seq(Sound)
  BY <1>2, HeadTailProperties
<1>4. Head(wr.todo).u \in Call
  BY <1>3, RowFacts, ReportFacts
<1> QED
  BY <1>1, <1>3, <1>4, RowFacts DEF Done, WriterState

LEMMA TakeBatchStep ==
    ASSUME BookInv, TakeBatch PROVE BookInv' /\ RowsKept
<1> USE DEF BookInv
<1>1. PICK n \in 1..Len(queue) :
          /\ wr' = [Idle EXCEPT !.pc = "exec", !.batch = SubSeq(queue, 1, n), !.todo = SubSeq(queue, 1, n)]
          /\ queue' = SubSeq(queue, n + 1, Len(queue))
  BY DEF TakeBatch
<1>2. queue \in Seq(Sound) /\ Len(queue) \in Nat /\ \A i \in 1..Len(queue) : queue[i] \in Sound
  BY LenProperties, ElementOfSeq DEF BookTyped
<1>3. SubSeq(queue, 1, n) \in Seq(Sound)
  BY <1>2, SubSeqProperties
<1>4. SubSeq(queue, n + 1, Len(queue)) \in Seq(Sound) /\ Len(SubSeq(queue, n + 1, Len(queue))) <= Len(queue)
  <2>1. \A i \in (n + 1)..Len(queue) : queue[i] \in Sound
    BY <1>2
  <2> QED
    BY <1>2, <2>1, SubSeqProperties, n + 1 \in Int
<1>5. wr' \in WriterState /\ wr'.pc = "exec" /\ ~wr'.single
  BY <1>1, <1>3, IdleWriter DEF WriterState
<1>6. UNCHANGED <<rows, money, calls, tx, snap, spool, reap, sweep, dbUp, faults, unpriced>>
  BY DEF TakeBatch
<1>7. BookTyped' /\ WriterInv'
  <2>1. queue' \in Seq(Sound) /\ Len(queue') <= QueueSize
    BY <1>1, <1>2, <1>4, LenProperties, CdrConstants DEF BookTyped
  <2> QED
    BY <1>5, <1>6, <2>1, SoundSame DEF BookTyped, WriterInv, rows, money, calls
<1> QED
  BY <1>5, <1>6, <1>7, NothingWritten DEF rows, money

LEMMA RetryOneStep ==
    ASSUME BookInv, RetryOne PROVE BookInv' /\ RowsKept
<1> USE DEF BookInv
<1>1. wr \in WriterState /\ wr.redo \in Seq(Sound) /\ Head(wr.redo) \in Sound
  BY HeadTailProperties DEF RetryOne, BookTyped, WriterState
<1>2. <<Head(wr.redo)>> \in Seq(Sound)
  BY <1>1
<1>3. wr' \in WriterState /\ wr'.pc = "exec" /\ wr'.redo = wr.redo
  BY <1>1, <1>2 DEF RetryOne, WriterState
<1>4. wr.redo # <<>> /\ UNCHANGED <<rows, money, calls, queue, tx, snap, spool, reap, sweep, dbUp, faults, unpriced>>
  BY DEF RetryOne
<1>5. BookTyped' /\ WriterInv'
  BY <1>3, <1>4, SoundSame DEF BookTyped, WriterInv, rows, money, calls
<1> QED
  BY <1>3, <1>4, <1>5, NothingWritten DEF rows, money

LEMMA RunFailsStep ==
    ASSUME BookInv, RunFails PROVE BookInv' /\ RowsKept
<1> USE DEF BookInv
<1>1. Append(Done.failed, Head(wr.todo)) \in Seq(Sound)
  BY DoneWriter, AppendProperties DEF RunFails, WriterState
<1>2. wr' \in WriterState /\ wr'.pc = "exec" /\ wr'.single = wr.single /\ wr'.redo = wr.redo
  BY <1>1, DoneWriter DEF RunFails, WriterState
<1>3. UNCHANGED <<rows, money, calls, queue, tx, snap, spool, reap, sweep, dbUp, faults, unpriced>>
  BY DEF RunFails
<1>4. BookTyped' /\ WriterInv'
  BY <1>2, <1>3, SoundSame DEF BookTyped, WriterInv, rows, money, calls
<1> QED
  BY <1>2, <1>3, <1>4, NothingWritten DEF rows, money

\* A row the transaction writes is final, keeps the price of the committed one, and says
\* no more than that: the invariant holds with it.
LEMMA TxWritten ==
    ASSUME BookInv, NEW k \in Key, NEW r \in Row, r.st = "final", Backed(r, k[1]),
           unpriced \subseteq unpriced',
           row[k].cost > 0 => r.cost > 0 \/ k[1] \in unpriced',
           WriteRow(k, r), UNCHANGED <<row, ledger, snap>>, wr'.pc # "read"
    PROVE  /\ tx' \in [Key -> Row] /\ older' \in [Key -> SUBSET Key]
           /\ RowsBacked' /\ RowsKept
<1> USE DEF BookInv, BookTyped
<1>1. tx' = [tx EXCEPT ![k] = r] /\ older' = Placed(k)
  BY DEF WriteRow
<1>2. tx' \in [Key -> Row] /\ \A j \in Key : tx'[j] = IF j = k THEN r ELSE tx[j]
  BY <1>1
<1>3. older' \in [Key -> SUBSET Key]
  BY <1>1, PlacedTyped
<1>4. RowsKept
  BY DEF RowsKept
<1>5. RowsBacked'
  <2>1. (\A j \in Key : Backed(row[j], j[1]) /\ Backed(tx[j], j[1]))'
    BY <1>2 DEF RowsBacked, Backed
  <2>2. (snap # <<>> => \A j \in Key : Backed(snap[j], j[1]))'
    BY DEF RowsBacked, Backed
  <2>3. (\A j \in Key : tx[j] # NoRow =>
            tx[j].st = "final" /\ (row[j].cost > 0 => tx[j].cost > 0 \/ j[1] \in unpriced))'
    BY <1>2 DEF RowsBacked
  <2> QED
    BY <2>1, <2>2, <2>3 DEF RowsBacked
<1> QED
  BY <1>2, <1>3, <1>4, <1>5

LEMMA RunEslStep ==
    ASSUME BookInv, RunEsl PROVE BookInv' /\ RowsKept
<1> USE DEF BookInv
<1> DEFINE r == Head(wr.todo)
<1>1. r \in Sound /\ r.u \in Call /\ wr' \in WriterState /\ wr'.pc = "exec" /\ wr'.single = wr.single
      /\ wr'.redo = wr.redo /\ r.src = "esl"
  BY DoneWriter DEF RunEsl
<1> HIDE DEF r
<1>2. /\ \E t \in Start(r.u, {r.start}) : WriteRow(<<r.u, t>>, EslWrite(Written(<<r.u, t>>), r.told))
      /\ ChargeCarrier(r) /\ NoPriceFor(r.u, EslUnpriced(r))
      /\ UNCHANGED <<row, ledger, debit, calls, queue, snap, spool, reap, sweep, dbUp, faults>>
  BY DEF RunEsl, r
<1>3. PICK t \in Start(r.u, {r.start}) : WriteRow(<<r.u, t>>, EslWrite(Written(<<r.u, t>>), r.told))
  BY <1>2
<1> DEFINE k == <<r.u, t>>
           old == Written(k)
           new == EslWrite(old, r.told)
<1>4. r.start \in Second /\ t \in Second
  BY <1>1, RowFacts, ReportFacts, StartIsKnown
<1>5. k \in Key /\ k[1] = r.u
  BY <1>1, <1>4, KeyFacts
<1>6. WriteRow(k, new)
  BY <1>3
<1> HIDE DEF k
<1>7. old \in Row /\ (old.cost > 0 => r.u \in Answered)
      /\ (row[k].cost > 0 => old.cost > 0 \/ r.u \in unpriced)
  BY <1>5 DEF BookTyped, RowsBacked, Backed, Written
<1> HIDE DEF old
<1>8. /\ new \in Row /\ new.st = "final" /\ Backed(new, r.u)
      /\ old.cost > 0 => new.cost > 0 \/ EslUnpriced(r)
      /\ EslUnpriced(r) => r.u \in Answered
  BY <1>1, <1>7, EslWriteKeeps
<1> HIDE DEF new
<1>9. unpriced \subseteq unpriced' /\ unpriced' \subseteq Answered /\ (EslUnpriced(r) => r.u \in unpriced')
  BY <1>2, <1>8, UnpricedGrows DEF BookTyped, EslUnpriced
<1>10. row[k].cost > 0 => new.cost > 0 \/ k[1] \in unpriced'
  BY <1>5, <1>7, <1>8, <1>9
<1>11. /\ tx' \in [Key -> Row] /\ older' \in [Key -> SUBSET Key]
       /\ RowsBacked' /\ RowsKept
  BY <1>1, <1>2, <1>5, <1>6, <1>8, <1>9, <1>10, TxWritten
<1>12. carrier' \subseteq Call
  BY <1>1, <1>2, CarrierTyped
<1>13. BookTyped' /\ WriterInv'
  BY <1>1, <1>2, <1>9, <1>11, <1>12, SoundSame DEF BookTyped, WriterInv, calls
<1> QED
  BY <1>11, <1>13

LEMMA ReadXmlStep ==
    ASSUME BookInv, ReadXml PROVE BookInv' /\ RowsKept
<1> USE DEF BookInv
<1> DEFINE r == Head(wr.todo)
           seen(k) == IF tx[k] = NoRow THEN snap'[k] ELSE tx[k]
<1>1. r \in Sound /\ r.u \in Call /\ r.start \in Second /\ wr \in WriterState /\ wr.todo # <<>>
  BY DoneWriter, RowFacts, ReportFacts DEF ReadXml, BookTyped
<1>2. snap' \in [Key -> Row] /\ \A k \in Key : Backed(snap'[k], k[1])
  BY DEF ReadXml, BookTyped, RowsBacked
<1>3. PICK k \in IF {j \in Rows(r.u) : seen(j) # NoRow} = {} THEN {<<r.u, r.start>>}
                 ELSE {j \in Rows(r.u) : seen(j) # NoRow} :
          wr' = [wr EXCEPT !.pc = "read", !.seen = seen(k), !.start = k[2]]
  BY DEF ReadXml
<1>4. UNCHANGED <<rows, money, calls, queue, tx, spool, reap, sweep, dbUp, faults, unpriced>>
  BY DEF ReadXml
<1> HIDE DEF r
<1>5. k \in Key /\ k[1] = r.u /\ k[2] \in Second
  BY <1>1, <1>3, KeyFacts DEF Rows, Key
<1>6. seen(k) \in Row /\ Backed(seen(k), r.u)
  BY <1>2, <1>5 DEF BookTyped, RowsBacked
<1> HIDE DEF seen
<1>7. wr' \in WriterState /\ wr'.pc = "read" /\ wr'.seen = seen(k) /\ wr'.todo = wr.todo
      /\ wr'.single = wr.single /\ wr'.redo = wr.redo /\ wr'.start = k[2]
  BY <1>1, <1>3, <1>5, <1>6 DEF WriterState
<1>8. BookTyped' /\ WriterInv'
  BY <1>1, <1>2, <1>4, <1>5, <1>7, SoundSame DEF BookTyped, WriterInv, rows, money, calls
<1>9. RowsKept
  BY <1>4 DEF RowsKept, rows
<1>10. RowsBacked'
  <2>1. Head(wr'.todo).u = r.u
    BY <1>7 DEF r
  <2> QED
    BY <1>2, <1>4, <1>6, <1>7, <2>1 DEF RowsBacked, Backed, rows, money
<1> QED
  BY <1>8, <1>9, <1>10

\* The job may have read the row long ago: the price it does not know of is one of an
\* answered call, so that its own report brings one or has looked for it in vain.
LEMMA WriteXmlStep ==
    ASSUME BookInv, WriteXml PROVE BookInv' /\ RowsKept
<1> USE DEF BookInv
<1> DEFINE u == Head(wr.todo).u
<1>1. u \in Call /\ wr' \in WriterState /\ wr'.pc = "exec" /\ wr'.single = wr.single /\ wr'.redo = wr.redo
  BY DoneWriter DEF WriteXml, WriterInv
<1>2. wr.seen \in Row /\ Backed(wr.seen, u) /\ wr.start \in Second
  BY DEF WriteXml, BookTyped, WriterState, RowsBacked, WriterInv
<1> HIDE DEF u
<1>3. /\ \E t \in Start(u, {wr.start}) : \E new \in XmlPatch(wr.seen, u) :
            WriteRow(<<u, t>>, new) /\ NoPriceFor(u, XmlUnpriced(u, wr.seen, new))
      /\ UNCHANGED <<row, money, calls, queue, snap, spool, reap, sweep, dbUp, faults>>
  BY DEF WriteXml, u
<1>4. PICK t \in Start(u, {wr.start}) : \E new \in XmlPatch(wr.seen, u) :
            WriteRow(<<u, t>>, new) /\ NoPriceFor(u, XmlUnpriced(u, wr.seen, new))
  BY <1>3
<1>5. PICK new \in XmlPatch(wr.seen, u) :
            WriteRow(<<u, t>>, new) /\ NoPriceFor(u, XmlUnpriced(u, wr.seen, new))
  BY <1>4
<1> DEFINE k == <<u, t>>
<1>6. t \in Second /\ k \in Key /\ k[1] = u
  BY <1>1, <1>2, StartIsKnown, KeyFacts
<1>7. /\ new \in Row /\ new.st = "final" /\ Backed(new, u)
      /\ u \in Answered => new.cost > 0 \/ XmlUnpriced(u, wr.seen, new)
      /\ XmlUnpriced(u, wr.seen, new) => u \in Answered
  BY <1>1, <1>2, XmlPatchKeeps
<1>8. unpriced \subseteq unpriced' /\ unpriced' \subseteq Answered
      /\ (XmlUnpriced(u, wr.seen, new) => u \in unpriced')
  BY <1>5, <1>7, UnpricedGrows DEF BookTyped, XmlUnpriced
<1>9. WriteRow(k, new)
  BY <1>5
<1> HIDE DEF k
<1>10. row[k].cost > 0 => new.cost > 0 \/ k[1] \in unpriced'
  BY <1>6, <1>7, <1>8 DEF RowsBacked, Backed
<1>11. /\ tx' \in [Key -> Row] /\ older' \in [Key -> SUBSET Key]
       /\ RowsBacked' /\ RowsKept
  BY <1>1, <1>3, <1>6, <1>7, <1>8, <1>9, <1>10, TxWritten DEF money
<1>12. BookTyped' /\ WriterInv'
  BY <1>1, <1>3, <1>8, <1>11, SoundSame DEF BookTyped, WriterInv, calls, money
<1> QED
  BY <1>11, <1>12

\* The transaction is over, and what it has written and read is gone.
LEMMA EndTxStep ==
    ASSUME BookInv, NEW redo \in Seq(Sound), EndTx(redo)
    PROVE  /\ wr' \in WriterState /\ wr'.pc = "idle" /\ ~wr'.single
           /\ tx' \in [Key -> Row] /\ snap' = <<>> /\ \A k \in Key : tx'[k] = NoRow
  BY IdleWriter, RowFacts DEF EndTx

LEMMA CommitStep ==
    ASSUME BookInv, Commit PROVE BookInv' /\ RowsKept
<1> USE DEF BookInv
<1>1. wr \in WriterState /\ wr.redo \in Seq(Sound) /\ wr.failed \in Seq(Sound)
  BY DEF BookTyped, WriterState
<1>2. (IF wr.single THEN Tail(wr.redo) ELSE wr.failed) \in Seq(Sound)
  BY <1>1, HeadTailProperties DEF WriterInv
<1>3. /\ wr' \in WriterState /\ wr'.pc = "idle" /\ ~wr'.single
      /\ tx' \in [Key -> Row] /\ snap' = <<>> /\ \A k \in Key : tx'[k] = NoRow
  BY <1>2, EndTxStep DEF Commit
<1>4. row' \in [Key -> Row] /\ \A k \in Key : row'[k] = IF tx[k] = NoRow THEN row[k] ELSE tx[k]
  BY DEF Commit, BookTyped, Written
<1>5. UNCHANGED <<older, money, calls, queue, spool, reap, sweep, dbUp, faults, unpriced>>
  BY DEF Commit
<1>6. BookTyped' /\ WriterInv'
  BY <1>3, <1>4, <1>5, SoundSame DEF BookTyped, WriterInv, money, calls
<1>7. RowsBacked'
  BY <1>3, <1>4, <1>5, RowFacts DEF RowsBacked, Backed, money
<1>8. RowsKept
  BY <1>4, <1>5 DEF RowsKept, RowsBacked
<1> QED
  BY <1>6, <1>7, <1>8

LEMMA RollBackTyped ==
    ASSUME BookInv, RollBack
    PROVE  older' \in [Key -> SUBSET Key]
  BY DEF RollBack, BookInv, BookTyped

LEMMA CommitFailsStep ==
    ASSUME BookInv, CommitFails PROVE BookInv' /\ RowsKept
<1> USE DEF BookInv
<1>1. wr \in WriterState /\ wr.redo \in Seq(Sound) /\ wr.batch \in Seq(Sound)
  BY DEF BookTyped, WriterState
<1>2. PICK redo \in Seq(Sound) : EndTx(redo) /\ spool' \in Spools
  <2>1. CASE EndTx(IF wr.single THEN wr.redo ELSE wr.batch) /\ UNCHANGED spool
    <3>1. (IF wr.single THEN wr.redo ELSE wr.batch) \in Seq(Sound)
      BY <1>1
    <3> QED
      BY <2>1, <3>1 DEF BookTyped
  <2>2. CASE /\ wr.single /\ EndTx(Tail(wr.redo))
             /\ LET r == Head(wr.redo) IN
                spool' = IF r.src = "esl" THEN [spool EXCEPT ![r.u] = r] ELSE spool
    <3> DEFINE r == Head(wr.redo)
    <3>1. Tail(wr.redo) \in Seq(Sound) /\ r \in Sound
      BY <1>1, <2>2, HeadTailProperties DEF WriterInv
    <3>2. r.u \in Call
      BY <3>1, RowFacts, ReportFacts
    <3>3. spool' = spool \/ (r.src = "esl" /\ spool' = [spool EXCEPT ![r.u] = r])
      BY <2>2
    <3> HIDE DEF r
    <3>4. /\ spool \in [Call -> Sound \cup {NoReport}]
          /\ \A v \in Call : spool[v] # NoReport => spool[v].u = v /\ spool[v].src = "esl"
      BY DEF BookTyped, Spools
    <3>5. spool' \in [Call -> Sound \cup {NoReport}]
      BY <3>1, <3>2, <3>3, <3>4
    <3>6. \A v \in Call : spool'[v] # NoReport => spool'[v].u = v /\ spool'[v].src = "esl"
      BY <3>2, <3>3, <3>4
    <3>7. spool' \in Spools
      BY <3>5, <3>6 DEF Spools
    <3> QED
      BY <2>2, <3>1, <3>7
  <2> QED
    BY <2>1, <2>2 DEF CommitFails
<1>3. /\ wr' \in WriterState /\ wr'.pc = "idle" /\ ~wr'.single
      /\ tx' \in [Key -> Row] /\ snap' = <<>> /\ \A k \in Key : tx'[k] = NoRow
  BY <1>2, EndTxStep
<1>4. older' \in [Key -> SUBSET Key]
      /\ UNCHANGED <<row, money, calls, queue, reap, sweep, dbUp, faults, unpriced>>
  BY RollBackTyped DEF CommitFails
<1>5. BookTyped' /\ WriterInv'
  BY <1>2, <1>3, <1>4, SoundSame DEF BookTyped, WriterInv, money, calls
<1>6. RowsKept
  BY <1>4 DEF RowsKept
<1>7. RowsBacked'
  BY <1>3, <1>4, RowFacts DEF RowsBacked, Backed, money
<1> QED
  BY <1>5, <1>6, <1>7
-----------------------------------------------------------------------------
(* The reaper, the sweepers and the environment. *)

LEMMA ReplayStep ==
    ASSUME BookInv, NEW u \in Call, Replay(u) PROVE BookInv' /\ RowsKept
<1> USE DEF BookInv
<1> DEFINE r == spool[u]
<1>1. r \in Sound /\ r.u = u /\ r.src = "esl"
  BY DEF Replay, BookTyped, Spools
<1> HIDE DEF r
<1>2. \E t \in Start(u, {r.start}) :
          /\ Unlocked(<<u, t>>)
          /\ CommitRow(<<u, t>>, EslWrite(row[<<u, t>>], r.told))
  BY DEF Replay, r
<1>3. /\ NoPriceFor(u, EslUnpriced(r)) /\ reap' = u
      /\ UNCHANGED <<money, calls, write, spool, sweep, dbUp, faults>>
  BY DEF Replay, r
<1>4. /\ row' \in [Key -> Row] /\ older' \in [Key -> SUBSET Key]
      /\ RowsBacked' /\ RowsKept /\ unpriced' \subseteq Answered
  BY <1>1, <1>2, <1>3, EslCommitted DEF money, write
<1>5. BookTyped' /\ WriterInv'
  BY <1>3, <1>4, SoundSame DEF BookTyped, WriterInv, money, calls, write
<1> QED
  BY <1>4, <1>5

LEMMA FunctionIsSeq ==
    ASSUME NEW S, NEW n \in Nat, NEW f \in [1..n -> S]
    PROVE  f \in Seq(S)
BY SeqDef

LEMMA SelectStep ==
    ASSUME BookInv, NEW s \in Sweeper, Select(s) PROVE BookInv' /\ RowsKept
<1> USE DEF BookInv
<1>1. PICK found \in SetToSeqs(Picked) :
          sweep' = [sweep EXCEPT ![s] =
              [i \in DOMAIN found |-> [u |-> found[i][1], cost |-> row[found[i]].cost]]]
  BY DEF Select
<1>2. IsFiniteSet(Picked)
  <2>1. IsFiniteSet(Key)
    BY CdrConstants, FS_Product DEF Key
  <2>2. Picked \subseteq Key
    BY DEF Picked, Unbilled
  <2> QED
    BY <2>1, <2>2, FS_Subset
<1>3. Cardinality(Picked) \in Nat /\ found \in [1..Cardinality(Picked) -> Picked]
  BY <1>2, FS_CardinalityType DEF SetToSeqs
<1>4. \A k \in Picked : k[1] \in Call /\ row[k].cost \in {EslCost, XmlCost}
  <2> SUFFICES ASSUME NEW k \in Picked PROVE k[1] \in Call /\ row[k].cost \in {EslCost, XmlCost}
    OBVIOUS
  <2>1. k \in Key /\ row[k].cost > 0
    BY DEF Picked, Unbilled
  <2>2. row[k] \in Row /\ k[1] \in Call
    BY <2>1, KeyFacts DEF BookTyped
  <2> QED
    BY <2>1, <2>2 DEF Row
<1> DEFINE entry(i) == [u |-> found[i][1], cost |-> row[found[i]].cost]
           picked == [i \in 1..Cardinality(Picked) |-> entry(i)]
<1>5. picked \in Seq([u : Call, cost : {EslCost, XmlCost}])
  <2>1. \A i \in 1..Cardinality(Picked) : entry(i) \in [u : Call, cost : {EslCost, XmlCost}]
    BY <1>3, <1>4
  <2> HIDE DEF entry
  <2>2. picked \in [1..Cardinality(Picked) -> [u : Call, cost : {EslCost, XmlCost}]]
    BY <2>1
  <2> HIDE DEF picked
  <2> QED
    BY <1>3, <2>2, FunctionIsSeq
<1>6. sweep' = [sweep EXCEPT ![s] = picked]
  BY <1>1, <1>3
<1> HIDE DEF picked
<1>7. UNCHANGED <<rows, money, calls, write, spool, reap, dbUp, faults, unpriced>>
  BY DEF Select
<1>8. BookTyped' /\ WriterInv'
  <2>1. sweep' \in [Sweeper -> Seq([u : Call, cost : {EslCost, XmlCost}])]
    BY <1>5, <1>6 DEF BookTyped
  <2> QED
    BY <1>7, <2>1, SoundSame DEF BookTyped, WriterInv, rows, money, calls, write
<1> QED
  BY <1>7, <1>8, NothingWritten DEF rows, money, write

\* The one step that sets the flag, with the entry of the ledger.
LEMMA ChargeStep ==
    ASSUME BookInv, NEW s \in Sweeper, Charge(s)
    PROVE  /\ BookInv' /\ RowsKept
           /\ UNCHANGED <<ledger, debit>> \/ AccountPaysOnce!PayNext
<1> USE DEF BookInv
<1> DEFINE u == Head(sweep[s]).u
           cost == Head(sweep[s]).cost
<1>1. u \in Call /\ cost \in {EslCost, XmlCost} /\ Tail(sweep[s]) \in Seq([u : Call, cost : {EslCost, XmlCost}])
  <2>1. sweep[s] \in Seq([u : Call, cost : {EslCost, XmlCost}]) /\ sweep[s] # <<>>
    BY DEF Charge, BookTyped
  <2>2. Head(sweep[s]) \in [u : Call, cost : {EslCost, XmlCost}]
        /\ Tail(sweep[s]) \in Seq([u : Call, cost : {EslCost, XmlCost}])
    BY <2>1, HeadTailProperties
  <2> QED
    BY <2>2
<1>2. sweep' \in [Sweeper -> Seq([u : Call, cost : {EslCost, XmlCost}])]
  BY <1>1 DEF Charge, BookTyped
<1>3. UNCHANGED <<older, carrier, calls, write, spool, reap, dbUp, faults, unpriced>>
  BY DEF Charge
<1>4. WriterInv'
  BY <1>3 DEF WriterInv, write
<1>5. CASE UNCHANGED <<row, ledger, debit>>
  <2>1. BookTyped'
    BY <1>2, <1>3, <1>5, SoundSame DEF BookTyped, calls, write
  <2> QED
    BY <1>3, <1>4, <1>5, <2>1, NothingWritten DEF write
<1>6. CASE /\ ledger[u] = 0 /\ AllUnlocked(u)
           /\ ledger' = [ledger EXCEPT ![u] = cost] /\ debit' = debit + cost
           /\ row' = Billed(u)
  <2>1. \A r \in Row : /\ [r EXCEPT !.billed = TRUE] \in Row
                       /\ [r EXCEPT !.billed = TRUE].cost = r.cost
                       /\ [r EXCEPT !.billed = TRUE].st = r.st
    BY DEF Row
  <2>2. row' \in [Key -> Row]
    BY <1>6, <2>1 DEF Billed, BookTyped
  <2>3. \A k \in Key : /\ row'[k].cost = row[k].cost /\ row'[k].st = row[k].st
                       /\ row'[k] = row[k] \/ k \in Stored(u)
    BY <1>6, <2>1 DEF Billed, BookTyped
  <2> HIDE DEF u, cost
  <2>4. cost \in Nat /\ cost > 0
    BY <1>1, CdrConstants
  <2>5. ledger' \in [Call -> {0, EslCost, XmlCost}]
    BY <1>1, <1>6 DEF BookTyped
  <2>6. \A v \in Call : ledger[v] # 0 => ledger'[v] # 0
    BY <1>1, <1>6, <2>4 DEF BookTyped
  <2>7. ledger'[u] # 0
    BY <1>1, <1>6, <2>4 DEF BookTyped
  <2>8. debit' \in Nat
    BY <1>6, <2>4 DEF BookTyped
  <2>9. BookTyped'
    BY <1>2, <1>3, <2>2, <2>5, <2>8, SoundSame DEF BookTyped, calls, write
  <2>10. RowsBacked'
    <3>1. \A k \in Stored(u) : tx[k] = NoRow /\ k[1] = u
      BY <1>1, <1>6, KeyFacts DEF AllUnlocked, Unlocked, Stored
    <3>2. \A k \in Key : row'[k].cost > 0 => k[1] \in Answered
      BY <2>3 DEF RowsBacked, Backed
    <3>3. \A k \in Key : \/ row'[k] = row[k]
                         \/ /\ tx[k] = NoRow
                            /\ row'[k].billed => ledger'[k[1]] # 0
                            /\ row'[k].cost > 0 => k[1] \in Answered
      BY <2>3, <2>7, <3>1, <3>2
    <3>4. UNCHANGED <<tx, snap, wr>> /\ unpriced \subseteq unpriced'
      BY <1>3 DEF write
    <3> QED
      BY <2>6, <3>3, <3>4, RowsCommitted
  <2>11. RowsKept
    BY <2>3 DEF RowsKept
  <2>12. AccountPaysOnce!PayNext
    <3>1. debit' - debit = cost /\ cost \in 1..(debit' - debit)
      BY <1>6, <2>4 DEF BookTyped
    <3>2. AccountPaysOnce!Pay(u, cost)
      BY <1>6, <2>4 DEF AccountPaysOnce!Pay
    <3> QED
      BY <1>1, <3>1, <3>2 DEF AccountPaysOnce!PayNext
  <2> QED
    BY <1>4, <2>9, <2>10, <2>11, <2>12
<1> QED
  BY <1>5, <1>6 DEF Charge

LEMMA CrashStep ==
    ASSUME BookInv, Crash PROVE BookInv' /\ RowsKept
<1> USE DEF BookInv
<1>1. <<>> \in Seq(Sound) /\ Len(<<>>) = 0 /\ <<>> \in Seq([u : Call, cost : {EslCost, XmlCost}])
  BY EmptySeq
<1>2. /\ wr' \in WriterState /\ wr'.pc = "idle" /\ ~wr'.single
      /\ tx' \in [Key -> Row] /\ snap' = <<>> /\ \A k \in Key : tx'[k] = NoRow
  BY <1>1, EndTxStep DEF Crash
<1>3. faults' \in Seq(FaultKinds) /\ Len(faults') <= MaxFaults
  BY AppendProperties, LenProperties, CdrConstants DEF Crash, Fault, BookTyped
<1>4. /\ older' \in [Key -> SUBSET Key] /\ queue' = <<>> /\ reap' = NoCall
      /\ sweep' = [v \in Sweeper |-> <<>>]
      /\ UNCHANGED <<row, money, calls, spool, dbUp, unpriced>>
  BY RollBackTyped DEF Crash
<1>5. BookTyped' /\ WriterInv'
  BY <1>1, <1>2, <1>3, <1>4, CdrConstants, SoundSame DEF BookTyped, WriterInv, money, calls
<1>6. RowsKept
  BY <1>4 DEF RowsKept
<1>7. RowsBacked'
  BY <1>2, <1>4, RowFacts DEF RowsBacked, Backed, money
<1> QED
  BY <1>5, <1>6, <1>7

\* Steps of which the rows, the ledger and the writer thread know nothing.
LEMMA OtherStep ==
    ASSUME BookInv,
           (\E u \in Call : HangUp(u)) \/ RemoveSpooled \/ DbDown \/ DbBack \/ UNCHANGED vars
    PROVE  BookInv' /\ RowsKept
<1> USE DEF BookInv
<1>1. UNCHANGED <<row, older, ledger, debit, carrier, dials, queue, wr, tx, snap, sweep, unpriced>>
  BY DEF HangUp, RemoveSpooled, DbDown, DbBack, vars, rows, money, calls, write
<1>2. /\ due' \in [Call -> SUBSET {"hangup", "esl", "xml", "lost"}]
      /\ \A v \in Call : due'[v] # {"hangup"} => dials[v] > 0
  BY DEF HangUp, RemoveSpooled, DbDown, DbBack, vars, BookTyped, calls
<1>3. spool' \in Spools /\ reap' \in Call \cup {NoCall}
  <2>1. CASE RemoveSpooled
    <3>1. spool' = [spool EXCEPT ![reap] = NoReport] /\ reap' = NoCall /\ reap \in Call
      BY <2>1 DEF RemoveSpooled, BookTyped
    <3>2. /\ spool \in [Call -> Sound \cup {NoReport}]
          /\ \A v \in Call : spool[v] # NoReport => spool[v].u = v /\ spool[v].src = "esl"
      BY DEF BookTyped, Spools
    <3>3. spool' \in [Call -> Sound \cup {NoReport}]
      BY <3>1, <3>2
    <3>4. \A v \in Call : spool'[v] # NoReport => spool'[v].u = v /\ spool'[v].src = "esl"
      BY <3>1, <3>2
    <3> QED
      BY <3>1, <3>3, <3>4 DEF Spools
  <2>2. CASE ~RemoveSpooled
    BY <2>2 DEF HangUp, DbDown, DbBack, vars, BookTyped
  <2> QED
    BY <2>1, <2>2
<1>4. faults' \in Seq(FaultKinds) /\ Len(faults') <= MaxFaults /\ dbUp' \in BOOLEAN
  <2>1. CASE DbDown
    <3>1. dbUp' = FALSE /\ faults' = Append(faults, "db") /\ "db" \in FaultKinds /\ Len(faults) < MaxFaults
      BY <2>1 DEF DbDown, Fault
    <3>2. faults \in Seq(FaultKinds)
      BY DEF BookTyped
    <3>3. faults' \in Seq(FaultKinds) /\ Len(faults') = Len(faults) + 1 /\ Len(faults) \in Nat
      BY <3>1, <3>2, AppendProperties, LenProperties
    <3>4. Len(faults') <= MaxFaults
      BY <3>1, <3>3, CdrConstants
    <3>5. dbUp' \in BOOLEAN
      BY <3>1
    <3> QED
      BY <3>3, <3>4, <3>5
  <2>2. CASE DbBack
    BY <2>2 DEF DbBack, BookTyped
  <2>3. CASE (\E u \in Call : HangUp(u)) \/ RemoveSpooled \/ UNCHANGED vars
    BY <2>3 DEF HangUp, RemoveSpooled, vars, BookTyped
  <2> QED
    BY <2>1, <2>2, <2>3
<1>5. BookTyped' /\ WriterInv'
  BY <1>1, <1>2, <1>3, <1>4, SoundSame DEF BookTyped, WriterInv
<1> QED
  BY <1>1, <1>5, NothingWritten
-----------------------------------------------------------------------------
(* One row of a call. *)

NoFailure == "db" \notin ToSet(faults)

\* Rows are those of calls that were dialled; and as long as the database has not failed a
\* call that was dialled has a committed row, which every later writer finds, and none beside.
OneRowInv ==
    /\ \A k \in Present : dials[k[1]] > 0
    /\ NoFailure => /\ dbUp
                    /\ \A u \in Call : dials[u] > 0 => Stored(u) # {}
                    /\ \A k, j \in Present : k[1] = j[1] => k = j

\* Steps that insert nothing.
LEMMA NothingInserted ==
    ASSUME OneRowInv, UNCHANGED <<dials, dbUp, faults>>,
           \A k \in Key : /\ row[k] # NoRow => row'[k] # NoRow
                          /\ row'[k] # NoRow \/ tx'[k] # NoRow => row[k] # NoRow \/ tx[k] # NoRow
    PROVE  OneRowInv'
<1>1. Present' \subseteq Present
  BY DEF Present
<1>2. \A u \in Call : Stored(u) # {} => Stored(u)' # {}
  BY KeyFacts DEF Stored
<1> QED
  BY <1>1, <1>2 DEF OneRowInv, NoFailure

\* Steps that write under a start time that was looked up: the first writer of a call finds
\* nothing and inserts; those who come later find the row.
LEMMA OneKeyWritten ==
    ASSUME BookTyped, OneRowInv, NEW u \in Call, NEW own \in SUBSET Second, NEW t \in Start(u, own),
           UNCHANGED <<dbUp, faults>>, dials' \in [Call -> 0..MaxDials],
           \A v \in Call : v # u => dials'[v] = dials[v], dials'[u] > 0,
           \A k \in Key : /\ row[k] # NoRow => row'[k] # NoRow
                          /\ k # <<u, t>> => row'[k] = row[k] /\ tx'[k] = tx[k],
           dials[u] = 0 => row'[<<u, t>>] # NoRow
    PROVE  OneRowInv'
<1> DEFINE w == <<u, t>>
<1>1. t \in Second /\ w \in Key /\ w[1] = u
  BY StartIsKnown, KeyFacts
<1>2. Present' \subseteq Present \cup {w} /\ Present \subseteq Key
  BY DEF Present
<1>3. \A k \in Key : k[1] \in Call
  BY KeyFacts
<1>4. \A v \in Call : Stored(v) # {} => Stored(v)' # {}
  BY KeyFacts DEF Stored
<1>5. \A k \in Present : dials'[k[1]] > 0
  BY <1>2, <1>3 DEF OneRowInv
<1>6. (\A k \in Present : dials[k[1]] > 0)'
  BY <1>1, <1>2, <1>5
<1>7. ASSUME NoFailure'
      PROVE  /\ dbUp'
             /\ \A v \in Call : dials'[v] > 0 => Stored(v)' # {}
             /\ \A k, j \in Present' : k[1] = j[1] => k = j
  <2>1. NoFailure /\ dbUp'
    BY <1>7 DEF NoFailure, OneRowInv
  <2>2. CASE dials[u] = 0
    <3>1. \A k \in Present : k[1] # u
      BY <2>2 DEF OneRowInv
    <3>2. w \in Stored(u)'
      BY <1>1, <2>2 DEF Stored, Rows, Key
    <3>3. \A v \in Call : dials'[v] > 0 => Stored(v)' # {}
      BY <1>4, <2>1, <3>2 DEF OneRowInv
    <3>4. \A k, j \in Present' : k[1] = j[1] => k = j
      BY <1>1, <1>2, <2>1, <3>1 DEF OneRowInv
    <3> QED
      BY <2>1, <3>3, <3>4
  <2>3. CASE dials[u] # 0
    <3>0. dials[u] > 0
      BY <2>3, CdrConstants DEF BookTyped
    <3>1. Stored(u) # {}
      BY <2>1, <3>0 DEF OneRowInv
    <3>2. \E k \in Stored(u) : t = k[2]
      BY <2>1, <3>1 DEF Start, NoFailure
    <3>3. w \in Present
      BY <3>2, KeyFacts DEF Present
    <3>4. \A v \in Call : dials'[v] > 0 => Stored(v)' # {}
      BY <1>4, <2>1, <3>1 DEF OneRowInv
    <3>5. \A k, j \in Present' : k[1] = j[1] => k = j
      BY <1>2, <2>1, <3>3 DEF OneRowInv
    <3> QED
      BY <2>1, <3>4, <3>5
  <2> QED
    BY <2>2, <2>3
<1> QED
  BY <1>6, <1>7 DEF OneRowInv

\* Such a step that commits.
LEMMA OneKeyCommitted ==
    ASSUME BookTyped, OneRowInv, NEW u \in Call, NEW own \in SUBSET Second, NEW t \in Start(u, own),
           NEW r, r # NoRow, CommitRow(<<u, t>>, r), UNCHANGED <<tx, dials, dbUp, faults>>, dials[u] > 0
    PROVE  OneRowInv'
<1>1. t \in Second /\ <<u, t>> \in Key
  BY StartIsKnown, KeyFacts
<1>2. row' = [row EXCEPT ![<<u, t>>] = r] /\ row \in [Key -> Row]
  BY DEF CommitRow, BookTyped
<1>3. \A k \in Key : /\ row[k] # NoRow => row'[k] # NoRow
                     /\ k # <<u, t>> => row'[k] = row[k] /\ tx'[k] = tx[k]
  BY <1>1, <1>2
<1>4. dials' \in [Call -> 0..MaxDials] /\ (\A v \in Call : v # u => dials'[v] = dials[v]) /\ dials'[u] > 0
      /\ dials[u] # 0
  BY CdrConstants DEF BookTyped
<1> QED
  BY <1>3, <1>4, OneKeyWritten

\* Such a step of the open transaction.
LEMMA OneKeyInTx ==
    ASSUME BookTyped, OneRowInv, NEW u \in Call, NEW own \in SUBSET Second, NEW t \in Start(u, own),
           NEW r, WriteRow(<<u, t>>, r), UNCHANGED <<row, dials, dbUp, faults>>, dials[u] > 0
    PROVE  OneRowInv'
<1>1. t \in Second /\ <<u, t>> \in Key
  BY StartIsKnown, KeyFacts
<1>2. tx' = [tx EXCEPT ![<<u, t>>] = r] /\ tx \in [Key -> Row]
  BY DEF WriteRow, BookTyped
<1>3. \A k \in Key : /\ row[k] # NoRow => row'[k] # NoRow
                     /\ k # <<u, t>> => row'[k] = row[k] /\ tx'[k] = tx[k]
  BY <1>1, <1>2
<1>4. dials' \in [Call -> 0..MaxDials] /\ (\A v \in Call : v # u => dials'[v] = dials[v]) /\ dials'[u] > 0
      /\ dials[u] # 0
  BY CdrConstants DEF BookTyped
<1> QED
  BY <1>3, <1>4, OneKeyWritten

LEMMA PreInsertOne ==
    ASSUME BookInv, OneRowInv, NEW u \in Call, PreInsert(u) PROVE OneRowInv'
<1>1. dials \in [Call -> 0..MaxDials] /\ dials[u] < MaxDials /\ dials' = [dials EXCEPT ![u] = @ + 1]
  BY DEF PreInsert, BookInv, BookTyped
<1>2. dials' \in [Call -> 0..MaxDials] /\ (\A v \in Call : v # u => dials'[v] = dials[v]) /\ dials'[u] > 0
  BY <1>1, CdrConstants
<1>3. UNCHANGED <<tx, dbUp, faults>>
  BY DEF PreInsert, write
<1>4. CASE dbUp
  <2>1. PICK t \in Start(u, DialStart) :
           IF row[<<u, t>>] = NoRow THEN CommitRow(<<u, t>>, Opened) ELSE UNCHANGED rows
    BY <1>4 DEF PreInsert
  <2>2. DialStart \in SUBSET Second
    BY DEF Second
  <2>3. <<u, t>> \in Key
    BY <2>2, StartIsKnown, KeyFacts
  <2>4. row \in [Key -> Row] /\ Opened # NoRow
    BY RowFacts DEF BookInv, BookTyped
  <2>5. /\ \A k \in Key : /\ row[k] # NoRow => row'[k] # NoRow
                          /\ k # <<u, t>> => row'[k] = row[k] /\ tx'[k] = tx[k]
        /\ row'[<<u, t>>] # NoRow
    BY <1>3, <2>1, <2>3, <2>4 DEF CommitRow, rows
  <2> QED
    BY <1>2, <1>3, <2>2, <2>5, OneKeyWritten DEF BookInv
<1>5. CASE ~dbUp
  <2>1. ~NoFailure' /\ UNCHANGED rows
    BY <1>3, <1>5 DEF OneRowInv, NoFailure, PreInsert
  <2>2. (\A k \in Present : dials[k[1]] > 0)'
    <3>1. Present' = Present
      BY <1>3, <2>1 DEF Present, rows
    <3>2. \A k \in Present : k[1] \in Call /\ dials[k[1]] > 0
      BY KeyFacts DEF Present, OneRowInv
    <3> QED
      BY <1>1, <1>2, <3>1, <3>2, CdrConstants
  <2> QED
    BY <2>1, <2>2 DEF OneRowInv
<1> QED
  BY <1>4, <1>5

\* The report of a call that was dialled finds its row.
LEMMA EnqueueOne ==
    ASSUME BookInv, OneRowInv, NEW r \in Report, dials[r.u] > 0, r.src = "esl" => r \in Sound, Enqueue(r),
           UNCHANGED <<tx, dials, dbUp, faults>>
    PROVE  OneRowInv'
<1>1. r.u \in Call /\ r.start \in Second /\ {r.start} \in SUBSET Second
  BY ReportFacts
<1>2. CASE UNCHANGED rows
  BY <1>2, NothingInserted DEF rows
<1>3. CASE RunNow(r)
  <2>1. CASE r.src = "esl"
    <3>1. PICK t \in Start(r.u, {r.start}) : CommitRow(<<r.u, t>>, EslWrite(row[<<r.u, t>>], r.told))
      BY <1>3, <2>1 DEF RunNow
    <3>2. EslWrite(row[<<r.u, t>>], r.told).st = "final"
      BY DEF EslWrite
    <3>3. EslWrite(row[<<r.u, t>>], r.told) # NoRow
      BY <3>2 DEF NoRow
    <3> QED
      BY <1>1, <3>1, <3>3, OneKeyCommitted DEF BookInv
  <2>2. CASE r.src # "esl"
    <3>1. PICK k \in IF Stored(r.u) = {} THEN {<<r.u, r.start>>} ELSE Stored(r.u) :
             \E t \in Start(r.u, {k[2]}) : \E new \in XmlPatch(row[k], r.u) : CommitRow(<<r.u, t>>, new)
      BY <1>3, <2>2 DEF RunNow
    <3>2. k \in Key /\ k[1] = r.u /\ {k[2]} \in SUBSET Second
      BY <1>1, KeyFacts
    <3>3. PICK t \in Start(r.u, {k[2]}), new \in XmlPatch(row[k], r.u) : CommitRow(<<r.u, t>>, new)
      BY <3>1
    <3>4. row[k] \in Row /\ Backed(row[k], r.u)
      BY <3>2 DEF BookInv, BookTyped, RowsBacked
    <3>5. new # NoRow
      BY <1>1, <3>4, XmlPatchKeeps
    <3> QED
      BY <1>1, <3>2, <3>3, <3>5, OneKeyCommitted DEF BookInv
  <2> QED
    BY <2>1, <2>2
<1> QED
  BY <1>2, <1>3 DEF Enqueue

LEMMA ReportOne ==
    ASSUME BookInv, OneRowInv, NEW u \in Call, EslReport(u) \/ XmlReport(u) PROVE OneRowInv'
<1>1. dials[u] > 0
  <2>1. due[u] # {"hangup"}
    BY DEF EslReport, XmlReport
  <2> QED
    BY <2>1 DEF BookInv, BookTyped
<1>2. UNCHANGED <<tx, dials, dbUp, faults>>
  BY DEF EslReport, XmlReport
<1>3. CASE EslReport(u)
  <2>1. PICK kind \in EslKinds \ {"lost"} :
           /\ kind = "full" => u \in Answered
           /\ \E told \in EslTold(kind), t \in Start(u, EslStart) :
                 Enqueue([src |-> "esl", u |-> u, start |-> t, told |-> told])
    BY <1>3 DEF EslReport
  <2>2. PICK told \in EslTold(kind), t \in Start(u, EslStart) :
           Enqueue([src |-> "esl", u |-> u, start |-> t, told |-> told])
    BY <2>1
  <2>3. told \in Told /\ (kind # "full" => told.degraded) /\ t \in Second
    BY EslToldSound, StartIsKnown, CdrConstants DEF Second
  <2> DEFINE r == [src |-> "esl", u |-> u, start |-> t, told |-> told]
  <2>4. r \in Report /\ r.src = "esl" /\ r.u = u /\ r.told = told
    BY <2>3 DEF Report
  <2>5. Enqueue(r)
    BY <2>2
  <2> HIDE DEF r
  <2>6. r \in Sound
    BY <1>1, <2>1, <2>3, <2>4 DEF Sound
  <2> QED
    BY <1>1, <1>2, <2>4, <2>5, <2>6, EnqueueOne
<1>4. CASE XmlReport(u)
  <2>1. PICK t \in XmlStart : Enqueue([src |-> "xml", u |-> u, start |-> t])
    BY <1>4 DEF XmlReport
  <2> DEFINE r == [src |-> "xml", u |-> u, start |-> t]
  <2>2. r \in Report /\ r.src = "xml" /\ r.u = u
    BY DEF Report, Second
  <2>3. Enqueue(r)
    BY <2>1
  <2> HIDE DEF r
  <2> QED
    BY <1>1, <1>2, <2>2, <2>3, EnqueueOne
<1> QED
  BY <1>3, <1>4

LEMMA WriterOne ==
    ASSUME BookInv, OneRowInv, Writer PROVE OneRowInv'
<1> USE DEF BookInv
<1>0. UNCHANGED <<dials, dbUp, faults>>
  BY DEF Writer, TakeBatch, RetryOne, RunEsl, ReadXml, WriteXml, RunFails, Commit, CommitFails, calls
<1>1. CASE TakeBatch \/ RetryOne \/ ReadXml \/ RunFails
  <2>1. UNCHANGED <<row, tx>>
    BY <1>1 DEF TakeBatch, RetryOne, ReadXml, RunFails, rows
  <2> QED
    BY <1>0, <2>1, NothingInserted
<1>2. CASE RunEsl
  <2> DEFINE r == Head(wr.todo)
  <2>1. r \in Sound /\ r.u \in Call /\ r.start \in Second /\ dials[r.u] > 0
    BY <1>2, DoneWriter, RowFacts, ReportFacts DEF RunEsl, Sound
  <2>2. PICK t \in Start(r.u, {r.start}) : WriteRow(<<r.u, t>>, EslWrite(Written(<<r.u, t>>), r.told))
    BY <1>2 DEF RunEsl
  <2>3. UNCHANGED row
    BY <1>2 DEF RunEsl
  <2> HIDE DEF r
  <2> QED
    BY <1>0, <2>1, <2>2, <2>3, OneKeyInTx
<1>3. CASE WriteXml
  <2> DEFINE u == Head(wr.todo).u
  <2>1. u \in Call /\ wr.start \in Second /\ dials[u] > 0
    BY <1>3, DoneWriter DEF WriteXml, WriterInv, Sound
  <2>2. PICK t \in Start(u, {wr.start}), new \in XmlPatch(wr.seen, u) : WriteRow(<<u, t>>, new)
    BY <1>3 DEF WriteXml
  <2>3. UNCHANGED row
    BY <1>3 DEF WriteXml
  <2> HIDE DEF u
  <2> QED
    BY <1>0, <2>1, <2>2, <2>3, OneKeyInTx
<1>4. CASE Commit
  <2>1. \A k \in Key : row'[k] = (IF tx[k] = NoRow THEN row[k] ELSE tx[k]) /\ tx'[k] = NoRow
    BY <1>4 DEF Commit, EndTx, Written
  <2> QED
    BY <1>0, <2>1, NothingInserted
<1>5. CASE CommitFails
  <2>1. \A k \in Key : row'[k] = row[k] /\ tx'[k] = NoRow
    BY <1>5 DEF CommitFails, EndTx
  <2> QED
    BY <1>0, <2>1, NothingInserted
<1> QED
  BY <1>1, <1>2, <1>3, <1>4, <1>5 DEF Writer

LEMMA ReplayOne ==
    ASSUME BookInv, OneRowInv, NEW u \in Call, Replay(u) PROVE OneRowInv'
<1> DEFINE r == spool[u]
<1>1. r \in Sound /\ r.u = u /\ r.start \in Second
  BY RowFacts, ReportFacts DEF Replay, BookInv, BookTyped, Spools
<1>2. PICK t \in Start(u, {r.start}) : CommitRow(<<u, t>>, EslWrite(row[<<u, t>>], r.told))
  BY DEF Replay
<1>3. UNCHANGED <<tx, dials, dbUp, faults>>
  BY DEF Replay, calls, write
<1>4. dials[u] > 0
  BY <1>1 DEF Sound
<1> HIDE DEF r
<1>5. EslWrite(row[<<u, t>>], r.told).st = "final"
  BY DEF EslWrite
<1>6. EslWrite(row[<<u, t>>], r.told) # NoRow
  BY <1>5 DEF NoRow
<1> QED
  BY <1>1, <1>2, <1>3, <1>4, <1>6, OneKeyCommitted DEF BookInv

\* Steps that change rows in place, or none.
LEMMA OthersOne ==
    ASSUME BookInv, OneRowInv,
           \/ \E u \in Call : HangUp(u) \/ Finalize(u)
           \/ RemoveSpooled \/ DbBack \/ UNCHANGED vars
           \/ \E s \in Sweeper : Select(s) \/ Charge(s)
           \/ DbDown \/ Crash
    PROVE  OneRowInv'
<1>1. \A k \in Key : (row[k] # NoRow <=> row'[k] # NoRow) /\ (tx'[k] # NoRow => tx[k] # NoRow)
  <2>1. CASE \/ \E u \in Call : HangUp(u)
             \/ RemoveSpooled \/ DbDown \/ DbBack \/ UNCHANGED vars \/ \E s \in Sweeper : Select(s)
    BY <2>1 DEF HangUp, RemoveSpooled, DbDown, DbBack, Select, vars, rows, write
  <2>2. CASE \E u \in Call : Finalize(u)
    <3>1. PICK u \in Call : Finalize(u)
      BY <2>2
    <3>2. \A k \in Key : row'[k] = row[k] \/ (row[k].st = "open" /\ row'[k] = [row[k] EXCEPT !.st = "final"])
      BY <3>1 DEF Finalize
    <3>3. \A r \in Row : r.st = "open" => r # NoRow
      BY DEF NoRow
    <3>4. \A r \in Row : [r EXCEPT !.st = "final"] \in Row /\ [r EXCEPT !.st = "final"].st = "final"
      BY DEF Row
    <3>5. \A k \in Key : row[k] \in Row
      BY DEF BookInv, BookTyped
    <3>6. UNCHANGED tx
      BY <3>1 DEF Finalize, write
    <3>7. \A r \in Row : r.st = "final" => r # NoRow
      BY ClosedRow
    <3>8. \A k \in Key : row'[k] = row[k] \/ (row[k] # NoRow /\ row'[k] # NoRow)
      BY <3>2, <3>3, <3>4, <3>5, <3>7
    <3> QED
      BY <3>6, <3>8
  <2>3. CASE \E s \in Sweeper : Charge(s)
    <3>1. PICK s \in Sweeper : Charge(s)
      BY <2>3
    <3>2. \A k \in Key : row'[k] = row[k] \/ (row[k] # NoRow /\ row'[k] = [row[k] EXCEPT !.billed = TRUE])
      BY <3>1 DEF Charge, Billed, Stored
    <3>3. \A r \in Row : [r EXCEPT !.billed = TRUE].billed
      BY DEF Row
    <3>4. ~NoRow.billed
      BY DEF NoRow
    <3>5. \A k \in Key : row[k] \in Row
      BY DEF BookInv, BookTyped
    <3>6. UNCHANGED tx
      BY <3>1 DEF Charge, write
    <3>7. \A r \in Row : [r EXCEPT !.billed = TRUE] # NoRow
      BY <3>3, <3>4
    <3>8. \A k \in Key : row'[k] = row[k] \/ (row[k] # NoRow /\ row'[k] # NoRow)
      BY <3>2, <3>5, <3>7
    <3> QED
      BY <3>6, <3>8
  <2>4. CASE Crash
    BY <2>4 DEF Crash, EndTx
  <2> QED
    BY <2>1, <2>2, <2>3, <2>4
<1>2. UNCHANGED dials
  BY DEF HangUp, Finalize, RemoveSpooled, DbDown, DbBack, Select, Charge, Crash, vars, calls
<1>3. Present' \subseteq Present /\ \A u \in Call : Stored(u)' = Stored(u)
  BY <1>1, KeyFacts DEF Present, Stored, Rows, Key
<1>4. ASSUME NoFailure' PROVE NoFailure /\ (dbUp => dbUp')
  <2>1. CASE DbDown \/ Crash
    <3>1. PICK kind \in {"db", "crash"} : faults' = Append(faults, kind) /\ (kind = "crash" \/ DbDown)
      BY <2>1 DEF DbDown, Crash, Fault
    <3>2. faults \in Seq(FaultKinds) /\ Len(faults) \in Nat /\ kind \in FaultKinds
      BY <2>1, <3>1, LenProperties DEF DbDown, Crash, Fault, BookInv, BookTyped
    <3>3. /\ Len(faults') = Len(faults) + 1 /\ faults'[Len(faults) + 1] = kind
          /\ \A i \in 1..Len(faults) : faults'[i] = faults[i]
          /\ DOMAIN faults' = 1..(Len(faults) + 1) /\ DOMAIN faults = 1..Len(faults)
      BY <3>1, <3>2, AppendProperties, LenProperties
    <3>4. ToSet(faults') = ToSet(faults) \cup {kind}
      BY <3>2, <3>3 DEF ToSet
    <3>5. NoFailure /\ kind = "crash"
      BY <1>4, <3>1, <3>4 DEF NoFailure
    <3>6. ~DbDown
      <4>1. DbDown => faults'[Len(faults) + 1] = "db"
        BY <3>2, AppendProperties DEF DbDown, Fault
      <4> QED
        BY <3>3, <3>5, <4>1
    <3>7. UNCHANGED dbUp
      BY <2>1, <3>6 DEF Crash
    <3> QED
      BY <3>5, <3>7
  <2>2. CASE ~(DbDown \/ Crash)
    <3>1. UNCHANGED faults
      BY <2>2 DEF HangUp, Finalize, RemoveSpooled, DbBack, Select, Charge, vars
    <3>2. dbUp => dbUp'
      BY <2>2 DEF HangUp, Finalize, RemoveSpooled, DbBack, Select, Charge, vars
    <3> QED
      BY <1>4, <3>1, <3>2 DEF NoFailure
  <2> QED
    BY <2>1, <2>2
<1>5. (\A k \in Present : dials[k[1]] > 0)'
  BY <1>2, <1>3 DEF OneRowInv
<1>6. ASSUME NoFailure'
      PROVE  /\ dbUp' /\ \A u \in Call : dials'[u] > 0 => Stored(u)' # {}
             /\ \A k, j \in Present' : k[1] = j[1] => k = j
  BY <1>2, <1>3, <1>4, <1>6 DEF OneRowInv
<1> QED
  BY <1>5, <1>6 DEF OneRowInv
-----------------------------------------------------------------------------
(* The theorems. *)

LEMMA BookInit == Init => BookInv /\ OneRowInv
<1> SUFFICES ASSUME Init PROVE BookInv /\ OneRowInv
  OBVIOUS
<1> USE DEF Init
<1>1. /\ \A S : <<>> \in Seq(S)
      /\ Len(<<>>) = 0 /\ ToSet(<<>>) = {}
  BY EmptySeq DEF ToSet
<1>2. BookTyped /\ WriterInv
  BY <1>1, RowFacts, IdleWriter, CdrConstants DEF BookTyped, WriterInv, Spools
<1>3. RowsBacked
  BY RowFacts, IdleWriter DEF RowsBacked
<1>4. OneRowInv
  <2>1. Present = {}
    BY DEF Present
  <2> QED
    BY <2>1 DEF OneRowInv
<1> QED
  BY <1>2, <1>3, <1>4 DEF BookInv

LEMMA BookStep ==
    BookInv /\ [Next]_vars => /\ BookInv' /\ RowsKept
                              /\ UNCHANGED <<ledger, debit>> \/ AccountPaysOnce!PayNext
<1> SUFFICES ASSUME BookInv, [Next]_vars
             PROVE  /\ BookInv' /\ RowsKept
                    /\ UNCHANGED <<ledger, debit>> \/ AccountPaysOnce!PayNext
  OBVIOUS
<1>1. ASSUME NEW u \in Call, PreInsert(u) PROVE BookInv' /\ RowsKept /\ UNCHANGED <<ledger, debit>>
  BY <1>1, PreInsertStep DEF PreInsert, money
<1>2. ASSUME NEW u \in Call, EslReport(u) \/ XmlReport(u)
      PROVE  BookInv' /\ RowsKept /\ UNCHANGED <<ledger, debit>>
  BY <1>2, ReportStep DEF EslReport, XmlReport
<1>3. ASSUME NEW u \in Call, Finalize(u) PROVE BookInv' /\ RowsKept /\ UNCHANGED <<ledger, debit>>
  BY <1>3, FinalizeStep DEF Finalize, money
<1>4. CASE TakeBatch \/ RetryOne \/ RunFails
  BY <1>4, TakeBatchStep, RetryOneStep, RunFailsStep DEF TakeBatch, RetryOne, RunFails, money
<1>5. CASE RunEsl \/ ReadXml \/ WriteXml
  BY <1>5, RunEslStep, ReadXmlStep, WriteXmlStep DEF RunEsl, ReadXml, WriteXml, money
<1>6. CASE Commit \/ CommitFails
  BY <1>6, CommitStep, CommitFailsStep DEF Commit, CommitFails, money
<1>7. ASSUME NEW u \in Call, Replay(u) PROVE BookInv' /\ RowsKept /\ UNCHANGED <<ledger, debit>>
  BY <1>7, ReplayStep DEF Replay, money
<1>8. ASSUME NEW s \in Sweeper, Select(s) PROVE BookInv' /\ RowsKept /\ UNCHANGED <<ledger, debit>>
  BY <1>8, SelectStep DEF Select, money
<1>9. ASSUME NEW s \in Sweeper, Charge(s)
      PROVE  BookInv' /\ RowsKept /\ (UNCHANGED <<ledger, debit>> \/ AccountPaysOnce!PayNext)
  BY <1>9, ChargeStep
<1>10. CASE Crash
  BY <1>10, CrashStep DEF Crash, money
<1>11. CASE (\E u \in Call : HangUp(u)) \/ RemoveSpooled \/ DbDown \/ DbBack \/ UNCHANGED vars
  BY <1>11, OtherStep DEF HangUp, RemoveSpooled, DbDown, DbBack, vars, money
<1> QED
  BY <1>1, <1>2, <1>3, <1>4, <1>5, <1>6, <1>7, <1>8, <1>9, <1>10, <1>11 DEF Next, Writer, Reaper

LEMMA OneRowStep == BookInv /\ OneRowInv /\ [Next]_vars => OneRowInv'
<1> SUFFICES ASSUME BookInv, OneRowInv, [Next]_vars PROVE OneRowInv'
  OBVIOUS
<1>1. ASSUME NEW u \in Call, PreInsert(u) PROVE OneRowInv'
  BY <1>1, PreInsertOne
<1>2. ASSUME NEW u \in Call, EslReport(u) \/ XmlReport(u) PROVE OneRowInv'
  BY <1>2, ReportOne
<1>3. CASE Writer
  BY <1>3, WriterOne
<1>4. ASSUME NEW u \in Call, Replay(u) PROVE OneRowInv'
  BY <1>4, ReplayOne
<1>5. CASE \/ \E u \in Call : HangUp(u) \/ Finalize(u)
           \/ RemoveSpooled \/ DbBack \/ UNCHANGED vars
           \/ \E s \in Sweeper : Select(s) \/ Charge(s)
           \/ DbDown \/ Crash
  BY <1>5, OthersOne
<1> QED
  BY <1>1, <1>2, <1>3, <1>4, <1>5 DEF Next, Reaper

LEMMA BookInvHolds == Spec => []BookInv
<1>1. Init => BookInv
  BY BookInit
<1> QED
  BY <1>1, BookStep, PTL DEF Spec

\* Whatever is queued, retried, spooled and replayed, every variable keeps its type: what
\* waits anywhere is a report, and the writer thread writes under start times that some
\* writer has brought.
THEOREM BookTypeCorrect == Spec => []TypeOK
<1>1. BookInv => TypeOK
  <2> SUFFICES ASSUME BookInv PROVE TypeOK
    OBVIOUS
  <2> USE DEF BookInv, BookTyped
  <2>1. \A seq \in Seq(Sound) : seq \in Seq(Report)
    BY RowFacts, SeqMonotonic
  <2>2. queue \in Seq(Report)
    BY <2>1
  <2>3. wr \in [pc : {"idle", "exec", "read"}, batch : Seq(Report), todo : Seq(Report),
                failed : Seq(Report), redo : Seq(Report), single : BOOLEAN, seen : Row,
                start : Second \cup {0}]
    BY <2>1 DEF WriterState
  <2>4. spool \in [Call -> Report \cup {NoReport}]
    BY RowFacts DEF Spools
  <2> QED
    BY <2>2, <2>3, <2>4 DEF TypeOK
<1> QED
  BY <1>1, BookInvHolds, PTL

\* The start time that every writer looks up keeps a call to one row, whichever of them
\* comes first, in the open transaction too, as long as the database has not failed.
THEOREM OneRowAlways == Spec => []OneRowPerCall
<1>1. Init => OneRowInv
  BY BookInit
<1>2. OneRowInv => OneRowPerCall
  BY DEF OneRowInv, OneRowPerCall, NoFailure
<1> QED
  BY <1>1, <1>2, OneRowStep, BookInvHolds, PTL DEF Spec

\* No write of a report marks a call as paid: the flag of a row is never ahead of the ledger,
\* however old the copy of the row is that the writer thread puts back.
THEOREM BilledAlwaysPaid == Spec => []BilledIsPaid
<1>1. BookInv => BilledIsPaid
  BY DEF BookInv, RowsBacked, Backed, BilledIsPaid
<1> QED
  BY <1>1, BookInvHolds, PTL

\* No report takes a price away that has not looked for one in vain, and no late dialplan
\* request reopens a row, whichever row of a call they are written to.
THEOREM RowAlwaysKept == Spec => RowIsKept
<1>1. BookInv /\ [Next]_vars =>
        [\A k \in Key : /\ row[k].cost > 0 => row'[k].cost > 0 \/ k[1] \in unpriced'
                        /\ row[k].st = "final" => row'[k].st = "final"]_vars
  BY BookStep DEF RowsKept
<1> QED
  BY <1>1, BookInvHolds, PTL DEF Spec, RowIsKept

\* The whole of the writers, the reaper, the sweepers and the faults implements ChargeOnce:
\* the account of a call pays for it at most once, and pays what the ledger says.
THEOREM BookImplementsChargeOnce == Spec => PaysOnce
<1>1. Init => AccountPaysOnce!NothingPaid
  BY DEF Init, AccountPaysOnce!NothingPaid
<1>2. BookInv /\ [Next]_vars => [AccountPaysOnce!PayNext]_<<ledger, debit>>
  BY BookStep
<1> QED
  BY <1>1, <1>2, BookInvHolds, PTL DEF Spec, PaysOnce, AccountPaysOnce!ChargeSpec
=============================================================================
