----------------------------- MODULE ShadowCount -----------------------------
(***************************************************************************)
(* The counters the gateway process keeps in memory (_conc, the only ones  *)
(* in local mode) and the records of _call_store they are counted from.    *)
(* The worker handles the events of FreeSWITCH one by one, an A leg and    *)
(* the B legs dialled for it each with events of their own; the reconcile  *)
(* thread takes away the records whose channel is not listed.              *)
(*                                                                         *)
(* A leg <<c, 0>> is the A leg of call c, <<c, n>> its n-th B leg.         *)
(*                                                                         *)
(* A definition named X_Something is X with a plausible bug, kept to show  *)
(* which property finds it; no specification uses it.                      *)
(***************************************************************************)
EXTENDS Integers, FiniteSets, SequencesExt

CONSTANTS
    Call, Gateway,
    Route,          \* the gateways of the document of a call, in order
    Reconciles,     \* does the reconcile thread run
    MaxTrouble,     \* bound: lost events and restarts of the process
    MaxQueue,       \* bound: events waiting for the worker
    NoLeg, NoGw

ShadowCountConstants ==
    /\ Route \in Seq(Gateway) /\ Len(Route) > 0 /\ Reconciles \in BOOLEAN
    /\ MaxTrouble \in Nat /\ MaxQueue \in Nat /\ NoGw \notin Gateway
    /\ IsFiniteSet(Call) /\ NoLeg \notin Call \X (0..Len(Route))

ASSUME ShadowAssumption == ShadowCountConstants

VARIABLES
    chan,           \* FreeSWITCH: state of a call, its latest B leg and whether that is up
    evq, work,      \* events queued, and what the worker is at
    store,          \* _call_store
    global, gw,     \* _conc
    rc,             \* the reconcile thread
    cdrs,           \* history: the legs a CDR was booked of
    trouble

vars == <<chan, evq, work, store, global, gw, rc, cdrs, trouble>>

Legs == 0..Len(Route)
Leg == Call \X Legs
A(c) == <<c, 0>>

NoRec == [in |-> FALSE, gw |-> NoGw, counted |-> FALSE, countedGw |-> FALSE, merged |-> FALSE]
NewRec == [NoRec EXCEPT !.in = TRUE]
Record == [in : BOOLEAN, gw : Gateway \cup {NoGw}, counted : BOOLEAN, countedGw : BOOLEAN, merged : BOOLEAN]

Rest == [pc |-> "rest"]
Asleep == [pc |-> "sleep"]

Known(l) == l # NoLeg /\ store[l].in

Init ==
    /\ chan = [c \in Call |-> [state |-> "new", leg |-> 0, up |-> FALSE]]
    /\ evq = <<>> /\ work = Rest
    /\ store = [l \in Leg |-> NoRec] /\ global = 0 /\ gw = [g \in Gateway |-> 0]
    /\ rc = Asleep /\ cdrs = {} /\ trouble = 0
-----------------------------------------------------------------------------
(* FreeSWITCH. *)

\* Events are queued for the worker; each may be lost.
Emit(es) ==
    /\ Len(evq) + Len(es) <= MaxQueue
    /\ \E kept \in {es} \cup (IF trouble < MaxTrouble THEN {RemoveAt(es, i) : i \in 1..Len(es)} ELSE {}) :
        evq' = evq \o kept /\ trouble' = trouble + Len(es) - Len(kept)
    /\ UNCHANGED <<work, store, global, gw, rc, cdrs>>

Ev(type, leg, other, g) == [type |-> type, leg |-> leg, other |-> other, gw |-> g]

Start(c) ==
    /\ chan[c].state = "new"
    /\ chan' = [chan EXCEPT ![c].state = "up"]
    /\ Emit(<<Ev("create", A(c), NoLeg, NoGw)>>)

Dial(c) ==
    /\ chan[c].state = "up" /\ ~chan[c].up /\ chan[c].leg < Len(Route)
    /\ chan' = [chan EXCEPT ![c].leg = @ + 1, ![c].up = TRUE]
    /\ Emit(<<Ev("create", <<c, chan[c].leg + 1>>, A(c), NoGw)>>)

BLeg(c) == <<c, chan[c].leg>>

\* Progress, answer and bridge of the A leg carry its variables and name the B leg.
Report(c) ==
    /\ chan[c].up /\ UNCHANGED chan
    /\ Emit(<<Ev("report", A(c), BLeg(c), Route[chan[c].leg])>>)

Fail(c) ==
    /\ chan[c].up
    /\ chan' = [chan EXCEPT ![c].up = FALSE]
    /\ Emit(<<Ev("hangup", BLeg(c), A(c), NoGw)>>)

\* The hangup of the A leg may come without its variables, and before that of the B leg.
End(c) ==
    /\ chan[c].state = "up"
    /\ chan' = [chan EXCEPT ![c].state = "gone", ![c].up = FALSE]
    /\ \E g \in {NoGw} \cup (IF chan[c].leg = 0 THEN {} ELSE {Route[chan[c].leg]}) :
        LET b == IF chan[c].leg = 0 THEN NoLeg ELSE BLeg(c)
            a == Ev("hangup", A(c), b, g)
            bye == Ev("hangup", b, A(c), NoGw)
        IN  IF chan[c].up THEN Emit(<<a, bye>>) \/ Emit(<<bye, a>>) ELSE Emit(<<a>>)

Channel(c) == Start(c) \/ Dial(c) \/ Report(c) \/ Fail(c) \/ End(c)

LiveLegs == {A(c) : c \in {d \in Call : chan[d].state = "up"}} \cup {BLeg(c) : c \in {d \in Call : chan[d].up}}
-----------------------------------------------------------------------------
(* Counting a record in and out: what it adds to, or takes from, the counters. *)

\* Every event counts.
X_CountIn(r) ==
    /\ global' = global + 1
    /\ gw' = IF r.gw = NoGw \/ r.countedGw THEN gw ELSE [gw EXCEPT ![r.gw] = @ + 1]

CountIn(r) ==
    /\ global' = IF r.counted THEN global ELSE global + 1
    /\ gw' = IF r.gw = NoGw \/ r.countedGw THEN gw ELSE [gw EXCEPT ![r.gw] = @ + 1]

Counted(r) == [r EXCEPT !.counted = TRUE, !.countedGw = r.countedGw \/ r.gw # NoGw]

Less(n) == IF n = 0 THEN 0 ELSE n - 1

\* The gateway the record names now is counted down.
CountOut(r) ==
    /\ global' = IF r.counted THEN Less(global) ELSE global
    /\ gw' = IF r.gw = NoGw \/ ~r.countedGw THEN gw ELSE [gw EXCEPT ![r.gw] = Less(@)]
-----------------------------------------------------------------------------
(* The worker. *)

\* The record of a leg with new fields, made if there is none.
Upserted(r, g) == [(IF r.in THEN r ELSE NewRec) EXCEPT !.gw = g]

\* What is left of an event after counting: a new leg is counted last.
Uncounted(e) == IF e.type = "create" THEN Rest ELSE [pc |-> "type", e |-> e]

\* An event is taken; its variables, if it has any, go to the records of both legs.  That
\* of a B leg whose A leg is known is not counted.
Take ==
    /\ work = Rest /\ evq # <<>>
    /\ evq' = Tail(evq)
    /\ LET e == Head(evq)
           isB == Known(e.other) /\ ~store[e.other].merged
       IN  IF e.gw = NoGw
           THEN work' = [pc |-> "type", e |-> e] /\ UNCHANGED store
           ELSE /\ store' = [l \in Leg |-> IF l \in {e.leg, e.other} THEN Upserted(store[l], e.gw) ELSE store[l]]
                /\ work' = IF isB THEN [pc |-> "type", e |-> e] ELSE [pc |-> "get", e |-> e]
    /\ UNCHANGED <<chan, global, gw, rc, cdrs, trouble>>

\* _maybe_count_leg gets the record, if it is there and no B leg's, ...
Get ==
    /\ work.pc = "get"
    /\ work' = IF Known(work.e.leg) /\ ~store[work.e.leg].merged
               THEN [pc |-> "count", e |-> work.e, at |-> "store", r |-> NoRec]
               ELSE Uncounted(work.e)
    /\ UNCHANGED <<chan, evq, store, global, gw, rc, cdrs, trouble>>

\* ... and counts it where it then is: in the store, taken away by the reconcile
\* thread, or counted out by it already.
Count ==
    /\ work.pc = "count"
    /\ LET l == work.e.leg
           r == CASE work.at = "store" -> store[l] [] work.at = "rc" -> rc.r [] OTHER -> work.r
       IN  /\ CountIn(r)
           /\ store' = IF work.at = "store" THEN [store EXCEPT ![l] = Counted(r)] ELSE store
           /\ rc' = IF work.at = "rc" THEN [rc EXCEPT !.r = Counted(r)] ELSE rc
    /\ work' = Uncounted(work.e)
    /\ UNCHANGED <<chan, evq, cdrs, trouble>>

\* A leg created for a known one is merged into it, any other is counted.
Create(e) ==
    IF Known(e.other)
    THEN store' = [store EXCEPT ![e.leg] = [NewRec EXCEPT !.merged = TRUE]] /\ work' = Rest
    ELSE store' = [store EXCEPT ![e.leg] = IF @.in THEN @ ELSE NewRec] /\ work' = [pc |-> "get", e |-> e]

\* Times of ringing and answering go to a record, made if there is none.
Times(e) ==
    store' = [store EXCEPT ![e.leg] = IF @.in THEN @ ELSE NewRec] /\ work' = Rest

ByType ==
    /\ work.pc = "type" /\ work.e.type # "hangup"
    /\ IF work.e.type = "create" THEN Create(work.e) ELSE Times(work.e)
    /\ UNCHANGED <<chan, evq, global, gw, rc, cdrs, trouble>>

\* A B leg's record is dropped; an A leg without a record is booked from the event.
HangupGet ==
    /\ work.pc = "type" /\ work.e.type = "hangup"
    /\ LET l == work.e.leg IN
        IF Known(l) /\ ~store[l].merged
        THEN work' = [pc |-> "drop", e |-> work.e, at |-> "store", r |-> NoRec] /\ UNCHANGED <<store, cdrs>>
        ELSE /\ work' = Rest
             /\ store' = [store EXCEPT ![l] = NoRec]
             /\ cdrs' = IF Known(l) THEN cdrs ELSE cdrs \cup {l}
    /\ UNCHANGED <<chan, evq, global, gw, rc, trouble>>

\* An A leg is counted out and booked; the reconcile thread may have counted it out.
Drop ==
    /\ work.pc = "drop"
    /\ LET l == work.e.leg IN
        /\ IF work.at = "store"
           THEN CountOut(store[l]) /\ store' = [store EXCEPT ![l] = NoRec]
                /\ rc' = IF rc.pc = "heal" THEN [rc EXCEPT !.todo = @ \ {l}] ELSE rc
           ELSE UNCHANGED <<global, gw, store, rc>>
        /\ cdrs' = cdrs \cup {l}
    /\ work' = Rest
    /\ UNCHANGED <<chan, evq, trouble>>

Worker == Take \/ Get \/ Count \/ ByType \/ HangupGet \/ Drop
-----------------------------------------------------------------------------
(* The reconcile thread. *)

ListChannels ==
    /\ Reconciles /\ rc = Asleep
    /\ rc' = [pc |-> "look", live |-> LiveLegs]
    /\ UNCHANGED <<chan, evq, work, store, global, gw, cdrs, trouble>>

\* Records that wait for a gateway are left alone.
X_Look ==
    /\ rc.pc = "look"
    /\ LET leaks == {l \in Leg : store[l].in /\ ~store[l].merged /\ store[l].countedGw} \ rc.live
       IN  rc' = IF leaks = {} THEN Asleep ELSE [pc |-> "heal", todo |-> leaks, leg |-> NoLeg, r |-> NoRec]
    /\ UNCHANGED <<chan, evq, work, store, global, gw, cdrs, trouble>>

\* Counted records of legs that were not listed.
Look ==
    /\ rc.pc = "look"
    /\ LET leaks == {l \in Leg : store[l].in /\ ~store[l].merged /\ store[l].counted} \ rc.live
       IN  rc' = IF leaks = {} THEN Asleep ELSE [pc |-> "heal", todo |-> leaks, leg |-> NoLeg, r |-> NoRec]
    /\ UNCHANGED <<chan, evq, work, store, global, gw, cdrs, trouble>>

\* The worker's record, if it is that of leg l, is no longer the one in the store.
Lost(at) == [work EXCEPT !.at = at]
Holds(l, at) == work.pc \in {"count", "drop"} /\ work.e.leg = l /\ work.at = at

\* A record is taken away, unless its hangup was handled meanwhile (Drop strikes it from
\* todo), ...
Heal ==
    /\ rc.pc = "heal" /\ rc.leg = NoLeg /\ rc.todo # {}
    /\ \E l \in rc.todo :
        /\ rc' = [rc EXCEPT !.todo = @ \ {l}, !.leg = l, !.r = store[l]]
        /\ store' = [store EXCEPT ![l] = NoRec]
        /\ work' = IF Holds(l, "store") THEN Lost("rc") ELSE work
    /\ UNCHANGED <<chan, evq, global, gw, cdrs, trouble>>

\* ... and counted out.
HealCount ==
    /\ rc.pc = "heal" /\ rc.leg # NoLeg
    /\ CountOut(rc.r)
    /\ rc' = [rc EXCEPT !.leg = NoLeg, !.r = NoRec]
    /\ work' = IF Holds(rc.leg, "rc") THEN [Lost("out") EXCEPT !.r = rc.r] ELSE work
    /\ UNCHANGED <<chan, evq, store, cdrs, trouble>>

Healed ==
    /\ rc.pc = "heal" /\ rc.leg = NoLeg /\ rc.todo = {}
    /\ rc' = Asleep
    /\ UNCHANGED <<chan, evq, work, store, global, gw, cdrs, trouble>>

Reconcile == ListChannels \/ Look \/ Heal \/ HealCount \/ Healed

\* The gateway process starts anew.
Restart ==
    /\ trouble < MaxTrouble /\ trouble' = trouble + 1
    /\ evq' = <<>> /\ work' = Rest /\ store' = [l \in Leg |-> NoRec]
    /\ global' = 0 /\ gw' = [g \in Gateway |-> 0] /\ rc' = Asleep
    /\ UNCHANGED <<chan, cdrs>>

Next == (\E c \in Call : Channel(c)) \/ Worker \/ Reconcile \/ Restart

\* Both threads go on for ever.
Fairness == WF_vars(Worker) /\ WF_vars(Reconcile)

Spec == Init /\ [][Next]_vars /\ Fairness
-----------------------------------------------------------------------------
(* Properties. *)

TypeOK ==
    /\ store \in [Leg -> Record]
    /\ global \in Nat /\ gw \in [Gateway -> Nat]
    /\ cdrs \subseteq Leg

\* The global counter is the number of counted records, that the reconcile thread holds
\* included, whichever thread counts what out and whatever events are lost.
GlobalIsRecords ==
    /\ TypeOK
    /\ global = Cardinality({l \in Leg : store[l].counted}) + (IF rc.pc = "heal" /\ rc.r.counted THEN 1 ELSE 0)

\* A call counts once and is booked once, by its A leg (PRD R-602), however many B legs
\* are dialled and whichever leg hangs up first, as long as no event is lost.
OneCallOneRecord ==
    trouble = 0 => \A c \in Call, n \in Legs \ {0} : ~store[<<c, n>>].counted /\ <<c, n>> \notin cdrs

NoCalls == \A c \in Call : chan[c].state = "gone"

\* Whatever events are lost, the global counter returns to zero after the calls end.
CountHeals == NoCalls ~> (NoCalls /\ global = 0)

Idle == NoCalls /\ evq = <<>> /\ work = Rest /\ rc = Asleep
-----------------------------------------------------------------------------
(* Said of the code and refuted by this model; the README tells how. *)

\* Counted in and counted out symmetrically: with no call left no gateway holds a count.
GatewayCountReturns == Idle /\ (\A l \in Leg : ~store[l].counted) => \A g \in Gateway : gw[g] = 0

\* The records of B legs are dropped with their hangup: none is left when all is over.
StoreDrains == Idle /\ trouble = 0 => \A l \in Leg : ~store[l].in
=============================================================================
