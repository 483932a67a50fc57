----------------------------- MODULE EventsProofs -----------------------------
(***************************************************************************)
(* What is counted by events, and the stream that brings them: the global  *)
(* shadow counter is the number of counted records, for any calls, routes  *)
(* and bounds, while the worker and the reconcile thread interleave,       *)
(* events are lost and the process starts anew; and no event of a          *)
(* connection is lost unaccounted for, repeated or overtaken, for any      *)
(* number of events, polls that cut a header, new subscriptions, broken    *)
(* connections and lost subscriptions.                                     *)
(***************************************************************************)
EXTENDS ShadowCount, Connection, FiniteSetTheorems, TLAPS

-----------------------------------------------------------------------------
(* The shadow counters. *)

(***************************************************************************)
(* What has to be known of the events, the worker and the reconcile        *)
(* thread.  A record is overwritten in one place, by the creation of a B   *)
(* leg whose A leg is known; that takes no count away because a B leg is   *)
(* counted by its own creation only, and that comes once.                  *)
(***************************************************************************)

Event == [type : {"create", "report", "hangup"}, leg : Leg, other : Leg \cup {NoLeg},
          gw : Gateway \cup {NoGw}]

\* The leg is one that FreeSWITCH has dialled.
Dialled(l) == l[2] <= chan[l[1]].leg

\* The event makes a B leg known.
CreatesB(e) == e.type = "create" /\ e.leg[2] # 0

\* Only events of A legs carry variables, and an A leg is created by none.
Sound(e) ==
    /\ e \in Event
    /\ e.leg[2] # 0 => e.gw = NoGw
    /\ e.type = "create" => e.gw = NoGw
    /\ e.type = "create" /\ e.leg[2] = 0 => e.other = NoLeg

WorkState ==
    {Rest} \cup [pc : {"type", "get"}, e : Event]
           \cup [pc : {"count", "drop"}, e : Event, at : {"store", "rc", "out"}, r : Record]

RcState ==
    {Asleep} \cup [pc : {"look"}, live : SUBSET Leg]
             \cup [pc : {"heal"}, todo : SUBSET Leg, leg : Leg \cup {NoLeg}, r : Record]

ShadowTyped ==
    /\ chan \in [Call -> [state : {"new", "up", "gone"}, leg : Legs, up : BOOLEAN]]
    /\ evq \in Seq(Event) /\ work \in WorkState
    /\ store \in [Leg -> Record] /\ global \in Nat /\ gw \in [Gateway -> Nat]
    /\ rc \in RcState /\ cdrs \subseteq Leg

ChanInv == \A c \in Call : chan[c].up => chan[c].leg # 0

QueueInv ==
    /\ \A i \in DOMAIN evq : Sound(evq[i]) /\ (CreatesB(evq[i]) => Dialled(evq[i].leg))
    /\ \A i, j \in DOMAIN evq : i # j /\ CreatesB(evq[i]) /\ CreatesB(evq[j]) => evq[i].leg # evq[j].leg

\* A B leg whose creation waits is not counted, and not that of the worker.
FreshInv ==
    /\ \A i \in DOMAIN evq : CreatesB(evq[i]) =>
          /\ ~store[evq[i].leg].counted
          /\ work # Rest /\ work.e.type = "create" => work.e.leg # evq[i].leg
    /\ work.pc = "type" /\ CreatesB(work.e) => ~store[work.e.leg].counted

\* The record the worker is at is where it thinks it is.
WorkInv ==
    /\ work # Rest => Sound(work.e) /\ (CreatesB(work.e) => Dialled(work.e.leg))
    /\ work.pc \in {"get", "count"} => (work.e.leg[2] = 0 \/ work.e.type = "create")
    /\ work.pc \in {"count", "drop"} =>
          /\ work.at = "store" => store[work.e.leg].in /\ ~store[work.e.leg].merged
          /\ work.at = "rc" => rc.pc = "heal" /\ rc.leg = work.e.leg
          /\ work.at = "out" => work.r.counted

StoreInv ==
    \A l \in Leg : store[l].counted =>
        store[l].in /\ ~store[l].merged /\ (l[2] # 0 => Dialled(l))

RcInv ==
    rc.pc = "heal" =>
        /\ \A l \in rc.todo : store[l].counted
        /\ rc.r.counted <=> rc.leg # NoLeg

CountedLegs == {l \in Leg : store[l].counted}
Held == IF rc.pc = "heal" /\ rc.r.counted THEN 1 ELSE 0
CountInv == global = Cardinality(CountedLegs) + Held

ShadowInv ==
    ShadowTyped /\ ChanInv /\ QueueInv /\ FreshInv /\ WorkInv /\ StoreInv /\ RcInv /\ CountInv
-----------------------------------------------------------------------------
(* Constants, records and counting. *)

LEMMA Constants ==
    /\ Route \in Seq(Gateway) /\ Len(Route) \in Nat /\ NoGw \notin Gateway /\ NoLeg \notin Leg
    /\ Leg = Call \X Legs /\ Legs = 0..Len(Route) /\ IsFiniteSet(Leg)
<1>1. /\ Route \in Seq(Gateway) /\ NoGw \notin Gateway /\ NoLeg \notin Leg
      /\ Leg = Call \X Legs /\ Legs = 0..Len(Route) /\ IsFiniteSet(Call)
  BY ShadowAssumption DEF ShadowCountConstants, Leg, Legs
<1>2. Len(Route) \in Nat
  BY <1>1
<1>3. IsFiniteSet(Legs)
  BY <1>1, <1>2, FS_Interval
<1> QED
  BY <1>1, <1>2, <1>3, FS_Product

LEMMA Records ==
    /\ NoRec \in Record /\ ~NoRec.counted /\ ~NoRec.in /\ ~NoRec.merged
    /\ NewRec \in Record /\ ~NewRec.counted /\ NewRec.in /\ ~NewRec.merged
    /\ [NewRec EXCEPT !.merged = TRUE] \in Record
    /\ ~[NewRec EXCEPT !.merged = TRUE].counted
  BY DEF NoRec, NewRec, Record

\* A variable of an event makes a record, and takes no count away from one.
LEMMA UpsertKeeps ==
    ASSUME NEW r \in Record, NEW g \in Gateway, r.counted => r.in
    PROVE  /\ Upserted(r, g) \in Record /\ Upserted(r, g).in
           /\ Upserted(r, g).counted = r.counted
           /\ r.in => Upserted(r, g).merged = r.merged
           /\ ~r.in => ~Upserted(r, g).merged
<1>1. CASE r.in
  BY <1>1 DEF Upserted, Record
<1>2. CASE ~r.in
  <2>1. r.counted = FALSE
    BY <1>2 DEF Record
  <2> QED
    BY <1>2, <2>1, Records DEF Upserted, Record, NewRec, NoRec
<1> QED
  BY <1>1, <1>2

LEMMA CountedRecord ==
    ASSUME NEW r \in Record
    PROVE  /\ Counted(r) \in Record /\ Counted(r).counted
           /\ Counted(r).in = r.in /\ Counted(r).merged = r.merged
  BY DEF Counted, Record

LEMMA CountInEffect ==
    ASSUME NEW r \in Record, global \in Nat, gw \in [Gateway -> Nat], CountIn(r)
    PROVE  /\ gw' \in [Gateway -> Nat]
           /\ global' = IF r.counted THEN global ELSE global + 1
  BY DEF CountIn, Record

LEMMA CountOutEffect ==
    ASSUME NEW r \in Record, global \in Nat, gw \in [Gateway -> Nat], CountOut(r)
    PROVE  /\ gw' \in [Gateway -> Nat] /\ global' \in Nat
           /\ r.counted /\ global > 0 => global' = global - 1
           /\ ~r.counted => global' = global
  BY DEF CountOut, Record, Less

LEMMA CountedFinite ==
    IsFiniteSet(CountedLegs) /\ Cardinality(CountedLegs) \in Nat
<1>1. CountedLegs \in SUBSET Leg
  BY DEF CountedLegs
<1> QED
  BY <1>1, Constants, FS_Subset, FS_CardinalityType

\* A step that changes one record changes their count by that one.
LEMMA Recount ==
    ASSUME NEW l \in Leg, store \in [Leg -> Record], store' \in [Leg -> Record],
           \A k \in Leg \ {l} : store'[k].counted = store[k].counted
    PROVE  Cardinality(CountedLegs)' =
             Cardinality(CountedLegs) + (IF store'[l].counted THEN 1 ELSE 0)
                                      - (IF store[l].counted THEN 1 ELSE 0)
<1> DEFINE others == {k \in Leg \ {l} : store[k].counted}
<1>1. IsFiniteSet(others) /\ Cardinality(others) \in Nat /\ l \notin others
  <2>1. others \in SUBSET Leg
    OBVIOUS
  <2> QED
    BY <2>1, Constants, FS_Subset, FS_CardinalityType
<1>2. CountedLegs = (IF store[l].counted THEN others \cup {l} ELSE others)
  BY DEF CountedLegs
<1>3. CountedLegs' = (IF store'[l].counted THEN others \cup {l} ELSE others)
  BY DEF CountedLegs
<1>4. Cardinality(others \cup {l}) = Cardinality(others) + 1
  BY <1>1, FS_AddElement
<1>5. store[l].counted \in BOOLEAN /\ store'[l].counted \in BOOLEAN
  BY DEF Record
<1> HIDE DEF others
<1> QED
  BY <1>1, <1>2, <1>3, <1>4, <1>5

LEMMA SameCount ==
    ASSUME \A k \in Leg : store'[k].counted = store[k].counted
    PROVE  CountedLegs' = CountedLegs
  BY DEF CountedLegs

LEMMA ConcatElements ==
    ASSUME NEW S, NEW s \in Seq(S), NEW t \in Seq(S)
    PROVE  /\ s \o t \in Seq(S)
           /\ \A i \in DOMAIN (s \o t) :
                \/ i \in DOMAIN s /\ (s \o t)[i] = s[i]
                \/ i \notin DOMAIN s /\ i - Len(s) \in DOMAIN t /\ (s \o t)[i] = t[i - Len(s)]
           /\ \A i \in DOMAIN s : i \in DOMAIN (s \o t) /\ (s \o t)[i] = s[i]
           /\ \A i \in DOMAIN t : i + Len(s) \in DOMAIN (s \o t) /\ (s \o t)[i + Len(s)] = t[i]
  OBVIOUS

LEMMA TailElements ==
    ASSUME NEW S, NEW s \in Seq(S), s # <<>>
    PROVE  /\ Head(s) \in S /\ 1 \in DOMAIN s /\ Head(s) = s[1] /\ Tail(s) \in Seq(S)
           /\ \A i \in DOMAIN Tail(s) : i + 1 \in DOMAIN s /\ i \in Nat \ {0} /\ Tail(s)[i] = s[i + 1]
           /\ \A i \in DOMAIN s : i = 1 \/ (i - 1 \in DOMAIN Tail(s) /\ s[i] = Tail(s)[i - 1])
  OBVIOUS

\* What the worker is at, by its place.
LEMMA WorkPlaces ==
    ASSUME work \in WorkState
    PROVE  /\ work.pc \in {"rest", "type", "get", "count", "drop"}
           /\ work.pc = "rest" <=> work = Rest
           /\ work # Rest => work.e \in Event /\ work.e.leg \in Leg
           /\ work.pc \in {"count", "drop"} =>
                /\ work \in [pc : {"count", "drop"}, e : Event, at : {"store", "rc", "out"}, r : Record]
                /\ work.at \in {"store", "rc", "out"} /\ work.r \in Record
<1>1. CASE work = Rest
  BY <1>1 DEF Rest
<1>2. CASE work \in [pc : {"type", "get"}, e : Event]
  BY <1>2 DEF Event, Rest
<1>3. CASE work \in [pc : {"count", "drop"}, e : Event, at : {"store", "rc", "out"}, r : Record]
  BY <1>3 DEF Event, Rest
<1> QED
  BY <1>1, <1>2, <1>3 DEF WorkState

LEMMA RcPlaces ==
    ASSUME rc \in RcState
    PROVE  /\ rc.pc \in {"sleep", "look", "heal"}
           /\ rc.pc = "sleep" <=> rc = Asleep
           /\ rc.pc = "heal" =>
                /\ rc \in [pc : {"heal"}, todo : SUBSET Leg, leg : Leg \cup {NoLeg}, r : Record]
                /\ rc.todo \subseteq Leg /\ rc.leg \in Leg \cup {NoLeg} /\ rc.r \in Record
<1>1. CASE rc = Asleep
  BY <1>1 DEF Asleep
<1>2. CASE rc \in [pc : {"look"}, live : SUBSET Leg]
  BY <1>2 DEF Asleep
<1>3. CASE rc \in [pc : {"heal"}, todo : SUBSET Leg, leg : Leg \cup {NoLeg}, r : Record]
  BY <1>3 DEF Asleep
<1> QED
  BY <1>1, <1>2, <1>3 DEF RcState
-----------------------------------------------------------------------------
(* FreeSWITCH. *)

LEMMA RemoveOne ==
    ASSUME NEW S, NEW es \in Seq(S), NEW i \in 1..Len(es)
    PROVE  /\ RemoveAt(es, i) \in Seq(S)
           /\ \A k \in DOMAIN RemoveAt(es, i) : \E j \in DOMAIN es : RemoveAt(es, i)[k] = es[j]
           /\ Len(RemoveAt(es, i)) <= Len(es)
<1> DEFINE a == SubSeq(es, 1, i - 1)  b == SubSeq(es, i + 1, Len(es))
<1>1. /\ a \in Seq(S) /\ Len(a) = i - 1 /\ \A k \in DOMAIN a : k \in DOMAIN es /\ a[k] = es[k]
      /\ DOMAIN a = 1..(i - 1)
  OBVIOUS
<1>2. /\ b \in Seq(S) /\ Len(b) = Len(es) - i /\ \A k \in DOMAIN b : k + i \in DOMAIN es /\ b[k] = es[k + i]
      /\ DOMAIN b = 1..(Len(es) - i)
  OBVIOUS
<1> HIDE DEF a, b
<1>3. /\ a \o b \in Seq(S) /\ Len(a \o b) = Len(a) + Len(b)
      /\ \A k \in DOMAIN (a \o b) : \/ k \in DOMAIN a /\ (a \o b)[k] = a[k]
                                    \/ k - Len(a) \in DOMAIN b /\ (a \o b)[k] = b[k - Len(a)]
  <2>1. a \in Seq(S) /\ b \in Seq(S)
    BY <1>1, <1>2
  <2> DEFINE c == a \o b
  <2>2. Len(c) = Len(a) + Len(b)
    BY <2>1
  <2>3. /\ c \in Seq(S)
        /\ \A k \in DOMAIN c :
              \/ k \in DOMAIN a /\ c[k] = a[k]
              \/ k \notin DOMAIN a /\ k - Len(a) \in DOMAIN b /\ c[k] = b[k - Len(a)]
    BY <2>1, ConcatElements
  <2> HIDE DEF c
  <2>4. c \in Seq(S) /\ Len(c) = Len(a) + Len(b)
      /\ \A k \in DOMAIN c : \/ k \in DOMAIN a /\ c[k] = a[k]
                             \/ k - Len(a) \in DOMAIN b /\ c[k] = b[k - Len(a)]
    BY <2>2, <2>3
  <2> QED
    BY <2>4 DEF c
<1>4. RemoveAt(es, i) = a \o b
  BY DEF RemoveAt, a, b
<1> QED
  BY <1>1, <1>2, <1>3, <1>4

\* The events that are kept are queued behind the others.
LEMMA EmitEffect ==
    ASSUME NEW es \in Seq(Event), evq \in Seq(Event), Emit(es)
    PROVE  \E kept \in Seq(Event) :
              /\ evq' = evq \o kept /\ Len(kept) <= Len(es)
              /\ \A k \in DOMAIN kept : \E j \in DOMAIN es : kept[k] = es[j]
<1>1. PICK kept \in {es} \cup {RemoveAt(es, i) : i \in 1..Len(es)} : evq' = evq \o kept
  BY DEF Emit
<1>2. CASE kept = es
  BY <1>1, <1>2
<1>3. CASE \E i \in 1..Len(es) : kept = RemoveAt(es, i)
  BY <1>1, <1>3, RemoveOne
<1> QED
  BY <1>1, <1>2, <1>3

\* A channel that goes on, and what it tells: one leg it dials, at most.
LEMMA ChannelKeeps ==
    ASSUME ShadowInv, NEW es \in Seq(Event), Emit(es),
           chan' \in [Call -> [state : {"new", "up", "gone"}, leg : Legs, up : BOOLEAN]],
           ChanInv', \A c \in Call : chan[c].leg <= chan'[c].leg,
           \A i \in DOMAIN es : Sound(es[i]),
           \A i \in DOMAIN es : CreatesB(es[i]) =>
              Len(es) = 1 /\ es[i].leg[2] <= chan'[es[i].leg[1]].leg /\ ~Dialled(es[i].leg)
    PROVE  ShadowInv'
<1> USE DEF Dialled, CreatesB
<1>0. UNCHANGED <<work, store, global, gw, rc, cdrs>> /\ evq \in Seq(Event)
  BY DEF ShadowInv, ShadowTyped, Emit
<1>1. PICK kept \in Seq(Event) :
              /\ evq' = evq \o kept /\ Len(kept) <= Len(es)
              /\ \A k \in DOMAIN kept : \E j \in DOMAIN es : kept[k] = es[j]
  BY <1>0, EmitEffect
<1>2. /\ evq' \in Seq(Event)
      /\ \A i \in DOMAIN evq' : \/ i \in DOMAIN evq /\ evq'[i] = evq[i]
                                \/ i \notin DOMAIN evq /\ i - Len(evq) \in DOMAIN kept /\ evq'[i] = kept[i - Len(evq)]
  <2> DEFINE longer == evq \o kept
  <2>1. /\ longer \in Seq(Event)
        /\ \A i \in DOMAIN longer :
              \/ i \in DOMAIN evq /\ longer[i] = evq[i]
              \/ i \notin DOMAIN evq /\ i - Len(evq) \in DOMAIN kept /\ longer[i] = kept[i - Len(evq)]
    BY <1>0, ConcatElements
  <2>2. evq' = longer
    BY <1>1
  <2> HIDE DEF longer
  <2> QED
    BY <2>1, <2>2
<1>3. \A l \in Leg : l[1] \in Call /\ l[2] \in Legs /\ (Dialled(l) => Dialled(l)')
  <2> SUFFICES ASSUME NEW l \in Leg PROVE l[1] \in Call /\ l[2] \in Legs /\ (Dialled(l) => Dialled(l)')
    OBVIOUS
  <2>1. l[1] \in Call /\ l[2] \in 0..Len(Route)
    BY Constants
  <2>2. chan[l[1]].leg \in 0..Len(Route) /\ chan'[l[1]].leg \in 0..Len(Route)
    BY <2>1, Constants DEF ShadowInv, ShadowTyped
  <2> QED
    BY <2>1, <2>2, Constants DEF Dialled
<1>4. \A k \in DOMAIN kept : /\ Sound(kept[k])
                             /\ CreatesB(kept[k]) => Dialled(kept[k].leg)' /\ ~Dialled(kept[k].leg) /\ DOMAIN kept = {1}
  <2> SUFFICES ASSUME NEW k \in DOMAIN kept
               PROVE  /\ Sound(kept[k])
                      /\ CreatesB(kept[k]) => Dialled(kept[k].leg)' /\ ~Dialled(kept[k].leg) /\ DOMAIN kept = {1}
    OBVIOUS
  <2>1. PICK j \in DOMAIN es : kept[k] = es[j]
    BY <1>1
  <2>2. Len(es) = 1 => DOMAIN kept = {1}
    <3>1. Len(kept) \in Nat /\ k \in 1..Len(kept) /\ Len(es) \in Nat
      OBVIOUS
    <3>2. Len(es) = 1 => Len(kept) = 1
      BY <1>1, <3>1
    <3> QED
      BY <3>2
  <2> QED
    BY <2>1, <2>2
<1>5. ShadowTyped'
  BY <1>0, <1>2 DEF ShadowInv, ShadowTyped
<1>6. QueueInv'
  <2>1. ASSUME NEW i \in DOMAIN evq' PROVE Sound(evq'[i]) /\ (CreatesB(evq'[i]) => Dialled(evq[i].leg)')
    <3>1. CASE i \in DOMAIN evq /\ evq'[i] = evq[i]
      <4>1. Sound(evq[i]) /\ (CreatesB(evq[i]) => Dialled(evq[i].leg)) /\ evq[i].leg \in Leg
        BY <3>1 DEF ShadowInv, QueueInv, Sound, Event
      <4> QED
        BY <1>3, <3>1, <4>1
    <3>2. CASE i - Len(evq) \in DOMAIN kept /\ evq'[i] = kept[i - Len(evq)]
      <4>1. PICK k \in DOMAIN kept : evq'[i] = kept[k]
        BY <3>2
      <4> QED
        BY <1>4, <4>1
    <3> QED
      BY <1>2, <3>1, <3>2
  <2>2. ASSUME NEW i \in DOMAIN evq', NEW j \in DOMAIN evq', i < j, CreatesB(evq'[i]), CreatesB(evq'[j])
        PROVE  evq'[i].leg # evq'[j].leg
    <3>1. i \in Nat /\ j \in Nat /\ DOMAIN evq = 1..Len(evq) /\ Len(evq) \in Nat
      BY <1>0, <1>2
    <3>2. CASE i \in DOMAIN evq /\ j \in DOMAIN evq
      <4>1. evq'[i] = evq[i] /\ evq'[j] = evq[j]
        BY <1>2, <3>2
      <4> QED
        BY <2>2, <3>1, <3>2, <4>1 DEF ShadowInv, QueueInv
    <3>3. CASE i \in DOMAIN evq /\ j \notin DOMAIN evq
      <4>1. evq'[i] = evq[i] /\ Dialled(evq[i].leg)
        BY <1>2, <2>2, <3>3 DEF ShadowInv, QueueInv
      <4>2. ~Dialled(evq'[j].leg)
        BY <1>2, <1>4, <2>2, <3>3
      <4> QED
        BY <4>1, <4>2
    <3>4. CASE i \notin DOMAIN evq
      <4>1. i - Len(evq) \in DOMAIN kept /\ evq'[i] = kept[i - Len(evq)] /\ j \notin DOMAIN evq
        BY <1>2, <2>2, <3>1, <3>4
      <4>2. j - Len(evq) \in DOMAIN kept /\ DOMAIN kept = {1}
        <5>1. PICK k \in DOMAIN kept : evq'[j] = kept[k] /\ k = j - Len(evq)
          BY <1>2, <4>1
        <5> QED
          BY <1>4, <2>2, <5>1
      <4> QED
        BY <2>2, <3>1, <4>1, <4>2
    <3> QED
      BY <3>2, <3>3, <3>4
  <2>3. \A i, j \in DOMAIN evq' : i \in Nat /\ j \in Nat
    BY <1>2
  <2>4. ASSUME NEW i \in DOMAIN evq', NEW j \in DOMAIN evq', i # j, CreatesB(evq'[i]), CreatesB(evq'[j])
        PROVE  evq'[i].leg # evq'[j].leg
    <3>1. CASE i < j
      BY <2>2, <2>4, <3>1
    <3>2. CASE j < i
      BY <2>2, <2>4, <3>2
    <3> QED
      BY <2>3, <2>4, <3>1, <3>2
  <2> QED
    BY <2>1, <2>4 DEF QueueInv, CreatesB
<1>7. FreshInv'
  <2>1. ASSUME NEW i \in DOMAIN evq', CreatesB(evq'[i])
        PROVE  ~store[evq'[i].leg].counted /\ (work # Rest /\ work.e.type = "create" => work.e.leg # evq'[i].leg)
    <3>1. CASE i \in DOMAIN evq /\ evq'[i] = evq[i]
      BY <2>1, <3>1 DEF ShadowInv, FreshInv
    <3>2. CASE i - Len(evq) \in DOMAIN kept /\ evq'[i] = kept[i - Len(evq)]
      <4>1. ~Dialled(evq'[i].leg) /\ evq'[i].leg \in Leg /\ evq'[i].leg[2] # 0
        <5>1. PICK k \in DOMAIN kept : evq'[i] = kept[k]
          BY <3>2
        <5>2. Sound(kept[k]) /\ CreatesB(kept[k]) /\ ~Dialled(kept[k].leg)
          BY <1>4, <2>1, <5>1
        <5> QED
          BY <5>1, <5>2 DEF Sound, Event
      <4>2. ~store[evq'[i].leg].counted
        BY <4>1 DEF ShadowInv, StoreInv
      <4>3. work # Rest /\ work.e.type = "create" /\ work.e.leg = evq'[i].leg => FALSE
        BY <4>1 DEF ShadowInv, WorkInv, CreatesB
      <4> QED
        BY <4>2, <4>3
    <3> QED
      BY <1>2, <3>1, <3>2
  <2>2. work.pc = "type" /\ CreatesB(work.e) => ~store[work.e.leg].counted
    BY DEF ShadowInv, FreshInv
  <2> QED
    BY <1>0, <2>1, <2>2 DEF FreshInv, CreatesB
<1>8. WorkInv'
  <2>1. work # Rest => work.e.leg \in Leg
    BY WorkPlaces DEF ShadowInv, ShadowTyped
  <2> QED
    BY <1>0, <1>3, <2>1 DEF ShadowInv, WorkInv, Sound, CreatesB
<1>9. StoreInv'
  BY <1>0, <1>3 DEF ShadowInv, StoreInv
<1>10. RcInv' /\ CountInv'
  BY <1>0 DEF ShadowInv, RcInv, CountInv, CountedLegs, Held
<1> QED
  BY <1>5, <1>6, <1>7, <1>8, <1>9, <1>10 DEF ShadowInv

LEMMA OneEventKeeps ==
    ASSUME ShadowInv, NEW e \in Event, Emit(<<e>>),
           chan' \in [Call -> [state : {"new", "up", "gone"}, leg : Legs, up : BOOLEAN]],
           ChanInv', \A c \in Call : chan[c].leg <= chan'[c].leg, Sound(e),
           CreatesB(e) => e.leg[2] <= chan'[e.leg[1]].leg /\ ~Dialled(e.leg)
    PROVE  ShadowInv'
<1> DEFINE es == <<e>>
<1>1. es \in Seq(Event) /\ Len(es) = 1 /\ DOMAIN es = {1} /\ es[1] = e /\ Emit(es)
  OBVIOUS
<1> HIDE DEF es
<1>2. \A i \in DOMAIN es : es[i] = e
  BY <1>1
<1> QED
  BY <1>1, <1>2, ChannelKeeps

LEMMA ChannelStep ==
    ASSUME ShadowInv, NEW c \in Call, Channel(c)
    PROVE  ShadowInv'
<1>00. /\ chan \in [Call -> [state : {"new", "up", "gone"}, leg : Legs, up : BOOLEAN]]
      /\ ChanInv
  BY DEF ShadowInv, ShadowTyped
<1>0. /\ chan[c] \in [state : {"new", "up", "gone"}, leg : Legs, up : BOOLEAN]
      /\ chan[c].leg \in 0..Len(Route) /\ Legs = 0..Len(Route)
      /\ A(c) \in Leg /\ A(c)[2] = 0 /\ BLeg(c) \in Leg /\ BLeg(c)[2] = chan[c].leg
      /\ BLeg(c)[1] = c
  <2>1. chan[c] \in [state : {"new", "up", "gone"}, leg : Legs, up : BOOLEAN]
    BY <1>00
  <2> QED
    BY <2>1, Constants DEF A, BLeg
<1>1. ASSUME NEW l \in Leg, NEW k \in Leg \cup {NoLeg}, NEW g \in Gateway \cup {NoGw}, l[2] # 0 => g = NoGw,
             NEW t \in {"report", "hangup"}
      PROVE  Ev(t, l, k, g) \in Event /\ Sound(Ev(t, l, k, g)) /\ ~CreatesB(Ev(t, l, k, g))
  BY <1>1 DEF Ev, Event, Sound, CreatesB
<1>2. CASE Start(c)
  <2> DEFINE e == Ev("create", A(c), NoLeg, NoGw)
  <2>1. e \in Event /\ Sound(e) /\ ~CreatesB(e)
    BY <1>0 DEF Ev, Event, Sound, CreatesB
  <2>2. Emit(<<e>>) /\ chan' = [chan EXCEPT ![c].state = "up"]
    BY <1>2 DEF Start
  <2>3. chan' \in [Call -> [state : {"new", "up", "gone"}, leg : Legs, up : BOOLEAN]]
    BY <1>00, <1>0, <2>2
  <2>4. \A d \in Call : chan'[d].leg = chan[d].leg /\ chan'[d].up = chan[d].up
    BY <1>00, <1>0, <2>2
  <2>5. ChanInv' /\ \A d \in Call : chan[d].leg <= chan'[d].leg
    BY <2>4, <1>00, Constants DEF ChanInv
  <2> HIDE DEF e
  <2> QED
    BY <2>1, <2>2, <2>3, <2>5, OneEventKeeps
<1>3. CASE Dial(c)
  <2> DEFINE l == <<c, chan[c].leg + 1>>
             e == Ev("create", l, A(c), NoGw)
  <2>0. chan[c].leg + 1 \in 1..Len(Route) /\ l \in Leg /\ l[2] = chan[c].leg + 1 /\ l[1] = c
    BY <1>0, <1>3, Constants DEF Dial
  <2>1. e \in Event /\ Sound(e) /\ e.leg = l
    BY <1>0, <2>0 DEF Ev, Event, Sound
  <2>2. Emit(<<e>>) /\ chan' = [chan EXCEPT ![c].leg = @ + 1, ![c].up = TRUE]
    BY <1>3 DEF Dial
  <2>3. chan' \in [Call -> [state : {"new", "up", "gone"}, leg : Legs, up : BOOLEAN]]
    <3>1. chan[c].leg + 1 \in Legs
      BY <1>0, <2>0, Constants
    <3>2. [chan[c] EXCEPT !.leg = @ + 1, !.up = TRUE] \in [state : {"new", "up", "gone"}, leg : Legs, up : BOOLEAN]
      BY <1>0, <3>1
    <3> QED
      BY <1>00, <2>2, <3>2
  <2>4. chan'[c].leg = chan[c].leg + 1 /\ \A d \in Call \ {c} : chan'[d] = chan[d]
    BY <1>00, <1>0, <2>2
  <2>5. ChanInv' /\ \A d \in Call : chan[d].leg <= chan'[d].leg
    <3>1. \A d \in Call : chan[d].leg \in Nat
      BY <1>00, Constants
    <3>2. chan'[c].leg # 0 /\ chan[c].leg <= chan'[c].leg
      BY <2>4, <3>1
    <3>3. \A d \in Call \ {c} : chan[d].leg <= chan'[d].leg
      BY <2>4, <3>1
    <3>4. ChanInv'
      BY <1>00, <2>4, <3>2 DEF ChanInv
    <3> QED
      BY <3>2, <3>3, <3>4
  <2>6. e.leg[2] <= chan'[e.leg[1]].leg /\ ~Dialled(e.leg)
    BY <1>0, <2>0, <2>1, <2>4 DEF Dialled
  <2> HIDE DEF e, l
  <2> QED
    BY <2>1, <2>2, <2>3, <2>5, <2>6, OneEventKeeps
<1>4. CASE Report(c)
  <2> DEFINE e == Ev("report", A(c), BLeg(c), Route[chan[c].leg])
  <2>1. Route[chan[c].leg] \in Gateway
    BY <1>0, <1>4, <1>00, Constants DEF Report, ChanInv
  <2>2. e \in Event /\ Sound(e) /\ ~CreatesB(e)
    BY <1>0, <1>1, <2>1
  <2>3. Emit(<<e>>) /\ chan' = chan
    BY <1>4 DEF Report
  <2>4. ChanInv' /\ \A d \in Call : chan[d].leg <= chan'[d].leg
    BY <2>3, <1>00, Constants DEF ChanInv
  <2> HIDE DEF e
  <2> QED
    BY <1>00, <2>2, <2>3, <2>4, OneEventKeeps
<1>5. CASE Fail(c)
  <2> DEFINE e == Ev("hangup", BLeg(c), A(c), NoGw)
  <2>2. e \in Event /\ Sound(e) /\ ~CreatesB(e)
    BY <1>0, <1>1
  <2>3. Emit(<<e>>) /\ chan' = [chan EXCEPT ![c].up = FALSE]
    BY <1>5 DEF Fail
  <2>4. chan' \in [Call -> [state : {"new", "up", "gone"}, leg : Legs, up : BOOLEAN]]
    BY <1>00, <1>0, <2>3
  <2>5. \A d \in Call : chan'[d].leg = chan[d].leg /\ (chan'[d].up => chan[d].up)
    BY <1>00, <1>0, <2>3
  <2>6. ChanInv' /\ \A d \in Call : chan[d].leg <= chan'[d].leg
    BY <2>5, <1>00, Constants DEF ChanInv
  <2> HIDE DEF e
  <2> QED
    BY <2>2, <2>3, <2>4, <2>6, OneEventKeeps
<1>6. CASE End(c)
  <2>1. PICK g \in {NoGw} \cup (IF chan[c].leg = 0 THEN {} ELSE {Route[chan[c].leg]}) :
          LET b == IF chan[c].leg = 0 THEN NoLeg ELSE BLeg(c)
              a == Ev("hangup", A(c), b, g)
              bye == Ev("hangup", b, A(c), NoGw)
          IN  IF chan[c].up THEN Emit(<<a, bye>>) \/ Emit(<<bye, a>>) ELSE Emit(<<a>>)
    BY <1>6 DEF End
  <2> DEFINE b == IF chan[c].leg = 0 THEN NoLeg ELSE BLeg(c)
             a == Ev("hangup", A(c), b, g)
             bye == Ev("hangup", b, A(c), NoGw)
  <2>2. g \in Gateway \cup {NoGw}
    BY <1>0, Constants
  <2>3. a \in Event /\ Sound(a) /\ ~CreatesB(a)
    BY <1>0, <1>1, <2>2
  <2>4. chan[c].up => bye \in Event /\ Sound(bye) /\ ~CreatesB(bye)
    <3>1. chan[c].up => b = BLeg(c)
      BY <1>00 DEF ChanInv
    <3> QED
      BY <1>0, <1>1, <3>1
  <2>5. chan' = [chan EXCEPT ![c].state = "gone", ![c].up = FALSE]
    BY <1>6 DEF End
  <2>6. chan' \in [Call -> [state : {"new", "up", "gone"}, leg : Legs, up : BOOLEAN]]
    BY <1>00, <1>0, <2>5
  <2>7. \A d \in Call : chan'[d].leg = chan[d].leg /\ (chan'[d].up => chan[d].up)
    BY <1>00, <1>0, <2>5
  <2>8. ChanInv' /\ \A d \in Call : chan[d].leg <= chan'[d].leg
    BY <2>7, <1>00, Constants DEF ChanInv
  <2>9. IF chan[c].up THEN Emit(<<a, bye>>) \/ Emit(<<bye, a>>) ELSE Emit(<<a>>)
    BY <2>1
  <2> HIDE DEF a, bye, b
  <2>10. CASE chan[c].up /\ Emit(<<a, bye>>)
    <3>1. <<a, bye>> \in Seq(Event) /\ \A i \in DOMAIN <<a, bye>> : <<a, bye>>[i] \in {a, bye}
      BY <2>3, <2>4, <2>10
    <3> QED
      BY <2>3, <2>4, <2>6, <2>8, <2>10, <3>1, ChannelKeeps
  <2>11. CASE chan[c].up /\ Emit(<<bye, a>>)
    <3>1. <<bye, a>> \in Seq(Event) /\ \A i \in DOMAIN <<bye, a>> : <<bye, a>>[i] \in {a, bye}
      BY <2>3, <2>4, <2>11
    <3> QED
      BY <2>3, <2>4, <2>6, <2>8, <2>11, <3>1, ChannelKeeps
  <2>12. CASE ~chan[c].up
    BY <2>3, <2>6, <2>8, <2>9, <2>12, OneEventKeeps
  <2> QED
    BY <2>9, <2>10, <2>11, <2>12
<1> QED
  BY <1>2, <1>3, <1>4, <1>5, <1>6 DEF Channel
-----------------------------------------------------------------------------
(* The worker. *)

LEMMA WorkMembers ==
    ASSUME NEW e \in Event
    PROVE  /\ Rest \in WorkState /\ Rest.pc = "rest"
           /\ \A p \in {"type", "get"} : [pc |-> p, e |-> e] \in WorkState /\ [pc |-> p, e |-> e] # Rest
           /\ \A p \in {"count", "drop"} : [pc |-> p, e |-> e, at |-> "store", r |-> NoRec] \in WorkState
<1>1. Rest \in WorkState /\ Rest.pc = "rest"
  BY DEF WorkState, Rest
<1>2. ASSUME NEW p \in {"type", "get"} PROVE [pc |-> p, e |-> e] \in WorkState /\ [pc |-> p, e |-> e] # Rest
  <2>1. [pc |-> p, e |-> e].pc # Rest.pc
    BY <1>1
  <2> QED
    BY <2>1 DEF WorkState
<1>3. ASSUME NEW p \in {"count", "drop"} PROVE [pc |-> p, e |-> e, at |-> "store", r |-> NoRec] \in WorkState
  BY Records DEF WorkState
<1> QED
  BY <1>1, <1>2, <1>3

\* A step that counts nothing and leaves the channels and the reconcile thread alone.
LEMMA UncountedStep ==
    ASSUME ShadowInv, UNCHANGED <<chan, evq, rc, global>>, gw' \in [Gateway -> Nat], cdrs' \subseteq Leg,
           work' \in WorkState, WorkInv',
           store' \in [Leg -> Record], \A l \in Leg : store'[l].counted = store[l].counted,
           \A l \in Leg : store[l].counted => store'[l].in = store[l].in /\ store'[l].merged = store[l].merged,
           work' # Rest => work # Rest /\ work'.e = work.e,
           work'.pc = "type" => work.pc \in {"type", "get", "count"},
           work'.pc = "type" /\ work.pc # "type" => ~CreatesB(work'.e)
    PROVE  ShadowInv'
<1>1. ShadowTyped'
  BY DEF ShadowInv, ShadowTyped
<1>2. ChanInv' /\ QueueInv'
  BY DEF ShadowInv, ChanInv, QueueInv, Dialled, CreatesB
<1>3. FreshInv'
  <2>1. ASSUME NEW i \in DOMAIN evq, CreatesB(evq[i])
        PROVE  ~store'[evq[i].leg].counted /\ (work' # Rest /\ work'.e.type = "create" => work'.e.leg # evq[i].leg)
    <3>1. evq[i] \in Event /\ evq[i].leg \in Leg
      BY DEF ShadowInv, QueueInv, Sound, Event
    <3> QED
      BY <2>1, <3>1 DEF ShadowInv, FreshInv
  <2>2. work'.pc = "type" /\ CreatesB(work'.e) => ~store'[work'.e.leg].counted
    <3>1. work'.pc = "type" => work' # Rest /\ work'.e = work.e /\ work # Rest /\ work.e.leg \in Leg
      BY WorkPlaces DEF ShadowInv, ShadowTyped, Rest
    <3> QED
      BY <3>1 DEF ShadowInv, FreshInv, CreatesB
  <2> QED
    BY <2>1, <2>2 DEF FreshInv, CreatesB
<1>4. StoreInv'
  BY DEF ShadowInv, StoreInv, Dialled
<1>5. RcInv'
  <2>1. rc.pc = "heal" => rc.todo \subseteq Leg
    BY RcPlaces DEF ShadowInv, ShadowTyped
  <2> QED
    BY <2>1 DEF ShadowInv, RcInv
<1>6. CountInv'
  BY SameCount DEF ShadowInv, CountInv, Held
<1> QED
  BY <1>1, <1>2, <1>3, <1>4, <1>5, <1>6 DEF ShadowInv

LEMMA TakeStep ==
    ASSUME ShadowInv, Take
    PROVE  ShadowInv'
<1> DEFINE e == Head(evq)
<1>0. /\ evq \in Seq(Event) /\ evq # <<>> /\ work = Rest
      /\ store \in [Leg -> Record]
  BY DEF ShadowInv, ShadowTyped, Take
<1>1. /\ e \in Event /\ 1 \in DOMAIN evq /\ e = evq[1] /\ Tail(evq) \in Seq(Event)
      /\ \A i \in DOMAIN Tail(evq) : i + 1 \in DOMAIN evq /\ i \in Nat \ {0} /\ Tail(evq)[i] = evq[i + 1]
  BY <1>0, TailElements
<1>2. Sound(e) /\ (CreatesB(e) => Dialled(e.leg)) /\ e.leg \in Leg
  BY <1>1 DEF ShadowInv, QueueInv, Event
<1>3. /\ evq' = Tail(evq) /\ UNCHANGED <<chan, global, gw, rc, cdrs>>
      /\ \/ store' = store /\ work' = [pc |-> "type", e |-> e]
         \/ /\ e.gw # NoGw
            /\ store' = [l \in Leg |-> IF l \in {e.leg, e.other} THEN Upserted(store[l], e.gw) ELSE store[l]]
            /\ work' \in {[pc |-> "type", e |-> e], [pc |-> "get", e |-> e]}
  BY DEF Take
<1>4. store' \in [Leg -> Record] /\ \A l \in Leg :
         /\ store'[l].counted = store[l].counted
         /\ store[l].counted => store'[l].in /\ ~store'[l].merged
  <2>1. \A l \in Leg : store[l] \in Record /\ (store[l].counted => store[l].in /\ ~store[l].merged)
    BY <1>0 DEF ShadowInv, StoreInv
  <2>2. CASE store' = store
    BY <1>0, <2>1, <2>2
  <2>3. CASE e.gw # NoGw /\ store' = [l \in Leg |-> IF l \in {e.leg, e.other} THEN Upserted(store[l], e.gw) ELSE store[l]]
    <3>1. e.gw \in Gateway
      BY <1>1, <2>3 DEF Event
    <3>2. \A l \in Leg : /\ Upserted(store[l], e.gw) \in Record
                         /\ Upserted(store[l], e.gw).counted = store[l].counted
                         /\ store[l].counted => Upserted(store[l], e.gw).in /\ ~Upserted(store[l], e.gw).merged
      BY <2>1, <3>1, UpsertKeeps
    <3>3. \A l \in Leg : store'[l] = Upserted(store[l], e.gw) \/ store'[l] = store[l]
      BY <2>3
    <3>4. store' \in [Leg -> Record]
      BY <2>1, <2>3, <3>2
    <3> QED
      BY <2>1, <3>2, <3>3, <3>4
  <2> QED
    BY <1>3, <2>2, <2>3
<1>5. /\ work' \in WorkState /\ work'.pc \in {"type", "get"} /\ work'.e = e
      /\ work'.pc = "get" => e.gw # NoGw
  <2>1. work' = [pc |-> "type", e |-> e] \/ (work' = [pc |-> "get", e |-> e] /\ e.gw # NoGw)
    BY <1>3
  <2>2. [pc |-> "type", e |-> e] \in WorkState /\ [pc |-> "get", e |-> e] \in WorkState
    BY <1>1, WorkMembers
  <2> HIDE DEF e
  <2>3. work' \in WorkState
    BY <2>1, <2>2
  <2> QED
    BY <2>1, <2>3
<1>6. \A i \in DOMAIN evq' : i + 1 \in DOMAIN evq /\ i + 1 # 1 /\ evq'[i] = evq[i + 1] /\ evq[i + 1] \in Event
  BY <1>0, <1>1, <1>3
<1> HIDE DEF e
<1>7. ShadowTyped'
  BY <1>1, <1>3, <1>4, <1>5 DEF ShadowInv, ShadowTyped
<1>8. ChanInv' /\ QueueInv'
  <2>1. ChanInv'
    BY <1>3 DEF ShadowInv, ChanInv
  <2>2. ASSUME NEW i \in DOMAIN evq'
        PROVE  Sound(evq'[i]) /\ (CreatesB(evq'[i]) => evq'[i].leg[2] <= chan'[evq'[i].leg[1]].leg)
    BY <1>3, <1>6 DEF ShadowInv, QueueInv, Dialled
  <2>3. ASSUME NEW i \in DOMAIN evq', NEW j \in DOMAIN evq', i # j, CreatesB(evq'[i]), CreatesB(evq'[j])
        PROVE  evq'[i].leg # evq'[j].leg
    <3>1. i + 1 # j + 1
      BY <1>1, <1>3, <2>3
    <3> QED
      BY <1>6, <2>3, <3>1 DEF ShadowInv, QueueInv
  <2> QED
    BY <2>1, <2>2, <2>3 DEF QueueInv, Dialled, CreatesB
<1>9. FreshInv'
  <2>1. ASSUME NEW i \in DOMAIN evq', CreatesB(evq'[i])
        PROVE  /\ ~store'[evq'[i].leg].counted
               /\ e.type = "create" => e.leg # evq'[i].leg
    <3>1. evq'[i] = evq[i + 1] /\ i + 1 \in DOMAIN evq /\ i + 1 # 1 /\ evq[i + 1].leg \in Leg /\ evq[i + 1].leg[2] # 0
      BY <1>6, <2>1 DEF Event, CreatesB
    <3>2. ~store[evq[i + 1].leg].counted
      BY <2>1, <3>1 DEF ShadowInv, FreshInv
    <3>3. CASE CreatesB(e)
      BY <1>1, <2>1, <3>1, <3>2, <3>3, <1>4 DEF ShadowInv, QueueInv
    <3>4. CASE ~CreatesB(e)
      BY <1>4, <3>1, <3>2, <3>4 DEF CreatesB
    <3> QED
      BY <3>3, <3>4
  <2>2. CreatesB(e) => ~store'[e.leg].counted
    BY <1>1, <1>2, <1>4 DEF ShadowInv, FreshInv
  <2> QED
    BY <1>5, <2>1, <2>2 DEF FreshInv, CreatesB
<1>10. WorkInv'
  <2>1. work'.pc = "get" => e.leg[2] = 0
    BY <1>2, <1>5 DEF Sound
  <2>2. Sound(e) /\ (CreatesB(e) => e.leg[2] <= chan'[e.leg[1]].leg)
    BY <1>2, <1>3 DEF Dialled
  <2> QED
    BY <1>5, <2>1, <2>2 DEF WorkInv, Sound, CreatesB, Dialled
<1>11. StoreInv'
  BY <1>3, <1>4 DEF ShadowInv, StoreInv, Dialled
<1>12. RcInv'
  <2>1. rc.pc = "heal" => rc.todo \subseteq Leg
    BY RcPlaces DEF ShadowInv, ShadowTyped
  <2> QED
    BY <1>3, <1>4, <2>1 DEF ShadowInv, RcInv
<1>13. CountInv'
  BY <1>3, <1>4, SameCount DEF ShadowInv, CountInv, Held
<1> QED
  BY <1>7, <1>8, <1>9, <1>10, <1>11, <1>12, <1>13 DEF ShadowInv

\* What is left of a counted event, and of one that counts nothing.
LEMMA UncountedWork ==
    ASSUME NEW e \in Event
    PROVE  /\ Uncounted(e) \in WorkState /\ Uncounted(e).pc \in {"rest", "type"}
           /\ Uncounted(e) # Rest => /\ Uncounted(e).pc = "type" /\ Uncounted(e).e = e
                                     /\ e.type # "create"
<1>1. CASE e.type = "create"
  BY <1>1, WorkMembers DEF Uncounted
<1>2. CASE e.type # "create"
  <2>1. [pc |-> "type", e |-> e] \in WorkState
    BY WorkMembers
  <2> QED
    BY <1>2, <2>1 DEF Uncounted
<1> QED
  BY <1>1, <1>2

LEMMA WorkerFacts ==
    ASSUME ShadowInv, work # Rest
    PROVE  /\ work \in WorkState /\ work.e \in Event /\ work.e.leg \in Leg /\ Sound(work.e)
           /\ work.e.leg # NoLeg
           /\ store \in [Leg -> Record] /\ store[work.e.leg] \in Record
           /\ global \in Nat /\ gw \in [Gateway -> Nat] /\ cdrs \subseteq Leg
           /\ CreatesB(work.e) => Dialled(work.e.leg)
<1>1. work \in WorkState /\ store \in [Leg -> Record]
  BY DEF ShadowInv, ShadowTyped
<1>2. work.e \in Event /\ work.e.leg \in Leg
  BY <1>1, WorkPlaces
<1> QED
  BY <1>1, <1>2, Constants DEF ShadowInv, ShadowTyped, WorkInv

LEMMA GetStep ==
    ASSUME ShadowInv, Get
    PROVE  ShadowInv'
<1>1. work.pc = "get" /\ work # Rest /\ UNCHANGED <<chan, evq, store, global, gw, rc, cdrs>>
  BY DEF Get, Rest
<1>2. /\ work.e \in Event /\ work.e.leg \in Leg /\ Sound(work.e) /\ work.e.leg # NoLeg
      /\ store \in [Leg -> Record] /\ gw \in [Gateway -> Nat] /\ cdrs \subseteq Leg
      /\ CreatesB(work.e) => Dialled(work.e.leg)
      /\ work.e.leg[2] = 0 \/ work.e.type = "create"
  BY <1>1, WorkerFacts DEF ShadowInv, WorkInv
<1> DEFINE next == [pc |-> "count", e |-> work.e, at |-> "store", r |-> NoRec]
<1>3. \/ store[work.e.leg].in /\ ~store[work.e.leg].merged /\ work' = next
      \/ work' = Uncounted(work.e)
  BY <1>1 DEF Get, Known
<1>4. next \in WorkState /\ next.pc = "count" /\ next.e = work.e /\ next.at = "store" /\ next # Rest
  <2>1. next \in WorkState
    BY <1>2, WorkMembers
  <2>2. next.pc = "count" /\ next.e = work.e /\ next.at = "store"
    OBVIOUS
  <2> QED
    BY <2>1, <2>2 DEF Rest
<1> HIDE DEF next
<1>5. /\ work' \in WorkState
      /\ work' # Rest => work'.e = work.e
      /\ work'.pc \in {"rest", "type", "count"}
      /\ work'.pc = "type" => work.e.type # "create"
      /\ work'.pc = "count" => store[work.e.leg].in /\ ~store[work.e.leg].merged /\ work'.at = "store"
      /\ work'.pc \in {"type", "count"} => work' # Rest
  <2>1. CASE store[work.e.leg].in /\ ~store[work.e.leg].merged /\ work' = next
    BY <1>4, <2>1
  <2>2. CASE work' = Uncounted(work.e)
    <3>1. work'.pc = "type" => work' # Rest
      BY DEF Rest
    <3> QED
      BY <1>2, <2>2, <3>1, UncountedWork
  <2> QED
    BY <1>3, <2>1, <2>2
<1>6. WorkInv'
  BY <1>1, <1>2, <1>5 DEF WorkInv, Sound, CreatesB, Dialled
<1> QED
  BY <1>1, <1>2, <1>5, <1>6, UncountedStep DEF CreatesB

\* The record counted is the one the worker got, wherever the reconcile thread put it.
LEMMA CountStep ==
    ASSUME ShadowInv, Count
    PROVE  ShadowInv'
<1> DEFINE l == work.e.leg
           r == CASE work.at = "store" -> store[l] [] work.at = "rc" -> rc.r [] OTHER -> work.r
<1>1. work.pc = "count" /\ work # Rest /\ UNCHANGED <<chan, evq, cdrs>>
  BY DEF Count, Rest
<1>2. /\ work \in WorkState /\ work.e \in Event /\ l \in Leg /\ Sound(work.e)
      /\ store \in [Leg -> Record] /\ global \in Nat /\ gw \in [Gateway -> Nat]
      /\ CreatesB(work.e) => Dialled(l)
      /\ l[2] = 0 \/ work.e.type = "create"
      /\ work.at \in {"store", "rc", "out"} /\ work.r \in Record
  BY <1>1, WorkerFacts, WorkPlaces DEF ShadowInv, WorkInv
<1>3. /\ CountIn(r) /\ work' = Uncounted(work.e)
      /\ store' = IF work.at = "store" THEN [store EXCEPT ![l] = Counted(r)] ELSE store
      /\ rc' = IF work.at = "rc" THEN [rc EXCEPT !.r = Counted(r)] ELSE rc
  BY DEF Count
<1>4. /\ work.at = "store" => r = store[l] /\ store[l].in /\ ~store[l].merged
      /\ work.at = "rc" => r = rc.r /\ rc.pc = "heal" /\ rc.leg = l /\ r.counted /\ rc.leg # NoLeg
      /\ work.at = "out" => r = work.r /\ r.counted
  <2>1. work.at = "rc" => rc.pc = "heal" /\ rc.leg = l
    BY <1>1 DEF ShadowInv, WorkInv
  <2>2. work.at = "rc" => rc.leg # NoLeg
    BY <1>2, <2>1, Constants
  <2> QED
    BY <1>1, <1>2, <2>1, <2>2 DEF ShadowInv, WorkInv, RcInv
<1>5. rc.pc = "heal" => /\ rc \in [pc : {"heal"}, todo : SUBSET Leg, leg : Leg \cup {NoLeg}, r : Record]
                        /\ rc.todo \subseteq Leg /\ rc.r \in Record
  BY RcPlaces DEF ShadowInv, ShadowTyped
<1>6. r \in Record
  BY <1>2, <1>4, <1>5
<1> HIDE DEF r, l
<1>7. gw' \in [Gateway -> Nat] /\ global' = IF r.counted THEN global ELSE global + 1
  BY <1>2, <1>3, <1>6, CountInEffect
<1>8. /\ Counted(r) \in Record /\ Counted(r).counted
      /\ Counted(r).in = r.in /\ Counted(r).merged = r.merged
  BY <1>6, CountedRecord
<1>9. /\ work' \in WorkState /\ work'.pc \in {"rest", "type"}
      /\ work' # Rest => work'.pc = "type" /\ work'.e = work.e /\ work.e.type # "create"
      /\ work'.pc = "type" => work' # Rest
  BY <1>2, <1>3, UncountedWork DEF Rest
<1>10. WorkInv'
  BY <1>2, <1>9 DEF WorkInv, Sound, CreatesB
<1>11. CASE work.at = "store"
  <2>1. store' = [store EXCEPT ![l] = Counted(r)] /\ rc' = rc /\ r = store[l]
    BY <1>3, <1>4, <1>11
  <2>2. store' \in [Leg -> Record] /\ store'[l] = Counted(r) /\ \A k \in Leg \ {l} : store'[k] = store[k]
    BY <1>2, <1>8, <2>1
  <2>3. global' \in Nat
    BY <1>2, <1>7
  <2>4. ShadowTyped'
    BY <1>1, <1>7, <1>9, <2>1, <2>2, <2>3 DEF ShadowInv, ShadowTyped
  <2>5. ChanInv' /\ QueueInv'
    BY <1>1 DEF ShadowInv, ChanInv, QueueInv, Dialled, CreatesB
  <2>6. FreshInv'
    <3>1. ASSUME NEW i \in DOMAIN evq, CreatesB(evq[i]) PROVE ~store'[evq[i].leg].counted
      <4>1. evq[i].leg \in Leg /\ evq[i].leg[2] # 0
        BY <3>1 DEF ShadowInv, QueueInv, Sound, Event, CreatesB
      <4>2. evq[i].leg # l
        BY <1>1, <1>2, <3>1, <4>1 DEF ShadowInv, FreshInv, l
      <4> QED
        BY <2>2, <3>1, <4>1, <4>2 DEF ShadowInv, FreshInv
    <3> QED
      BY <1>1, <1>9, <3>1 DEF FreshInv, CreatesB
  <2>7. StoreInv'
    <3>1. l[2] # 0 => Dialled(l)
      BY <1>2 DEF CreatesB, l
    <3> QED
      BY <1>1, <1>4, <1>8, <1>11, <2>1, <2>2, <3>1 DEF ShadowInv, StoreInv, Dialled
  <2>8. RcInv'
    BY <1>5, <1>8, <2>1, <2>2 DEF ShadowInv, RcInv
  <2>9. CountInv'
    <3>1. Cardinality(CountedLegs)' = Cardinality(CountedLegs) + 1 - (IF r.counted THEN 1 ELSE 0)
      BY <1>2, <1>8, <2>1, <2>2, Recount DEF l
    <3>2. Cardinality(CountedLegs) \in Nat /\ Held' = Held /\ Held \in {0, 1}
      BY <2>1, CountedFinite DEF Held
    <3>3. r.counted \in BOOLEAN /\ global = Cardinality(CountedLegs) + Held
      BY <1>6 DEF Record, ShadowInv, CountInv
    <3> QED
      BY <1>7, <3>1, <3>2, <3>3 DEF CountInv
  <2> QED
    BY <1>10, <2>4, <2>5, <2>6, <2>7, <2>8, <2>9 DEF ShadowInv
<1>12. CASE work.at # "store"
  <2>1. store' = store /\ global' = global /\ r.counted
    BY <1>2, <1>3, <1>4, <1>7, <1>12
  <2>2. /\ rc' \in RcState /\ rc'.pc = rc.pc
        /\ rc.pc = "heal" => rc'.todo = rc.todo /\ rc'.leg = rc.leg /\ rc'.r.counted = rc.r.counted
    <3>1. CASE work.at = "rc"
      <4>1. rc' = [rc EXCEPT !.r = Counted(r)] /\ rc.pc = "heal" /\ rc.r.counted
        BY <1>3, <1>4, <3>1
      <4> QED
        BY <1>5, <1>8, <4>1 DEF RcState
    <3>2. CASE work.at # "rc"
      BY <1>3, <3>2 DEF ShadowInv, ShadowTyped
    <3> QED
      BY <3>1, <3>2
  <2>3. ShadowTyped'
    BY <1>1, <1>7, <1>9, <2>1, <2>2 DEF ShadowInv, ShadowTyped
  <2>4. ChanInv' /\ QueueInv' /\ StoreInv'
    BY <1>1, <2>1 DEF ShadowInv, ChanInv, QueueInv, StoreInv, Dialled, CreatesB
  <2>5. FreshInv'
    BY <1>1, <1>9, <2>1 DEF ShadowInv, FreshInv, CreatesB
  <2>6. RcInv'
    BY <2>1, <2>2 DEF ShadowInv, RcInv
  <2>7. CountInv'
    <3>1. CountedLegs' = CountedLegs
      BY <2>1 DEF CountedLegs
    <3>2. Held' = Held
      BY <2>2 DEF Held
    <3> QED
      BY <2>1, <3>1, <3>2 DEF ShadowInv, CountInv
  <2> QED
    BY <1>10, <2>3, <2>4, <2>5, <2>6, <2>7 DEF ShadowInv
<1> QED
  BY <1>11, <1>12

LEMMA ByTypeStep ==
    ASSUME ShadowInv, ByType
    PROVE  ShadowInv'
<1> DEFINE e == work.e
<1>1. /\ work.pc = "type" /\ work # Rest /\ UNCHANGED <<chan, evq, global, gw, rc, cdrs>>
      /\ IF e.type = "create" THEN Create(e) ELSE Times(e)
  BY DEF ByType, Rest
<1>2. /\ e \in Event /\ e.leg \in Leg /\ Sound(e) /\ e.leg # NoLeg
      /\ store \in [Leg -> Record] /\ gw \in [Gateway -> Nat] /\ cdrs \subseteq Leg
      /\ CreatesB(e) => Dialled(e.leg)
      /\ store[e.leg] \in Record /\ (store[e.leg].counted => store[e.leg].in /\ ~store[e.leg].merged)
      /\ CreatesB(e) => ~store[e.leg].counted
  BY <1>1, WorkerFacts DEF ShadowInv, StoreInv, FreshInv
<1> HIDE DEF e
<1>3. \E r \in Record : store' = [store EXCEPT ![e.leg] = r] /\ r.counted = store[e.leg].counted
                        /\ (store[e.leg].counted => r = store[e.leg])
  <2> DEFINE kept == IF store[e.leg].in THEN store[e.leg] ELSE NewRec
             merged == [NewRec EXCEPT !.merged = TRUE]
  <2>1. kept \in Record /\ kept.counted = store[e.leg].counted /\ (store[e.leg].counted => kept = store[e.leg])
    <3>1. store[e.leg].counted \in BOOLEAN /\ NewRec.counted = FALSE
      BY <1>2 DEF Record, NewRec, NoRec
    <3> QED
      BY <1>2, <3>1, Records
  <2>2. merged \in Record /\ merged.counted = FALSE
    BY Records DEF NewRec, NoRec
  <2>3. CASE e.type = "create" /\ Known(e.other)
    <3>1. CreatesB(e)
      BY <1>2, <2>3 DEF Sound, CreatesB, Known
    <3>2. store' = [store EXCEPT ![e.leg] = merged]
      BY <1>1, <2>3 DEF Create
    <3>3. store[e.leg].counted = FALSE
      BY <1>2, <3>1 DEF Record
    <3> HIDE DEF merged
    <3> QED
      BY <2>2, <3>2, <3>3
  <2>4. CASE ~(e.type = "create" /\ Known(e.other))
    <3>1. store' = [store EXCEPT ![e.leg] = kept]
      BY <1>1, <2>4 DEF Create, Times
    <3> HIDE DEF kept
    <3> QED
      BY <2>1, <3>1
  <2> QED
    BY <2>3, <2>4
<1>4. /\ store' \in [Leg -> Record] /\ \A l \in Leg : store'[l].counted = store[l].counted
      /\ \A l \in Leg : store[l].counted => store'[l] = store[l]
  BY <1>2, <1>3
<1>5. work' = Rest \/ (work' = [pc |-> "get", e |-> e] /\ e.type = "create")
  BY <1>1 DEF Create, Times
<1>6. /\ work' \in WorkState /\ work'.pc \in {"rest", "get"}
      /\ work' # Rest => work'.pc = "get" /\ work'.e = e /\ e.type = "create"
  <2>1. [pc |-> "get", e |-> e] \in WorkState /\ Rest \in WorkState /\ Rest.pc = "rest"
    BY <1>2, WorkMembers
  <2> QED
    BY <1>5, <2>1
<1>7. WorkInv'
  BY <1>1, <1>2, <1>6 DEF WorkInv, Sound, CreatesB, Dialled, Rest
<1> QED
  BY <1>1, <1>2, <1>4, <1>6, <1>7, UncountedStep DEF e

LEMMA HangupGetStep ==
    ASSUME ShadowInv, HangupGet
    PROVE  ShadowInv'
<1> DEFINE l == work.e.leg
           next == [pc |-> "drop", e |-> work.e, at |-> "store", r |-> NoRec]
<1>1. work.pc = "type" /\ work # Rest /\ UNCHANGED <<chan, evq, global, gw, rc>>
  BY DEF HangupGet, Rest
<1>2. /\ work.e \in Event /\ l \in Leg /\ Sound(work.e) /\ l # NoLeg
      /\ store \in [Leg -> Record] /\ gw \in [Gateway -> Nat] /\ cdrs \subseteq Leg
      /\ CreatesB(work.e) => Dialled(l)
      /\ store[l] \in Record /\ (store[l].counted => store[l].in /\ ~store[l].merged)
  BY <1>1, WorkerFacts DEF ShadowInv, StoreInv
<1>3. \/ store[l].in /\ ~store[l].merged /\ work' = next /\ UNCHANGED <<store, cdrs>>
      \/ /\ ~(store[l].in /\ ~store[l].merged) /\ work' = Rest
         /\ store' = [store EXCEPT ![l] = NoRec] /\ cdrs' \in {cdrs, cdrs \cup {l}}
  BY <1>2 DEF HangupGet, Known
<1>4. next \in WorkState /\ next.pc = "drop" /\ next.e = work.e /\ next.at = "store" /\ next # Rest
  <2>1. next \in WorkState
    BY <1>2, WorkMembers
  <2>2. next.pc = "drop" /\ next.e = work.e /\ next.at = "store"
    OBVIOUS
  <2> QED
    BY <2>1, <2>2 DEF Rest
<1> HIDE DEF next, l
<1>5. CASE store[l].in /\ ~store[l].merged /\ work' = next /\ UNCHANGED <<store, cdrs>>
  <2>1. WorkInv'
    BY <1>1, <1>2, <1>4, <1>5 DEF WorkInv, Sound, CreatesB, Dialled, l
  <2>2. work'.pc # "type"
    BY <1>4, <1>5
  <2> QED
    BY <1>1, <1>2, <1>4, <1>5, <2>1, <2>2, UncountedStep
<1>6. CASE /\ ~(store[l].in /\ ~store[l].merged) /\ work' = Rest
           /\ store' = [store EXCEPT ![l] = NoRec] /\ cdrs' \in {cdrs, cdrs \cup {l}}
  <2>1. store[l].counted = FALSE /\ NoRec \in Record /\ NoRec.counted = FALSE
    BY <1>2, <1>6, Records DEF Record, NoRec
  <2>2. /\ store' \in [Leg -> Record] /\ \A k \in Leg : store'[k].counted = store[k].counted
        /\ \A k \in Leg : store[k].counted => store'[k] = store[k]
    BY <1>2, <1>6, <2>1
  <2>3. WorkInv' /\ work' \in WorkState /\ work'.pc = "rest"
    BY <1>6 DEF WorkInv, Rest, WorkState
  <2>4. cdrs' \subseteq Leg
    BY <1>2, <1>6
  <2> QED
    BY <1>1, <1>2, <1>6, <2>2, <2>3, <2>4, UncountedStep
<1> QED
  BY <1>3, <1>5, <1>6

LEMMA DropStep ==
    ASSUME ShadowInv, Drop
    PROVE  ShadowInv'
<1> DEFINE l == work.e.leg
<1>1. work.pc = "drop" /\ work # Rest /\ work' = Rest /\ UNCHANGED <<chan, evq>> /\ cdrs' = cdrs \cup {l}
  BY DEF Drop, Rest
<1>2. /\ l \in Leg /\ store \in [Leg -> Record] /\ store[l] \in Record
      /\ global \in Nat /\ gw \in [Gateway -> Nat] /\ cdrs \subseteq Leg
  BY <1>1, WorkerFacts
<1>3. IF work.at = "store"
      THEN /\ CountOut(store[l]) /\ store' = [store EXCEPT ![l] = NoRec]
           /\ rc' = IF rc.pc = "heal" THEN [rc EXCEPT !.todo = @ \ {l}] ELSE rc
      ELSE UNCHANGED <<global, gw, store, rc>>
  BY DEF Drop
<1>4. rc.pc = "heal" => /\ rc \in [pc : {"heal"}, todo : SUBSET Leg, leg : Leg \cup {NoLeg}, r : Record]
                        /\ rc.todo \subseteq Leg /\ rc.r \in Record
  BY RcPlaces DEF ShadowInv, ShadowTyped
<1> HIDE DEF l
<1>5. work' \in WorkState /\ work'.pc = "rest" /\ WorkInv' /\ cdrs' \subseteq Leg
  BY <1>1, <1>2 DEF WorkState, WorkInv, Rest
<1>6. ChanInv' /\ QueueInv'
  BY <1>1 DEF ShadowInv, ChanInv, QueueInv, Dialled, CreatesB
<1>7. CASE work.at = "store"
  <2>1. /\ CountOut(store[l]) /\ store' = [store EXCEPT ![l] = NoRec]
        /\ rc' = IF rc.pc = "heal" THEN [rc EXCEPT !.todo = @ \ {l}] ELSE rc
    BY <1>3, <1>7
  <2>2. /\ store' \in [Leg -> Record] /\ store'[l] = NoRec /\ ~NoRec.counted
        /\ \A k \in Leg \ {l} : store'[k] = store[k]
    BY <1>2, <2>1, Records
  <2>3. /\ gw' \in [Gateway -> Nat] /\ global' \in Nat
        /\ store[l].counted /\ global > 0 => global' = global - 1
        /\ ~store[l].counted => global' = global
    BY <1>2, <2>1, CountOutEffect
  <2>4. /\ rc' \in RcState /\ rc'.pc = rc.pc
        /\ rc.pc = "heal" => rc'.todo = rc.todo \ {l} /\ rc'.leg = rc.leg /\ rc'.r = rc.r
    <3>1. CASE rc.pc = "heal"
      BY <1>4, <2>1, <3>1 DEF RcState
    <3>2. CASE rc.pc # "heal"
      BY <2>1, <3>2 DEF ShadowInv, ShadowTyped
    <3> QED
      BY <3>1, <3>2
  <2>5. ShadowTyped'
    BY <1>1, <1>5, <2>2, <2>3, <2>4 DEF ShadowInv, ShadowTyped
  <2>6. FreshInv'
    <3>1. ASSUME NEW i \in DOMAIN evq, CreatesB(evq[i]) PROVE ~store'[evq[i].leg].counted
      <4>1. evq[i].leg \in Leg
        BY <3>1 DEF ShadowInv, QueueInv, Sound, Event
      <4> QED
        BY <2>2, <3>1, <4>1 DEF ShadowInv, FreshInv
    <3> QED
      BY <1>1, <1>5, <3>1 DEF FreshInv, CreatesB
  <2>7. StoreInv'
    BY <1>1, <2>2 DEF ShadowInv, StoreInv, Dialled
  <2>8. RcInv'
    BY <1>4, <2>2, <2>4 DEF ShadowInv, RcInv
  <2>9. CountInv'
    <3>1. Cardinality(CountedLegs)' = Cardinality(CountedLegs) - (IF store[l].counted THEN 1 ELSE 0)
      <4>1. Cardinality(CountedLegs)' =
              Cardinality(CountedLegs) + (IF store'[l].counted THEN 1 ELSE 0)
                                       - (IF store[l].counted THEN 1 ELSE 0)
        BY <1>2, <2>2, Recount
      <4>2. Cardinality(CountedLegs) \in Nat
        BY CountedFinite
      <4> QED
        BY <2>2, <4>1, <4>2
    <3>2. Cardinality(CountedLegs) \in Nat /\ Held' = Held /\ Held \in {0, 1}
      BY <2>4, CountedFinite DEF Held
    <3>3. global = Cardinality(CountedLegs) + Held
      BY DEF ShadowInv, CountInv
    <3>4. store[l].counted => Cardinality(CountedLegs) > 0
      <4>1. store[l].counted => CountedLegs # {}
        BY <1>2 DEF CountedLegs
      <4> QED
        BY <4>1, CountedFinite, FS_EmptySet
    <3>5. store[l].counted \in BOOLEAN
      BY <1>2 DEF Record
    <3>6. CASE store[l].counted
      BY <2>3, <3>1, <3>2, <3>3, <3>4, <3>6 DEF CountInv
    <3>7. CASE ~store[l].counted
      BY <2>3, <3>1, <3>2, <3>3, <3>7 DEF CountInv
    <3> QED
      BY <3>6, <3>7
  <2> QED
    BY <1>5, <1>6, <2>5, <2>6, <2>7, <2>8, <2>9 DEF ShadowInv
<1>8. CASE work.at # "store"
  <2>1. UNCHANGED <<global, gw, store, rc>>
    BY <1>3, <1>8
  <2> QED
    BY <1>1, <1>5, <1>6, <2>1
    DEF ShadowInv, ShadowTyped, FreshInv, StoreInv, RcInv, CountInv, CountedLegs, Held, Dialled, CreatesB
<1> QED
  BY <1>7, <1>8

LEMMA WorkerStep ==
    ASSUME ShadowInv, Worker
    PROVE  ShadowInv'
  BY TakeStep, GetStep, CountStep, ByTypeStep, HangupGetStep, DropStep DEF Worker
-----------------------------------------------------------------------------
(* The reconcile thread, and a new start. *)

LEMMA LookStep ==
    ASSUME ShadowInv, ListChannels \/ Look
    PROVE  ShadowInv'
<1>1. UNCHANGED <<chan, evq, work, store, global, gw, cdrs>> /\ rc.pc # "heal"
  BY DEF ListChannels, Look, Asleep
<1>2. LiveLegs \subseteq Leg
  <2>1. \A c \in Call : A(c) \in Leg /\ BLeg(c) \in Leg
    BY Constants DEF A, BLeg, ShadowInv, ShadowTyped
  <2> QED
    BY <2>1 DEF LiveLegs
<1>3. \/ rc' = Asleep
      \/ rc' = [pc |-> "look", live |-> LiveLegs]
      \/ \E leaks \in SUBSET {l \in Leg : store[l].counted} :
            rc' = [pc |-> "heal", todo |-> leaks, leg |-> NoLeg, r |-> NoRec]
  BY DEF ListChannels, Look
<1>4. /\ rc' \in RcState
      /\ rc'.pc = "heal" => ~rc'.r.counted /\ rc'.leg = NoLeg /\ \A l \in rc'.todo : store[l].counted
  <2>1. CASE rc' = Asleep
    BY <2>1 DEF RcState, Asleep
  <2>2. CASE rc' = [pc |-> "look", live |-> LiveLegs]
    BY <1>2, <2>2 DEF RcState
  <2>3. CASE \E leaks \in SUBSET {l \in Leg : store[l].counted} :
                rc' = [pc |-> "heal", todo |-> leaks, leg |-> NoLeg, r |-> NoRec]
    BY <2>3, Records DEF RcState
  <2> QED
    BY <1>3, <2>1, <2>2, <2>3
<1>5. WorkInv'
  <2>1. work.pc \in {"count", "drop"} => work.at # "rc"
    BY <1>1 DEF ShadowInv, WorkInv
  <2> QED
    BY <1>1, <2>1 DEF ShadowInv, WorkInv, Dialled
<1>6. RcInv' /\ Held' = 0 /\ Held = 0
  BY <1>1, <1>4 DEF RcInv, Held
<1> QED
  BY <1>1, <1>4, <1>5, <1>6
  DEF ShadowInv, ShadowTyped, ChanInv, QueueInv, FreshInv, StoreInv, CountInv, CountedLegs, Dialled, CreatesB

LEMMA HealFacts ==
    ASSUME ShadowInv, rc.pc = "heal"
    PROVE  /\ rc \in [pc : {"heal"}, todo : SUBSET Leg, leg : Leg \cup {NoLeg}, r : Record]
           /\ rc.todo \subseteq Leg /\ rc.leg \in Leg \cup {NoLeg} /\ rc.r \in Record
           /\ \A l \in rc.todo : store[l].counted
           /\ rc.r.counted <=> rc.leg # NoLeg
           /\ work \in WorkState /\ store \in [Leg -> Record]
           /\ global \in Nat /\ gw \in [Gateway -> Nat]
  BY RcPlaces DEF ShadowInv, ShadowTyped, RcInv

\* The worker keeps its record, and is told where it is now.
LEMMA MovedWork ==
    ASSUME work \in WorkState, work.pc \in {"count", "drop"}, NEW at \in {"rc", "out"}, NEW r \in Record
    PROVE  /\ Lost(at) \in WorkState /\ Lost(at).pc = work.pc /\ Lost(at).e = work.e /\ Lost(at).at = at
           /\ LET moved == [Lost(at) EXCEPT !.r = r]
              IN  /\ moved \in WorkState /\ moved.pc = work.pc /\ moved.e = work.e
                  /\ moved.at = at /\ moved.r = r
<1>1. work \in [pc : {"count", "drop"}, e : Event, at : {"store", "rc", "out"}, r : Record]
  BY WorkPlaces
<1>2. Lost(at) \in [pc : {"count", "drop"}, e : Event, at : {"store", "rc", "out"}, r : Record]
  BY <1>1 DEF Lost
<1>3. Lost(at).pc = work.pc /\ Lost(at).e = work.e /\ Lost(at).at = at
  BY <1>1 DEF Lost
<1> QED
  BY <1>2, <1>3 DEF WorkState

\* A leaked record moves from the store to the reconcile thread.
LEMMA HealStep ==
    ASSUME ShadowInv, Heal
    PROVE  ShadowInv'
<1>1. rc.pc = "heal" /\ rc.leg = NoLeg /\ UNCHANGED <<chan, evq, global, gw, cdrs>>
  BY DEF Heal
<1>2. PICK l \in rc.todo : /\ rc' = [rc EXCEPT !.todo = @ \ {l}, !.leg = l, !.r = store[l]]
                           /\ store' = [store EXCEPT ![l] = NoRec]
                           /\ work' = IF Holds(l, "store") THEN Lost("rc") ELSE work
  BY DEF Heal
<1>3. /\ rc \in [pc : {"heal"}, todo : SUBSET Leg, leg : Leg \cup {NoLeg}, r : Record]
      /\ rc.todo \subseteq Leg /\ \A k \in rc.todo : store[k].counted
      /\ ~rc.r.counted /\ work \in WorkState /\ store \in [Leg -> Record]
  BY <1>1, HealFacts
<1>4. l \in Leg /\ l # NoLeg /\ store[l].counted /\ store[l] \in Record
  BY <1>2, <1>3, Constants
<1>5. /\ store' \in [Leg -> Record] /\ store'[l] = NoRec /\ ~NoRec.counted
      /\ \A k \in Leg \ {l} : store'[k] = store[k]
  BY <1>2, <1>3, <1>4, Records
<1>6. rc' \in RcState /\ rc'.pc = "heal" /\ rc'.todo = rc.todo \ {l} /\ rc'.leg = l /\ rc'.r = store[l]
  BY <1>2, <1>3, <1>4 DEF RcState
<1>7. /\ work' \in WorkState /\ work'.pc = work.pc /\ (work' # Rest => work'.e = work.e)
      /\ work' = Rest <=> work = Rest
      /\ work.pc \in {"count", "drop"} => work'.at = (IF Holds(l, "store") THEN "rc" ELSE work.at)
      /\ ~Holds(l, "store") => work' = work
  <2>1. CASE Holds(l, "store")
    <3>1. /\ work.pc \in {"count", "drop"} /\ work' \in WorkState /\ work'.pc = work.pc
          /\ work'.e = work.e /\ work'.at = "rc"
      BY <1>2, <1>3, <2>1, Records, MovedWork DEF Holds
    <3> QED
      BY <2>1, <3>1 DEF Rest
  <2>2. CASE ~Holds(l, "store")
    BY <1>2, <1>3, <2>2
  <2> QED
    BY <2>1, <2>2
<1>8. ShadowTyped'
  BY <1>1, <1>5, <1>6, <1>7 DEF ShadowInv, ShadowTyped
<1>9. ChanInv' /\ QueueInv'
  BY <1>1 DEF ShadowInv, ChanInv, QueueInv, Dialled, CreatesB
<1>10. \A k \in Leg : store'[k].counted => store'[k] = store[k] /\ store[k].counted
  BY <1>5
<1>11. FreshInv'
  <2>1. ASSUME NEW i \in DOMAIN evq, CreatesB(evq[i])
        PROVE  /\ ~store'[evq[i].leg].counted
               /\ work' # Rest /\ work'.e.type = "create" => work'.e.leg # evq[i].leg
    <3>1. evq[i].leg \in Leg
      BY <2>1 DEF ShadowInv, QueueInv, Sound, Event
    <3> QED
      BY <1>7, <1>10, <2>1, <3>1 DEF ShadowInv, FreshInv
  <2>2. work.pc = "type" => work # Rest /\ work.e.leg \in Leg
    BY <1>3, WorkPlaces DEF Rest
  <2>3. work'.pc = "type" /\ CreatesB(work'.e) => ~store'[work'.e.leg].counted
    BY <1>7, <1>10, <2>2 DEF ShadowInv, FreshInv, CreatesB
  <2> QED
    BY <1>1, <2>1, <2>3 DEF FreshInv, CreatesB
<1>12. WorkInv'
  <2>1. /\ work' # Rest => Sound(work'.e) /\ (CreatesB(work'.e) => work'.e.leg[2] <= chan[work'.e.leg[1]].leg)
        /\ work'.pc \in {"get", "count"} => work'.e.leg[2] = 0 \/ work'.e.type = "create"
    BY <1>7 DEF ShadowInv, WorkInv, Dialled, Rest
  <2>2. ASSUME work.pc \in {"count", "drop"}
        PROVE  /\ work'.at = "store" => store'[work'.e.leg].in /\ ~store'[work'.e.leg].merged
               /\ work'.at = "rc" => rc'.pc = "heal" /\ rc'.leg = work'.e.leg
               /\ work'.at = "out" => work'.r.counted
    <3>1. work # Rest /\ work.e.leg \in Leg /\ work'.e = work.e /\ work.at \in {"store", "rc", "out"}
      BY <1>3, <1>7, <2>2, WorkPlaces DEF Rest
    <3>2. CASE Holds(l, "store")
      BY <1>6, <1>7, <2>2, <3>1, <3>2 DEF Holds
    <3>3. CASE ~Holds(l, "store")
      <4>1. work' = work /\ work.at # "rc"
        BY <1>1, <1>3, <1>7, <2>2, <3>1, <3>3, Constants DEF ShadowInv, WorkInv
      <4>2. work.at = "store" => work.e.leg # l
        BY <2>2, <3>3 DEF Holds
      <4> QED
        BY <1>5, <2>2, <3>1, <4>1, <4>2 DEF ShadowInv, WorkInv
    <3> QED
      BY <3>2, <3>3
  <2> QED
    BY <1>1, <1>7, <2>1, <2>2 DEF WorkInv, Sound, CreatesB, Dialled
<1>13. StoreInv'
  BY <1>1, <1>10 DEF ShadowInv, StoreInv, Dialled
<1>14. RcInv'
  BY <1>3, <1>4, <1>5, <1>6 DEF RcInv
<1>15. CountInv'
  <2>1. Cardinality(CountedLegs)' = Cardinality(CountedLegs) + 0 - 1
    <3>1. Cardinality(CountedLegs)' =
            Cardinality(CountedLegs) + (IF store'[l].counted THEN 1 ELSE 0)
                                     - (IF store[l].counted THEN 1 ELSE 0)
      BY <1>3, <1>4, <1>5, Recount
    <3> QED
      BY <1>4, <1>5, <3>1
  <2>2. Held = 0 /\ Held' = 1 /\ Cardinality(CountedLegs) \in Nat
    BY <1>1, <1>3, <1>4, <1>6, CountedFinite DEF Held
  <2> QED
    BY <1>1, <2>1, <2>2 DEF ShadowInv, CountInv
<1> QED
  BY <1>8, <1>9, <1>11, <1>12, <1>13, <1>14, <1>15 DEF ShadowInv

\* And from there out of the counters.
LEMMA HealCountStep ==
    ASSUME ShadowInv, HealCount
    PROVE  ShadowInv'
<1>1. /\ rc.pc = "heal" /\ rc.leg # NoLeg /\ UNCHANGED <<chan, evq, store, cdrs>>
      /\ CountOut(rc.r) /\ rc' = [rc EXCEPT !.leg = NoLeg, !.r = NoRec]
      /\ work' = IF Holds(rc.leg, "rc") THEN [Lost("out") EXCEPT !.r = rc.r] ELSE work
  BY DEF HealCount
<1>2. /\ rc \in [pc : {"heal"}, todo : SUBSET Leg, leg : Leg \cup {NoLeg}, r : Record]
      /\ rc.r \in Record /\ rc.r.counted /\ work \in WorkState
      /\ global \in Nat /\ gw \in [Gateway -> Nat]
  BY <1>1, HealFacts
<1>3. /\ gw' \in [Gateway -> Nat] /\ global' \in Nat
      /\ rc.r.counted /\ global > 0 => global' = global - 1
  BY <1>1, <1>2, CountOutEffect
<1>4. rc' \in RcState /\ rc'.pc = "heal" /\ rc'.todo = rc.todo /\ rc'.leg = NoLeg /\ ~rc'.r.counted
  BY <1>1, <1>2, Records DEF RcState
<1>5. /\ work' \in WorkState /\ work'.pc = work.pc /\ (work' # Rest => work'.e = work.e)
      /\ work' = Rest <=> work = Rest
      /\ Holds(rc.leg, "rc") => work'.at = "out" /\ work'.r = rc.r
      /\ ~Holds(rc.leg, "rc") => work' = work
  <2>1. CASE Holds(rc.leg, "rc")
    <3>1. /\ work.pc \in {"count", "drop"} /\ work' \in WorkState /\ work'.pc = work.pc
          /\ work'.e = work.e /\ work'.at = "out" /\ work'.r = rc.r
      BY <1>1, <1>2, <2>1, MovedWork DEF Holds
    <3> QED
      BY <2>1, <3>1 DEF Rest
  <2>2. CASE ~Holds(rc.leg, "rc")
    BY <1>1, <1>2, <2>2
  <2> QED
    BY <2>1, <2>2
<1>6. WorkInv'
  <2>1. /\ work' # Rest => Sound(work'.e) /\ (CreatesB(work'.e) => work'.e.leg[2] <= chan[work'.e.leg[1]].leg)
        /\ work'.pc \in {"get", "count"} => work'.e.leg[2] = 0 \/ work'.e.type = "create"
    BY <1>5 DEF ShadowInv, WorkInv, Dialled, Rest
  <2>2. ASSUME work.pc \in {"count", "drop"}
        PROVE  /\ work'.at = "store" => store'[work'.e.leg].in /\ ~store'[work'.e.leg].merged
               /\ work'.at = "rc" => rc'.pc = "heal" /\ rc'.leg = work'.e.leg
               /\ work'.at = "out" => work'.r.counted
    <3>1. CASE Holds(rc.leg, "rc")
      BY <1>2, <1>5, <3>1
    <3>2. CASE ~Holds(rc.leg, "rc")
      <4>1. work' = work /\ work.at # "rc"
        BY <1>5, <2>2, <3>2 DEF ShadowInv, WorkInv, Holds
      <4> QED
        BY <1>1, <2>2, <4>1 DEF ShadowInv, WorkInv
    <3> QED
      BY <3>1, <3>2
  <2> QED
    BY <1>1, <1>5, <2>1, <2>2 DEF WorkInv, Sound, CreatesB, Dialled
<1>7. FreshInv'
  <2>1. work.pc = "type" => work # Rest
    BY DEF Rest
  <2> QED
    BY <1>1, <1>5, <2>1 DEF ShadowInv, FreshInv, CreatesB
<1>8. RcInv'
  BY <1>1, <1>4 DEF ShadowInv, RcInv
<1>9. CountInv'
  <2>1. CountedLegs' = CountedLegs /\ Cardinality(CountedLegs) \in Nat
    BY <1>1, CountedFinite DEF CountedLegs
  <2>2. Held = 1 /\ Held' = 0
    BY <1>1, <1>2, <1>4 DEF Held
  <2> QED
    BY <1>2, <1>3, <2>1, <2>2 DEF ShadowInv, CountInv
<1> QED
  BY <1>1, <1>3, <1>4, <1>5, <1>6, <1>7, <1>8, <1>9
  DEF ShadowInv, ShadowTyped, ChanInv, QueueInv, StoreInv, Dialled, CreatesB

LEMMA HealedStep ==
    ASSUME ShadowInv, Healed
    PROVE  ShadowInv'
<1>1. /\ rc.pc = "heal" /\ rc.leg = NoLeg /\ rc' = Asleep
      /\ UNCHANGED <<chan, evq, work, store, global, gw, cdrs>>
  BY DEF Healed
<1>2. rc' \in RcState /\ RcInv' /\ Held = 0 /\ Held' = 0
  BY <1>1 DEF ShadowInv, RcState, Asleep, RcInv, Held
<1>3. WorkInv'
  <2>1. work.pc \in {"count", "drop"} => work.at # "rc"
    <3>1. work.pc \in {"count", "drop"} => work.e.leg # NoLeg
      BY WorkPlaces, Constants DEF ShadowInv, ShadowTyped, Rest
    <3> QED
      BY <1>1, <3>1 DEF ShadowInv, WorkInv
  <2> QED
    BY <1>1, <2>1 DEF ShadowInv, WorkInv, Dialled
<1> QED
  BY <1>1, <1>2, <1>3
  DEF ShadowInv, ShadowTyped, ChanInv, QueueInv, FreshInv, StoreInv, CountInv, CountedLegs, Dialled, CreatesB

\* Nothing is stored, counted or under way.
LEMMA Blank ==
    ASSUME evq = <<>>, work = Rest, store = [l \in Leg |-> NoRec], global = 0,
           gw = [g \in Gateway |-> 0], rc = Asleep, cdrs \subseteq Leg,
           chan \in [Call -> [state : {"new", "up", "gone"}, leg : Legs, up : BOOLEAN]], ChanInv
    PROVE  ShadowInv
<1>1. \A l \in Leg : store[l] = NoRec
  OBVIOUS
<1>2. ShadowTyped
  <2>1. evq \in Seq(Event) /\ work \in WorkState /\ rc \in RcState
    BY DEF WorkState, RcState
  <2>2. store \in [Leg -> Record]
    BY Records
  <2> QED
    BY <2>1, <2>2 DEF ShadowTyped
<1>3. QueueInv /\ FreshInv /\ WorkInv /\ RcInv
  <2>1. DOMAIN evq = {}
    OBVIOUS
  <2>2. work.pc = "rest" /\ rc.pc = "sleep"
    BY DEF Rest, Asleep
  <2> QED
    BY <2>1, <2>2 DEF QueueInv, FreshInv, WorkInv, RcInv
<1>4. StoreInv
  BY <1>1, Records DEF StoreInv
<1>5. CountInv
  <2>1. CountedLegs = {} /\ Held = 0
    BY <1>1, Records DEF CountedLegs, Held, Asleep
  <2> QED
    BY <2>1, FS_EmptySet DEF CountInv
<1> QED
  BY <1>2, <1>3, <1>4, <1>5 DEF ShadowInv

LEMMA RestartStep ==
    ASSUME ShadowInv, Restart
    PROVE  ShadowInv'
<1>1. /\ evq' = <<>> /\ work' = Rest /\ store' = [l \in Leg |-> NoRec] /\ global' = 0
      /\ gw' = [g \in Gateway |-> 0] /\ rc' = Asleep /\ cdrs' \subseteq Leg
      /\ chan' \in [Call -> [state : {"new", "up", "gone"}, leg : Legs, up : BOOLEAN]] /\ ChanInv'
  BY DEF Restart, ShadowInv, ShadowTyped, ChanInv
<1>2. ShadowTyped'
  <2>1. evq' \in Seq(Event) /\ work' \in WorkState /\ rc' \in RcState
    BY <1>1 DEF WorkState, RcState
  <2>2. store' \in [Leg -> Record]
    BY <1>1, Records
  <2> QED
    BY <1>1, <2>1, <2>2 DEF ShadowTyped
<1>3. QueueInv' /\ FreshInv' /\ WorkInv' /\ RcInv'
  <2>1. DOMAIN evq' = {}
    BY <1>1
  <2>2. work'.pc = "rest" /\ rc'.pc = "sleep"
    BY <1>1 DEF Rest, Asleep
  <2> QED
    BY <1>1, <2>1, <2>2 DEF QueueInv, FreshInv, WorkInv, RcInv
<1>4. \A l \in Leg : store'[l] = NoRec
  BY <1>1
<1>5. StoreInv'
  BY <1>4, Records DEF StoreInv
<1>6. CountInv'
  <2>1. CountedLegs' = {} /\ Held' = 0
    BY <1>1, <1>4, Records DEF CountedLegs, Held, Asleep
  <2> QED
    BY <1>1, <2>1, FS_EmptySet DEF CountInv
<1> QED
  BY <1>1, <1>2, <1>3, <1>5, <1>6 DEF ShadowInv
-----------------------------------------------------------------------------
(* The theorem. *)

LEMMA ShadowInit ==
    ASSUME Init
    PROVE  ShadowInv
<1>1. \A c \in Call : chan[c] = [state |-> "new", leg |-> 0, up |-> FALSE]
  BY DEF Init
<1>2. [state |-> "new", leg |-> 0, up |-> FALSE] \in [state : {"new", "up", "gone"}, leg : Legs, up : BOOLEAN]
  BY Constants
<1>3. chan \in [Call -> [state : {"new", "up", "gone"}, leg : Legs, up : BOOLEAN]] /\ ChanInv
  <2>1. ChanInv
    BY <1>1 DEF ChanInv
  <2> QED
    BY <1>2, <2>1 DEF Init
<1> QED
  BY <1>3, Blank DEF Init

LEMMA ShadowStep ==
    ASSUME ShadowInv, [Next]_vars
    PROVE  ShadowInv'
<1>1. CASE \E c \in Call : Channel(c)
  BY <1>1, ChannelStep
<1>2. CASE Worker
  BY <1>2, WorkerStep
<1>3. CASE Reconcile
  BY <1>3, LookStep, HealStep, HealCountStep, HealedStep DEF Reconcile
<1>4. CASE Restart
  BY <1>4, RestartStep
<1>5. CASE UNCHANGED vars
  BY <1>5
  DEF vars, ShadowInv, ShadowTyped, ChanInv, QueueInv, FreshInv, WorkInv, StoreInv, RcInv,
      CountInv, CountedLegs, Held, Dialled, CreatesB
<1> QED
  BY <1>1, <1>2, <1>3, <1>4, <1>5 DEF Next

\* For any calls and route, however the worker and the reconcile thread interleave and
\* whatever events or processes are lost, the global shadow counter (_conc) is the number
\* of counted records, in _call_store or in the hands of the reconcile thread.
THEOREM GlobalAlwaysRecords == Spec => []GlobalIsRecords
<1>1. Init => ShadowInv
  BY ShadowInit
<1>2. ShadowInv /\ [Next]_vars => ShadowInv'
  BY ShadowStep
<1>3. ShadowInv => GlobalIsRecords
  BY DEF ShadowInv, ShadowTyped, CountInv, CountedLegs, Held, GlobalIsRecords, TypeOK
<1> QED
  BY <1>1, <1>2, <1>3, PTL DEF Spec

-----------------------------------------------------------------------------
(* The stream of events of a connection. *)

WirePiece == [what : {"len", "type", "blank", "name", "end", "reply"}, e : Nat]

Elements(s) == {s[i] : i \in DOMAIN s}

\* The pieces w on the wire carry events in order, and later than all of a, which have
\* arrived; n is the last that was sent, and 0 a hollow event.
InOrder(w, a, n) ==
    /\ \A i \in DOMAIN w : w[i].what = "end" => w[i].e \in 1..n
    /\ \A i, j \in DOMAIN w : i < j /\ w[i].what = "end" /\ w[j].what = "end" => w[i].e < w[j].e
    /\ \A i \in DOMAIN a : a[i] \in 0..n
    /\ \A i, j \in DOMAIN a : i < j /\ a[i] # 0 /\ a[j] # 0 => a[i] < a[j]
    /\ \A i \in DOMAIN a, j \in DOMAIN w : w[j].what = "end" => a[i] < w[j].e

\* What the worker has taken and will take, in order.
Arrived == handled \o queue

StreamTyped ==
    /\ sent \in 0..MaxEvents /\ subscribed \in BOOLEAN /\ link \in {"up", "closed", "down"}
    /\ wire \in Seq(WirePiece)
    /\ mode \in {"header", "body", "reply", "drain"} /\ lines \subseteq {"len", "type", "reply", "name"}
    /\ queue \in Seq(Nat) /\ handled \in Seq(Nat) /\ Len(queue) <= QueueSize
    /\ idle \in Nat /\ alive \in BOOLEAN /\ hollow \in Nat /\ request \in BOOLEAN /\ gap \in BOOLEAN

Accounted(w, a, lost, n) == 1..n = (Stream!Events(w) \cup Elements(a) \cup lost) \ {0}

\* A reply that is waited for has not cost an event yet.
TakenInv ==
    /\ IsFiniteSet(taken) /\ resubs \in Nat
    /\ Cardinality(taken) + (IF mode \in {"reply", "drain"} THEN 1 ELSE 0) <= resubs

StreamInv ==
    /\ StreamTyped
    /\ InOrder(wire, Arrived, sent)
    /\ Accounted(wire, Arrived, taken \cup dropped \cup cut \cup torn, sent)
    /\ TakenInv
-----------------------------------------------------------------------------
(* Sequences. *)

LEMMA AppendElements ==
    ASSUME NEW S, NEW s \in Seq(S), NEW e \in S
    PROVE  /\ Append(s, e) \in Seq(S) /\ Elements(Append(s, e)) = Elements(s) \cup {e}
           /\ \A i \in DOMAIN Append(s, e) :
                \/ i \in DOMAIN s /\ Append(s, e)[i] = s[i]
                \/ i = Len(s) + 1 /\ i \notin DOMAIN s /\ Append(s, e)[i] = e
<1>1. /\ Append(s, e) \in Seq(S) /\ Len(Append(s, e)) = Len(s) + 1 /\ Len(s) \in Nat
      /\ DOMAIN Append(s, e) = 1..(Len(s) + 1) /\ DOMAIN s = 1..Len(s)
      /\ \A i \in 1..Len(s) : Append(s, e)[i] = s[i]
      /\ Append(s, e)[Len(s) + 1] = e
  OBVIOUS
<1>2. \A i \in DOMAIN Append(s, e) :
        \/ i \in DOMAIN s /\ Append(s, e)[i] = s[i]
        \/ i = Len(s) + 1 /\ i \notin DOMAIN s /\ Append(s, e)[i] = e
  BY <1>1
<1>3. Elements(Append(s, e)) \subseteq Elements(s) \cup {e}
  BY <1>2 DEF Elements
<1>4. Elements(s) \cup {e} \subseteq Elements(Append(s, e))
  <2>1. DOMAIN s \subseteq DOMAIN Append(s, e) /\ Len(s) + 1 \in DOMAIN Append(s, e)
    BY <1>1
  <2> QED
    BY <2>1, <1>1 DEF Elements
<1> QED
  BY <1>1, <1>2, <1>3, <1>4

\* The worker moves what is queued to what is handled.
LEMMA MovedElement ==
    ASSUME NEW s \in Seq(Nat), NEW t \in Seq(Nat), t # <<>>
    PROVE  Append(s, Head(t)) \o Tail(t) = s \o t
<1>1. /\ s \o t \in Seq(Nat) /\ Append(s, Head(t)) \o Tail(t) \in Seq(Nat)
      /\ Len(Append(s, Head(t)) \o Tail(t)) = Len(s \o t)
  OBVIOUS
<1>2. \A i \in 1..Len(s \o t) : (Append(s, Head(t)) \o Tail(t))[i] = (s \o t)[i]
  OBVIOUS
<1> QED
  BY <1>1, <1>2

\* What is queued comes behind all that was queued or handled.
LEMMA QueuedBehind ==
    ASSUME NEW s \in Seq(Nat), NEW t \in Seq(Nat), NEW e \in Nat
    PROVE  s \o Append(t, e) = Append(s \o t, e)
<1>1. /\ s \o Append(t, e) \in Seq(Nat) /\ Append(s \o t, e) \in Seq(Nat)
      /\ Len(s \o Append(t, e)) = Len(Append(s \o t, e))
  OBVIOUS
<1>2. \A i \in 1..Len(Append(s \o t, e)) : (s \o Append(t, e))[i] = Append(s \o t, e)[i]
  OBVIOUS
<1> QED
  BY <1>1, <1>2
-----------------------------------------------------------------------------
(* What is on the wire. *)

LEMMA Frames ==
    /\ \A e \in Nat :
         /\ Stream!Frame(e) \in Seq(WirePiece) /\ DOMAIN Stream!Frame(e) = 1..5
         /\ \A i \in 1..5 : Stream!Frame(e)[i].what = "end" <=> i = 5
         /\ Stream!Frame(e)[5].e = e
    /\ Stream!ReplyFrame \in Seq(WirePiece) /\ DOMAIN Stream!ReplyFrame = 1..2
    /\ \A i \in 1..2 : Stream!ReplyFrame[i].what # "end"
  BY DEF Stream!Frame, Stream!ReplyFrame, Stream!Piece, WirePiece

LEMMA EventsOfSend ==
    ASSUME NEW w \in Seq(WirePiece), NEW e \in Nat
    PROVE  Stream!Events(w \o Stream!Frame(e)) = Stream!Events(w) \cup {e}
<1> DEFINE f == Stream!Frame(e)
<1> DEFINE new == w \o f
<1>1. /\ f \in Seq(WirePiece) /\ DOMAIN f = 1..5 /\ f[5].e = e
      /\ \A i \in 1..5 : f[i].what = "end" <=> i = 5
  BY Frames
<1> HIDE DEF f
<1>2. /\ \A i \in DOMAIN new :
           \/ i \in DOMAIN w /\ new[i] = w[i]
           \/ i \notin DOMAIN w /\ i - Len(w) \in DOMAIN f /\ new[i] = f[i - Len(w)]
      /\ \A i \in DOMAIN w : i \in DOMAIN new /\ new[i] = w[i]
  BY <1>1, ConcatElements, Zenon
<1>3. \A i \in DOMAIN f : i + Len(w) \in DOMAIN new /\ new[i + Len(w)] = f[i]
  BY <1>1, ConcatElements
<1> HIDE DEF new
<1>4. Stream!Events(new) \subseteq Stream!Events(w) \cup {e}
  BY <1>1, <1>2 DEF Stream!Events
<1>5. Stream!Events(w) \subseteq Stream!Events(new)
  BY <1>2 DEF Stream!Events
<1>6. e \in Stream!Events(new)
  BY <1>1, <1>3 DEF Stream!Events
<1> QED
  BY <1>4, <1>5, <1>6 DEF new, f

LEMMA EventsOfReply ==
    ASSUME NEW w \in Seq(WirePiece)
    PROVE  Stream!Events(w \o Stream!ReplyFrame) = Stream!Events(w)
<1> DEFINE f == Stream!ReplyFrame
<1> DEFINE new == w \o f
<1>1. /\ f \in Seq(WirePiece) /\ DOMAIN f = 1..2 /\ \A i \in 1..2 : f[i].what # "end"
  BY Frames
<1> HIDE DEF f
<1>2. /\ \A i \in DOMAIN new :
           \/ i \in DOMAIN w /\ new[i] = w[i]
           \/ i \notin DOMAIN w /\ i - Len(w) \in DOMAIN f /\ new[i] = f[i - Len(w)]
      /\ \A i \in DOMAIN w : i \in DOMAIN new /\ new[i] = w[i]
  BY <1>1, ConcatElements, Zenon
<1> HIDE DEF new
<1>3. Stream!Events(new) \subseteq Stream!Events(w)
  BY <1>1, <1>2 DEF Stream!Events
<1>4. Stream!Events(w) \subseteq Stream!Events(new)
  BY <1>2 DEF Stream!Events
<1> QED
  BY <1>3, <1>4 DEF new, f

LEMMA EventsOfTail ==
    ASSUME NEW w \in Seq(WirePiece), w # <<>>
    PROVE  /\ Head(w).what = "end" => Stream!Events(w) = Stream!Events(Tail(w)) \cup {Head(w).e}
           /\ Head(w).what # "end" => Stream!Events(w) = Stream!Events(Tail(w))
<1> DEFINE rest == Tail(w)
<1>1. /\ 1 \in DOMAIN w /\ Head(w) = w[1]
      /\ \A i \in DOMAIN rest : i + 1 \in DOMAIN w /\ i \in Nat \ {0} /\ rest[i] = w[i + 1]
      /\ \A i \in DOMAIN w : i = 1 \/ (i - 1 \in DOMAIN rest /\ w[i] = rest[i - 1])
  BY TailElements
<1> HIDE DEF rest
<1>2. Stream!Events(rest) \subseteq Stream!Events(w)
  BY <1>1 DEF Stream!Events
<1>3. \A x \in Stream!Events(w) :
        x \in Stream!Events(rest) \/ (Head(w).what = "end" /\ x = Head(w).e)
  <2> SUFFICES ASSUME NEW x \in Stream!Events(w), x \notin Stream!Events(rest)
               PROVE  Head(w).what = "end" /\ x = Head(w).e
    OBVIOUS
  <2>1. PICK i \in DOMAIN w : w[i].what = "end" /\ w[i].e = x
    BY DEF Stream!Events
  <2>2. i = 1
    <3> SUFFICES ASSUME i # 1 PROVE FALSE
      OBVIOUS
    <3>1. i - 1 \in DOMAIN rest /\ rest[i - 1] = w[i]
      BY <1>1
    <3> QED
      BY <2>1, <3>1 DEF Stream!Events
  <2> QED
    BY <2>1, <2>2, <1>1
<1>4. Head(w).what = "end" => Head(w).e \in Stream!Events(w)
  BY <1>1 DEF Stream!Events
<1> QED
  BY <1>2, <1>3, <1>4 DEF rest

LEMMA EventsOfNothing == Stream!Events(<<>>) = {}
  BY DEF Stream!Events
-----------------------------------------------------------------------------
(* The order, by what a step does to the wire and to what has arrived. *)

LEMMA OrderSent ==
    ASSUME NEW w \in Seq(WirePiece), NEW a \in Seq(Nat), NEW n \in Nat, InOrder(w, a, n)
    PROVE  InOrder(w \o Stream!Frame(n + 1), a, n + 1)
<1> DEFINE f == Stream!Frame(n + 1)
<1> DEFINE new == w \o f
<1>1. /\ f \in Seq(WirePiece) /\ DOMAIN f = 1..5 /\ f[5].e = n + 1
      /\ \A i \in 1..5 : f[i].what = "end" <=> i = 5
  BY Frames
<1> HIDE DEF f
<1>2. \A i \in DOMAIN new :
           \/ i \in DOMAIN w /\ new[i] = w[i]
           \/ i \notin DOMAIN w /\ i - Len(w) \in DOMAIN f /\ new[i] = f[i - Len(w)]
  BY <1>1, ConcatElements, Zenon
<1>3. DOMAIN w = 1..Len(w) /\ Len(w) \in Nat /\ DOMAIN new \subseteq Nat
  BY <1>1
<1> HIDE DEF new
\* The bodies of the new frame: the last piece.
<1>4. \A i \in DOMAIN new : new[i].what = "end" =>
        \/ i \in DOMAIN w /\ new[i] = w[i]
        \/ i = Len(w) + 5 /\ new[i].e = n + 1
  <2> SUFFICES ASSUME NEW i \in DOMAIN new, new[i].what = "end", ~(i \in DOMAIN w /\ new[i] = w[i])
               PROVE  i = Len(w) + 5 /\ new[i].e = n + 1
    OBVIOUS
  <2>1. i \in Nat /\ i - Len(w) \in 1..5 /\ new[i] = f[i - Len(w)]
    BY <1>1, <1>2, <1>3
  <2>2. i - Len(w) = 5
    BY <2>1, <1>1
  <2> QED
    BY <2>1, <2>2, <1>1, <1>3
<1>5. \A i \in DOMAIN w : w[i].what = "end" => w[i].e \in 1..n
  BY DEF InOrder
<1>6. \A i, j \in DOMAIN w : i < j /\ w[i].what = "end" /\ w[j].what = "end" => w[i].e < w[j].e
  BY DEF InOrder
<1>7. /\ \A i \in DOMAIN a : a[i] \in 0..n
      /\ \A i, j \in DOMAIN a : i < j /\ a[i] # 0 /\ a[j] # 0 => a[i] < a[j]
      /\ \A i \in DOMAIN a, j \in DOMAIN w : w[j].what = "end" => a[i] < w[j].e
  BY DEF InOrder
<1>8. \A i \in DOMAIN new : new[i].what = "end" => new[i].e \in 1..(n + 1)
  BY <1>4, <1>5
<1>9. \A i, j \in DOMAIN new :
        i < j /\ new[i].what = "end" /\ new[j].what = "end" => new[i].e < new[j].e
  <2> SUFFICES ASSUME NEW i \in DOMAIN new, NEW j \in DOMAIN new, i < j,
                      new[i].what = "end", new[j].what = "end"
               PROVE  new[i].e < new[j].e
    OBVIOUS
  <2>1. CASE j \in DOMAIN w /\ new[j] = w[j]
    <3>1. i \in DOMAIN w /\ new[i] = w[i]
      BY <1>3, <1>4, <2>1
    <3> QED
      BY <3>1, <2>1, <1>6
  <2>2. CASE j = Len(w) + 5 /\ new[j].e = n + 1
    <3>1. i \in DOMAIN w /\ new[i] = w[i]
      BY <1>3, <1>4, <2>2
    <3> QED
      BY <3>1, <2>2, <1>5
  <2> QED
    BY <2>1, <2>2, <1>4
<1>10. \A i \in DOMAIN a, j \in DOMAIN new : new[j].what = "end" => a[i] < new[j].e
  BY <1>4, <1>7
<1>11. \A i \in DOMAIN a : a[i] \in 0..(n + 1)
  BY <1>7
<1> QED
  BY <1>7, <1>8, <1>9, <1>10, <1>11 DEF InOrder, new, f

LEMMA OrderReply ==
    ASSUME NEW w \in Seq(WirePiece), NEW a \in Seq(Nat), NEW n \in Nat, InOrder(w, a, n)
    PROVE  InOrder(w \o Stream!ReplyFrame, a, n)
<1> DEFINE f == Stream!ReplyFrame
<1> DEFINE new == w \o f
<1>1. f \in Seq(WirePiece) /\ DOMAIN f = 1..2 /\ \A i \in 1..2 : f[i].what # "end"
  BY Frames
<1> HIDE DEF f
<1>2. \A i \in DOMAIN new :
           \/ i \in DOMAIN w /\ new[i] = w[i]
           \/ i \notin DOMAIN w /\ i - Len(w) \in DOMAIN f /\ new[i] = f[i - Len(w)]
  BY <1>1, ConcatElements, Zenon
<1> HIDE DEF new
<1>3. \A i \in DOMAIN new : new[i].what = "end" => i \in DOMAIN w /\ new[i] = w[i]
  BY <1>1, <1>2
<1> QED
  BY <1>3 DEF InOrder, new, f

LEMMA OrderDropped ==
    ASSUME NEW w \in Seq(WirePiece), NEW a \in Seq(Nat), NEW n \in Nat, InOrder(w, a, n), w # <<>>
    PROVE  InOrder(Tail(w), a, n)
<1> DEFINE rest == Tail(w)
<1>1. \A i \in DOMAIN rest : i + 1 \in DOMAIN w /\ i \in Nat \ {0} /\ rest[i] = w[i + 1]
  BY TailElements
<1> HIDE DEF rest
<1>2. \A i, j \in DOMAIN rest : i < j => i + 1 < j + 1
  BY <1>1
<1> QED
  BY <1>1, <1>2 DEF InOrder, rest

\* A body is delivered: the events behind it are later, those before it earlier.
LEMMA OrderDelivered ==
    ASSUME NEW w \in Seq(WirePiece), NEW a \in Seq(Nat), NEW n \in Nat, InOrder(w, a, n),
           w # <<>>, Head(w).what = "end"
    PROVE  InOrder(Tail(w), Append(a, Head(w).e), n)
<1> DEFINE rest == Tail(w)
<1> DEFINE b == Append(a, Head(w).e)
<1>1. /\ 1 \in DOMAIN w /\ Head(w) = w[1]
      /\ \A i \in DOMAIN rest : i + 1 \in DOMAIN w /\ i \in Nat \ {0} /\ rest[i] = w[i + 1]
  BY TailElements
<1>2. Head(w).e \in Nat
  <2>1. Head(w) \in WirePiece
    BY TailElements
  <2> QED
    BY <2>1 DEF WirePiece
<1>3. /\ \A i \in DOMAIN b : \/ i \in DOMAIN a /\ b[i] = a[i]
                             \/ i = Len(a) + 1 /\ i \notin DOMAIN a /\ b[i] = Head(w).e
      /\ DOMAIN a = 1..Len(a) /\ Len(a) \in Nat
  BY <1>2, AppendElements
<1>4. InOrder(rest, a, n)
  BY OrderDropped
<1> HIDE DEF rest, b
<1>5. w[1].e \in 1..n /\ \A i \in DOMAIN a : a[i] < w[1].e
  BY <1>1 DEF InOrder
<1>6. \A j \in DOMAIN rest : rest[j].what = "end" => w[1].e < rest[j].e
  <2>1. \A i \in DOMAIN w : 1 < i /\ w[i].what = "end" => w[1].e < w[i].e
    BY <1>1 DEF InOrder
  <2>2. \A j \in DOMAIN rest : 1 < j + 1
    BY <1>1
  <2> QED
    BY <2>1, <2>2, <1>1
<1>7. \A i \in DOMAIN b : b[i] \in 0..n
  BY <1>1, <1>3, <1>5 DEF InOrder
<1>8. \A i, j \in DOMAIN b : i < j /\ b[i] # 0 /\ b[j] # 0 => b[i] < b[j]
  <2> SUFFICES ASSUME NEW i \in DOMAIN b, NEW j \in DOMAIN b, i < j, b[i] # 0, b[j] # 0
               PROVE  b[i] < b[j]
    OBVIOUS
  <2>1. i \in DOMAIN a /\ b[i] = a[i]
    BY <1>3
  <2>2. CASE j \in DOMAIN a /\ b[j] = a[j]
    BY <2>1, <2>2 DEF InOrder
  <2>3. CASE b[j] = Head(w).e
    BY <2>1, <2>3, <1>1, <1>5
  <2> QED
    BY <2>2, <2>3, <1>3
<1>9. \A i \in DOMAIN b, j \in DOMAIN rest : rest[j].what = "end" => b[i] < rest[j].e
  BY <1>1, <1>3, <1>4, <1>6 DEF InOrder
<1> QED
  BY <1>4, <1>7, <1>8, <1>9 DEF InOrder, rest, b

LEMMA OrderHollow ==
    ASSUME NEW w \in Seq(WirePiece), NEW a \in Seq(Nat), NEW n \in Nat, InOrder(w, a, n)
    PROVE  InOrder(w, Append(a, 0), n)
<1> DEFINE b == Append(a, 0)
<1>1. \A i \in DOMAIN b : \/ i \in DOMAIN a /\ b[i] = a[i]
                          \/ b[i] = 0
  BY AppendElements
<1> HIDE DEF b
<1>2. \A i \in DOMAIN b : b[i] \in 0..n
  BY <1>1 DEF InOrder
<1>3. \A i, j \in DOMAIN b : i < j /\ b[i] # 0 /\ b[j] # 0 => b[i] < b[j]
  BY <1>1 DEF InOrder
<1>4. \A i \in DOMAIN b, j \in DOMAIN w : w[j].what = "end" => b[i] < w[j].e
  BY <1>1 DEF InOrder
<1> QED
  BY <1>2, <1>3, <1>4 DEF InOrder, b

LEMMA OrderCut ==
    ASSUME NEW w, NEW a, NEW n, InOrder(w, a, n)
    PROVE  InOrder(<<>>, a, n)
  BY DEF InOrder
-----------------------------------------------------------------------------
(* What has arrived. *)

LEMMA ArrivedTyped ==
    ASSUME StreamTyped
    PROVE  Arrived \in Seq(Nat) /\ Len(Arrived) \in Nat
  BY DEF StreamTyped, Arrived

LEMMA ElementsSame ==
    ASSUME queue' = queue, handled' = handled
    PROVE  Arrived' = Arrived
  BY DEF Arrived

\* Enqueue puts the event last, or the full queue drops it.
LEMMA Enqueued ==
    ASSUME StreamTyped, NEW e \in Nat, Stream!Enqueue(e), handled' = handled
    PROVE  /\ queue' \in Seq(Nat) /\ Len(queue') <= QueueSize /\ hollow' \in Nat
           /\ \/ Arrived' = Append(Arrived, e) /\ dropped' = dropped
              \/ Arrived' = Arrived /\ dropped' = dropped \cup ({e} \ {0})
<1>1. queue \in Seq(Nat) /\ handled \in Seq(Nat) /\ hollow \in Nat /\ Len(queue) <= QueueSize
      /\ QueueSize \in Nat
  BY StreamAssumption DEF StreamTyped, Stream!EslConstants
<1>2. CASE Len(queue) < QueueSize
  <2>1. /\ queue' = Append(queue, e) /\ dropped' = dropped
        /\ hollow' = (IF e = 0 THEN hollow + 1 ELSE hollow)
    BY <1>2 DEF Stream!Enqueue
  <2>2. queue' \in Seq(Nat) /\ Len(queue') <= QueueSize /\ hollow' \in Nat
    BY <2>1, <1>1, <1>2
  <2>3. handled \o queue' = Append(handled \o queue, e)
    BY <2>1, <1>1, QueuedBehind
  <2> QED
    BY <2>1, <2>2, <2>3 DEF Arrived
<1>3. CASE ~(Len(queue) < QueueSize)
  <2>1. queue' = queue /\ hollow' = hollow /\ dropped' = dropped \cup ({e} \ {0})
    BY <1>3 DEF Stream!Enqueue
  <2> QED
    BY <2>1, <1>1, ElementsSame
<1> QED
  BY <1>2, <1>3
-----------------------------------------------------------------------------
(* The steps. *)

LEMMA InitStep ==
    ASSUME Stream!Init
    PROVE  StreamInv
<1>1. /\ sent = 0 /\ subscribed = TRUE /\ link = "up" /\ wire = <<>> /\ mode = "header"
      /\ lines = {} /\ idle = 0 /\ queue = <<>> /\ handled = <<>> /\ hollow = 0
      /\ taken = {} /\ dropped = {} /\ cut = {} /\ torn = {} /\ alive = TRUE /\ request = TRUE /\ gap = FALSE /\ resubs = 0
  BY DEF Stream!Init
<1>2. MaxEvents \in Nat /\ QueueSize \in Nat
  BY StreamAssumption DEF Stream!EslConstants
<1>3. StreamTyped
  <2>1. wire \in Seq(WirePiece) /\ queue \in Seq(Nat) /\ handled \in Seq(Nat) /\ Len(queue) <= QueueSize
    BY <1>1, <1>2
  <2>2. sent \in 0..MaxEvents /\ idle \in Nat /\ alive \in BOOLEAN /\ hollow \in Nat
    BY <1>1, <1>2
  <2>3. subscribed \in BOOLEAN /\ request \in BOOLEAN /\ gap \in BOOLEAN
    BY <1>1
  <2>4. /\ link \in {"up", "closed", "down"} /\ mode \in {"header", "body", "reply", "drain"}
        /\ lines \subseteq {"len", "type", "reply", "name"}
    BY <1>1
  <2> QED
    BY <2>1, <2>2, <2>3, <2>4 DEF StreamTyped
<1>4. Arrived = <<>>
  BY <1>1 DEF Arrived
<1>5. InOrder(<<>>, <<>>, 0)
  BY DEF InOrder
<1>6. Accounted(<<>>, <<>>, {}, 0)
  BY EventsOfNothing DEF Accounted, Elements
<1>7. taken \cup dropped \cup cut \cup torn = {}
  BY <1>1
<1>8. TakenInv
  BY <1>1, FS_EmptySet DEF TakenInv
<1> QED
  BY <1>1, <1>3, <1>4, <1>5, <1>6, <1>7, <1>8 DEF StreamInv

LEMMA SendStep ==
    ASSUME StreamInv, Stream!Send
    PROVE  StreamInv'
<1>1. /\ sent < MaxEvents /\ sent' = sent + 1 /\ wire' = wire \o Stream!Frame(sent + 1)
      /\ subscribed' = subscribed /\ link' = link /\ queue' = queue /\ handled' = handled
      /\ hollow' = hollow /\ request' = request /\ gap' = gap /\ mode' = mode /\ lines' = lines
      /\ idle' = idle /\ alive' = alive /\ taken' = taken /\ dropped' = dropped /\ cut' = cut /\ torn' = torn /\ resubs' = resubs
  BY DEF Stream!Send, Stream!reader, Stream!history, Stream!bounds
<1>2. StreamTyped /\ TakenInv /\ sent \in Nat /\ sent \in 0..MaxEvents /\ wire \in Seq(WirePiece) /\ MaxEvents \in Nat
  BY StreamAssumption DEF StreamInv, StreamTyped, Stream!EslConstants
<1>3. wire' \in Seq(WirePiece)
  BY <1>1, <1>2, Frames, ConcatElements
<1>4. sent' \in 0..MaxEvents
  BY <1>1, <1>2
<1>5. StreamTyped'
  BY <1>1, <1>2, <1>3, <1>4 DEF StreamTyped
<1>6. Arrived' = Arrived /\ Arrived \in Seq(Nat)
  BY <1>1, <1>2, ElementsSame, ArrivedTyped
<1>7. InOrder(wire', Arrived', sent')
  BY <1>1, <1>2, <1>6, OrderSent DEF StreamInv
<1>8. Stream!Events(wire') = Stream!Events(wire) \cup {sent + 1}
  BY <1>1, <1>2, EventsOfSend
<1>9. Accounted(wire', Arrived', (taken \cup dropped \cup cut \cup torn)', sent')
  <2>1. 1..sent' = 1..sent \cup {sent + 1}
    BY <1>1, <1>2
  <2>2. Accounted(wire, Arrived, taken \cup dropped \cup cut \cup torn, sent) /\ sent + 1 # 0
    BY <1>2 DEF StreamInv
  <2> QED
    BY <1>1, <1>6, <1>8, <2>1, <2>2 DEF Accounted
<1>10. TakenInv'
  BY <1>1, <1>2 DEF TakenInv
<1> QED
  BY <1>5, <1>7, <1>9, <1>10 DEF StreamInv

\* What was on the wire is lost with the connection.
LEMMA CutStep ==
    ASSUME StreamInv, StreamTyped', wire' = <<>>, cut' = cut \cup Stream!Events(wire) /\ torn' = torn,
           sent' = sent, queue' = queue, handled' = handled, taken' = taken,
           dropped' = dropped, mode' = mode, resubs' = resubs
    PROVE  StreamInv'
<1>1. Arrived' = Arrived
  BY ElementsSame
<1>2. InOrder(wire', Arrived', sent')
  BY <1>1, OrderCut DEF StreamInv
<1>3. Accounted(wire', Arrived', (taken \cup dropped \cup cut \cup torn)', sent')
  BY <1>1, EventsOfNothing DEF StreamInv, Accounted
<1>4. TakenInv'
  BY DEF StreamInv, TakenInv
<1> QED
  BY <1>2, <1>3, <1>4 DEF StreamInv

LEMMA BreakStep ==
    ASSUME StreamInv, Stream!Break
    PROVE  StreamInv'
<1>1. /\ link' = "closed" /\ wire' = <<>> /\ subscribed' = FALSE /\ gap' = TRUE
      /\ cut' = cut \cup Stream!Events(wire) /\ torn' = torn
      /\ sent' = sent /\ queue' = queue /\ handled' = handled /\ hollow' = hollow
      /\ request' = request /\ mode' = mode /\ lines' = lines /\ idle' = idle /\ alive' = alive /\ taken' = taken
      /\ dropped' = dropped /\ resubs' = resubs
  BY DEF Stream!Break, Stream!reader
<1>2. wire' \in Seq(WirePiece)
  BY <1>1
<1>3. StreamTyped'
  BY <1>1, <1>2 DEF StreamInv, StreamTyped
<1> QED
  BY <1>1, <1>3, CutStep

\* A step that touches neither events nor frames.
LEMMA QuietStep ==
    ASSUME StreamInv, StreamTyped', wire' = wire, Arrived' = Arrived, sent' = sent,
           taken' = taken, dropped' = dropped, cut' = cut /\ torn' = torn, resubs' = resubs,
           mode' = mode \/ mode' = "header"
    PROVE  StreamInv'
<1>1. Accounted(wire', Arrived', (taken \cup dropped \cup cut \cup torn)', sent')
  BY DEF StreamInv
<1>2. InOrder(wire', Arrived', sent')
  BY DEF StreamInv
<1>3. TakenInv'
  <2>1. IsFiniteSet(taken) /\ Cardinality(taken) \in Nat /\ resubs \in Nat
    BY FS_CardinalityType DEF StreamInv, TakenInv
  <2>2. mode' \notin {"reply", "drain"} \/ mode \in {"reply", "drain"}
    OBVIOUS
  <2> QED
    BY <2>1, <2>2 DEF StreamInv, TakenInv
<1> QED
  BY <1>1, <1>2, <1>3 DEF StreamInv

LEMMA LoseSubscriptionStep ==
    ASSUME StreamInv, Stream!LoseSubscription
    PROVE  StreamInv'
<1>1. /\ subscribed' = FALSE
      /\ sent' = sent /\ link' = link /\ wire' = wire /\ queue' = queue /\ handled' = handled
      /\ hollow' = hollow /\ request' = request /\ gap' = gap /\ mode' = mode /\ lines' = lines
      /\ idle' = idle /\ alive' = alive /\ taken' = taken /\ dropped' = dropped /\ cut' = cut /\ torn' = torn /\ resubs' = resubs
  BY DEF Stream!LoseSubscription, Stream!reader, Stream!history
<1>2. StreamTyped'
  BY <1>1 DEF StreamInv, StreamTyped
<1>3. Arrived' = Arrived
  BY <1>1, ElementsSame
<1> QED
  BY <1>1, <1>2, <1>3, QuietStep

LEMMA FindClosedStep ==
    ASSUME StreamInv, Stream!FindClosed
    PROVE  StreamInv'
<1>1. /\ link' = "down" /\ mode' = "header" /\ lines' = {}
      /\ sent' = sent /\ subscribed' = subscribed /\ wire' = wire /\ idle' = idle /\ alive' = alive
      /\ queue' = queue /\ handled' = handled /\ hollow' = hollow /\ request' = request
      /\ gap' = gap /\ taken' = taken /\ dropped' = dropped /\ cut' = cut /\ torn' = torn /\ resubs' = resubs
  BY DEF Stream!FindClosed, Stream!history, Stream!bounds
<1>2. StreamTyped'
  BY <1>1 DEF StreamInv, StreamTyped
<1>3. Arrived' = Arrived
  BY <1>1, ElementsSame
<1> QED
  BY <1>1, <1>2, <1>3, QuietStep

LEMMA ConnectStep ==
    ASSUME StreamInv, Stream!Connect
    PROVE  StreamInv'
<1>1. /\ link' = "up" /\ subscribed' = TRUE /\ idle' = 0 /\ alive' = TRUE /\ request' = TRUE
      /\ sent' = sent /\ wire' = wire /\ mode' = mode /\ lines' = lines /\ queue' = queue
      /\ handled' = handled /\ hollow' = hollow /\ gap' = gap /\ taken' = taken
      /\ dropped' = dropped /\ cut' = cut /\ torn' = torn /\ resubs' = resubs
  BY DEF Stream!Connect, Stream!history, Stream!bounds
<1>2. StreamTyped'
  BY <1>1 DEF StreamInv, StreamTyped
<1>3. Arrived' = Arrived
  BY <1>1, ElementsSame
<1> QED
  BY <1>1, <1>2, <1>3, QuietStep

LEMMA ReconcileStep ==
    ASSUME StreamInv, Stream!Reconcile
    PROVE  StreamInv'
<1>1. /\ request' = FALSE /\ gap' = (IF link = "up" THEN FALSE ELSE gap)
      /\ sent' = sent /\ subscribed' = subscribed /\ link' = link /\ wire' = wire
      /\ queue' = queue /\ handled' = handled /\ hollow' = hollow /\ mode' = mode
      /\ lines' = lines /\ idle' = idle /\ alive' = alive /\ taken' = taken /\ dropped' = dropped /\ cut' = cut /\ torn' = torn
      /\ resubs' = resubs
  BY DEF Stream!Reconcile, Stream!reader, Stream!history, Stream!bounds
<1>2. gap' \in BOOLEAN /\ request' \in BOOLEAN
  BY <1>1 DEF StreamInv, StreamTyped
<1>3. StreamTyped'
  BY <1>1, <1>2 DEF StreamInv, StreamTyped
<1>4. Arrived' = Arrived
  BY <1>1, ElementsSame
<1> QED
  BY <1>1, <1>3, <1>4, QuietStep

LEMMA HandleStep ==
    ASSUME StreamInv, Stream!Handle
    PROVE  StreamInv'
<1>1. /\ queue # <<>> /\ queue' = Tail(queue) /\ handled' = Append(handled, Head(queue))
      /\ sent' = sent /\ subscribed' = subscribed /\ link' = link /\ wire' = wire
      /\ hollow' = hollow /\ request' = request /\ gap' = gap /\ mode' = mode /\ lines' = lines
      /\ idle' = idle /\ alive' = alive /\ taken' = taken /\ dropped' = dropped /\ cut' = cut /\ torn' = torn /\ resubs' = resubs
  BY DEF Stream!Handle, Stream!reader, Stream!history, Stream!bounds
<1>2. queue \in Seq(Nat) /\ handled \in Seq(Nat) /\ Len(queue) <= QueueSize /\ QueueSize \in Nat
  BY StreamAssumption DEF StreamInv, StreamTyped, Stream!EslConstants
<1>3. queue' \in Seq(Nat) /\ handled' \in Seq(Nat) /\ Len(queue') <= QueueSize
  BY <1>1, <1>2
<1>4. StreamTyped'
  BY <1>1, <1>3 DEF StreamInv, StreamTyped
<1>5. Arrived' = Arrived
  BY <1>1, <1>2, MovedElement DEF Arrived
<1> QED
  BY <1>1, <1>4, <1>5, QuietStep

LEMMA PollStep ==
    ASSUME StreamInv, Stream!Poll
    PROVE  StreamInv'
<1>1. /\ link = "up" /\ lines' = {} /\ idle' = 0 /\ mode = "header"
      /\ \/ /\ link' = "down" /\ subscribed' = FALSE /\ gap' = TRUE /\ wire' = <<>>
            /\ cut' = cut \cup Stream!Events(wire)
         \/ link' = link /\ subscribed' = subscribed /\ gap' = gap /\ wire' = wire /\ cut' = cut
      /\ sent' = sent /\ mode' = mode /\ queue' = queue /\ handled' = handled
      /\ hollow' = hollow /\ taken' = taken /\ dropped' = dropped /\ request' = request
      /\ resubs' = resubs /\ alive' = alive /\ torn' = torn
  BY DEF Stream!Poll, Stream!IdleAfterPoll
<1>2. StreamTyped'
  <2>1. wire' \in Seq(WirePiece)
    <3>1. wire \in Seq(WirePiece) /\ <<>> \in Seq(WirePiece)
      BY DEF StreamInv, StreamTyped
    <3> QED
      BY <1>1, <3>1
  <2>2. link' \in {"up", "closed", "down"} /\ subscribed' \in BOOLEAN /\ gap' \in BOOLEAN
    BY <1>1 DEF StreamInv, StreamTyped
  <2> QED
    BY <1>1, <2>1, <2>2 DEF StreamInv, StreamTyped
<1>3. Arrived' = Arrived
  BY <1>1, ElementsSame
<1>4. CASE wire' = <<>> /\ cut' = cut \cup Stream!Events(wire)
  BY <1>1, <1>2, <1>4, CutStep
<1>5. CASE wire' = wire /\ cut' = cut
  BY <1>1, <1>2, <1>3, <1>5, QuietStep
<1> QED
  BY <1>1, <1>4, <1>5

LEMMA ReplyTimeoutStep ==
    ASSUME StreamInv, Stream!ReplyTimeout
    PROVE  StreamInv'
<1>1. /\ mode' = "header" /\ lines' = {} /\ alive' = FALSE
      /\ sent' = sent /\ subscribed' = subscribed /\ link' = link /\ wire' = wire
      /\ idle' = idle /\ queue' = queue /\ handled' = handled /\ hollow' = hollow
      /\ request' = request /\ gap' = gap /\ taken' = taken /\ dropped' = dropped
      /\ cut' = cut /\ torn' = torn /\ resubs' = resubs
  BY DEF Stream!ReplyTimeout, Stream!history
<1>2. StreamTyped'
  BY <1>1 DEF StreamInv, StreamTyped
<1>3. Arrived' = Arrived
  BY <1>1, ElementsSame
<1> QED
  BY <1>1, <1>2, <1>3, QuietStep

\* A piece that ends no event is read and forgotten.
LEMMA SkipStep ==
    ASSUME StreamInv, StreamTyped', wire # <<>>, Head(wire).what # "end", wire' = Tail(wire),
           sent' = sent, queue' = queue, handled' = handled, taken' = taken,
           dropped' = dropped, cut' = cut /\ torn' = torn, resubs' = resubs,
           mode' = mode \/ mode' = "header" \/ (mode = "reply" /\ mode' = "drain")
    PROVE  StreamInv'
<1>1. wire \in Seq(WirePiece) /\ sent \in Nat /\ Arrived \in Seq(Nat) /\ Arrived' = Arrived
  BY ArrivedTyped, ElementsSame DEF StreamInv, StreamTyped
<1>2. InOrder(wire', Arrived', sent')
  BY <1>1, OrderDropped DEF StreamInv
<1>3. Stream!Events(wire') = Stream!Events(wire)
  BY <1>1, EventsOfTail
<1>4. Accounted(wire', Arrived', (taken \cup dropped \cup cut \cup torn)', sent')
  BY <1>1, <1>3 DEF StreamInv, Accounted
<1>5. TakenInv'
  <2>1. IsFiniteSet(taken) /\ Cardinality(taken) \in Nat /\ resubs \in Nat
    BY FS_CardinalityType DEF StreamInv, TakenInv
  <2>2. mode' \notin {"reply", "drain"} \/ mode \in {"reply", "drain"}
    OBVIOUS
  <2> QED
    BY <2>1, <2>2 DEF StreamInv, TakenInv
<1> QED
  BY <1>2, <1>4, <1>5 DEF StreamInv

LEMMA ReadLineStep ==
    ASSUME StreamInv, Stream!ReadLine
    PROVE  StreamInv'
<1>1. /\ wire # <<>> /\ Head(wire).what \in {"len", "type", "reply", "name"}
      /\ lines' = lines \cup {Head(wire).what} /\ wire' = Tail(wire)
      /\ sent' = sent /\ subscribed' = subscribed /\ link' = link /\ mode' = mode
      /\ idle' = idle /\ alive' = alive /\ queue' = queue /\ handled' = handled /\ hollow' = hollow
      /\ request' = request /\ gap' = gap /\ taken' = taken /\ dropped' = dropped
      /\ cut' = cut /\ torn' = torn /\ resubs' = resubs
  BY DEF Stream!ReadLine, Stream!history, Stream!bounds
<1>2. wire' \in Seq(WirePiece) /\ lines' \subseteq {"len", "type", "reply", "name"}
  BY <1>1, TailElements DEF StreamInv, StreamTyped
<1>3. StreamTyped'
  BY <1>1, <1>2 DEF StreamInv, StreamTyped
<1>4. Head(wire).what # "end"
  BY <1>1
<1> QED
  BY <1>1, <1>3, <1>4, SkipStep

LEMMA ReadReplyStep ==
    ASSUME StreamInv, Stream!ReadReply
    PROVE  StreamInv'
<1>1. /\ wire # <<>> /\ mode \in {"reply", "drain"} /\ wire' = Tail(wire)
      /\ sent' = sent /\ subscribed' = subscribed /\ link' = link
      /\ idle' = idle /\ alive' = alive /\ queue' = queue /\ handled' = handled /\ hollow' = hollow
      /\ request' = request /\ gap' = gap /\ dropped' = dropped /\ cut' = cut /\ torn' = torn /\ resubs' = resubs
  BY DEF Stream!ReadReply, Stream!bounds
<1>2. \/ /\ Head(wire).what = "end" /\ mode' = "header" /\ lines' = {}
         /\ taken' = taken \cup {Head(wire).e}
      \/ /\ Head(wire).what # "end" /\ taken' = taken
         /\ \/ mode = "reply" /\ mode' = "drain" /\ lines' = lines
            \/ mode' = "header" /\ lines' = {}
  BY DEF Stream!ReadReply
<1>3. wire \in Seq(WirePiece) /\ wire' \in Seq(WirePiece)
  BY <1>1, TailElements DEF StreamInv, StreamTyped
<1>4. StreamTyped'
  BY <1>1, <1>2, <1>3 DEF StreamInv, StreamTyped
<1>5. CASE Head(wire).what # "end"
  BY <1>1, <1>2, <1>4, <1>5, SkipStep
<1>6. CASE Head(wire).what = "end"
  <2>1. mode' = "header" /\ taken' = taken \cup {Head(wire).e}
    BY <1>2, <1>6
  <2>2. sent \in Nat /\ Arrived \in Seq(Nat) /\ Arrived' = Arrived
    BY <1>1, ArrivedTyped, ElementsSame DEF StreamInv, StreamTyped
  <2>3. InOrder(wire', Arrived', sent')
    BY <1>1, <1>3, <2>2, OrderDropped DEF StreamInv
  <2>4. Stream!Events(wire) = Stream!Events(wire') \cup {Head(wire).e}
    BY <1>1, <1>3, <1>6, EventsOfTail
  <2>5. Accounted(wire', Arrived', (taken \cup dropped \cup cut \cup torn)', sent')
    BY <1>1, <2>1, <2>2, <2>4 DEF StreamInv, Accounted
  <2>6. IsFiniteSet(taken) /\ Cardinality(taken) \in Nat /\ resubs \in Nat
        /\ Cardinality(taken) + 1 <= resubs
    BY <1>1, FS_CardinalityType DEF StreamInv, TakenInv
  <2>7. IsFiniteSet(taken') /\ Cardinality(taken') <= Cardinality(taken) + 1 /\ Cardinality(taken') \in Nat
    <3>1. CASE Head(wire).e \in taken
      <4>1. taken' = taken
        BY <2>1, <3>1
      <4> QED
        BY <4>1, <2>6
    <3>2. CASE Head(wire).e \notin taken
      <4>1. /\ IsFiniteSet(taken \cup {Head(wire).e})
            /\ Cardinality(taken \cup {Head(wire).e}) = Cardinality(taken) + 1
        BY <2>6, <3>2, FS_AddElement
      <4> QED
        BY <2>1, <2>6, <4>1
    <3> QED
      BY <3>1, <3>2
  <2>8. TakenInv'
    BY <1>1, <2>1, <2>6, <2>7 DEF TakenInv
  <2> QED
    BY <1>4, <2>3, <2>5, <2>8 DEF StreamInv
<1> QED
  BY <1>5, <1>6

\* The event of the head of the wire, or a hollow one for a header without a length,
\* is queued or dropped, and the subscription may be sent again.
LEMMA DeliverStep ==
    ASSUME StreamInv, NEW e, wire # <<>>, Stream!Deliver(e), mode \notin {"reply", "drain"},
           \/ Head(wire).what = "end" /\ e = Head(wire).e /\ torn' = torn
           \/ Head(wire).what = "end" /\ e = 0 /\ torn' = torn \cup {Head(wire).e}
           \/ Head(wire).what # "end" /\ e = 0 /\ torn' = torn,
           sent' = sent, link' = link, alive' = alive, handled' = handled, taken' = taken,
           cut' = cut, request' = request, gap' = gap
    PROVE  StreamInv'
<1>1. /\ Stream!Enqueue(e) /\ lines' = {} /\ idle' = 0
      /\ \/ mode' = "header" /\ subscribed' = subscribed /\ resubs' = resubs /\ wire' = Tail(wire)
         \/ /\ resubs' = resubs + 1 /\ mode' = "reply" /\ subscribed' = TRUE
            /\ wire' = Tail(wire) \o Stream!ReplyFrame
  BY DEF Stream!Deliver
<1>2. StreamTyped /\ TakenInv /\ wire \in Seq(WirePiece) /\ sent \in Nat
  BY DEF StreamInv, StreamTyped
<1>3. Tail(wire) \in Seq(WirePiece) /\ Head(wire) \in WirePiece
  BY <1>2, TailElements
<1>4. e \in Nat
  BY <1>3 DEF WirePiece
<1>5. Arrived \in Seq(Nat)
  BY <1>2, ArrivedTyped
<1>6. /\ queue' \in Seq(Nat) /\ Len(queue') <= QueueSize /\ hollow' \in Nat
      /\ \/ Arrived' = Append(Arrived, e) /\ dropped' = dropped
         \/ Arrived' = Arrived /\ dropped' = dropped \cup ({e} \ {0})
  BY <1>1, <1>2, <1>4, Enqueued
<1>7. wire' \in Seq(WirePiece) /\ Stream!Events(wire') = Stream!Events(Tail(wire))
  <2>1. Tail(wire) \o Stream!ReplyFrame \in Seq(WirePiece)
    BY <1>3, Frames, ConcatElements
  <2> QED
    BY <1>1, <1>3, <2>1, EventsOfReply
<1>8. subscribed' \in BOOLEAN /\ mode' \in {"header", "reply"}
  BY <1>1 DEF StreamInv, StreamTyped
<1>9. StreamTyped'
  BY <1>1, <1>2, <1>6, <1>7, <1>8 DEF StreamTyped
<1>10. InOrder(Tail(wire), Arrived', sent)
  <2>1. InOrder(wire, Arrived, sent)
    BY DEF StreamInv
  <2>2. InOrder(Tail(wire), Arrived, sent)
    BY <1>2, <1>5, <2>1, OrderDropped
  <2>3. CASE Arrived' = Arrived
    BY <2>2, <2>3
  <2>4. CASE Arrived' = Append(Arrived, e) /\ Head(wire).what = "end" /\ e = Head(wire).e
    BY <2>1, <2>4, <1>2, <1>5, OrderDelivered
  <2>5. CASE Arrived' = Append(Arrived, e) /\ e = 0
    BY <2>2, <2>5, <1>2, <1>3, <1>5, OrderHollow
  <2> QED
    BY <1>6, <2>3, <2>4, <2>5
<1>11. InOrder(wire', Arrived', sent')
  <2>1. Append(Arrived, e) \in Seq(Nat)
    BY <1>4, <1>5, AppendElements
  <2>2. Arrived' \in Seq(Nat)
    BY <1>5, <1>6, <2>1
  <2> QED
    BY <1>1, <1>2, <1>3, <1>10, <2>2, OrderReply
<1>12. (Stream!Events(wire) \cup torn) \ {0} = (Stream!Events(Tail(wire)) \cup {e} \cup torn') \ {0}
  BY <1>2, EventsOfTail
<1>13. \/ Elements(Arrived') = Elements(Arrived) \cup {e} /\ dropped' = dropped
       \/ Elements(Arrived') = Elements(Arrived) /\ dropped' = dropped \cup ({e} \ {0})
  <2>1. Elements(Append(Arrived, e)) = Elements(Arrived) \cup {e}
    BY <1>4, <1>5, AppendElements
  <2> QED
    BY <1>6, <2>1
<1>14. Accounted(wire', Arrived', (taken \cup dropped \cup cut \cup torn)', sent')
  <2>1. 1..sent = (Stream!Events(wire) \cup Elements(Arrived) \cup (taken \cup dropped \cup cut \cup torn)) \ {0}
    BY DEF StreamInv, Accounted
  <2> QED
    BY <1>7, <1>12, <1>13, <2>1 DEF Accounted
<1>15. TakenInv'
  <2>1. IsFiniteSet(taken) /\ Cardinality(taken) \in Nat /\ resubs \in Nat
        /\ Cardinality(taken) <= resubs
    BY <1>2, FS_CardinalityType DEF TakenInv
  <2>2. \/ resubs' = resubs /\ mode' \notin {"reply", "drain"}
        \/ resubs' = resubs + 1
    BY <1>1
  <2> QED
    BY <2>1, <2>2 DEF TakenInv
<1> QED
  BY <1>9, <1>11, <1>14, <1>15 DEF StreamInv

LEMMA ReadBodyStep ==
    ASSUME StreamInv, Stream!ReadBody
    PROVE  StreamInv'
<1> DEFINE e == IF Stream!Named THEN Head(wire).e ELSE 0
<1>1. /\ wire # <<>> /\ mode \notin {"reply", "drain"} /\ Head(wire).what = "end"
      /\ Stream!Deliver(e)
      /\ torn' = (IF Stream!Named THEN torn ELSE torn \cup {Head(wire).e})
      /\ sent' = sent /\ link' = link /\ alive' = alive /\ handled' = handled /\ taken' = taken
      /\ cut' = cut /\ request' = request /\ gap' = gap
  BY DEF Stream!ReadBody
<1>2. \/ e = Head(wire).e /\ torn' = torn
      \/ e = 0 /\ torn' = torn \cup {Head(wire).e}
  BY <1>1
<1> HIDE DEF e
<1> QED
  BY <1>1, <1>2, DeliverStep

LEMMA ReadBlankStep ==
    ASSUME StreamInv, Stream!ReadBlank
    PROVE  StreamInv'
<1>1. /\ wire # <<>> /\ mode = "header" /\ Head(wire).what = "blank"
      /\ sent' = sent /\ link' = link /\ alive' = alive /\ handled' = handled /\ taken' = taken /\ cut' = cut /\ torn' = torn
      /\ request' = request /\ gap' = gap
  BY DEF Stream!ReadBlank
<1>2. CASE "len" \in lines
  <2>1. /\ mode' = "body" /\ wire' = Tail(wire) /\ lines' = lines /\ idle' = idle
        /\ queue' = queue /\ hollow' = hollow /\ dropped' = dropped
        /\ subscribed' = subscribed /\ resubs' = resubs
    BY <1>2 DEF Stream!ReadBlank
  <2>2. wire' \in Seq(WirePiece)
    BY <1>1, <2>1, TailElements DEF StreamInv, StreamTyped
  <2>3. StreamTyped'
    BY <1>1, <2>1, <2>2 DEF StreamInv, StreamTyped
  <2>4. Head(wire).what # "end" /\ wire \in Seq(WirePiece) /\ sent \in Nat
        /\ Arrived \in Seq(Nat) /\ Arrived' = Arrived
    BY <1>1, <2>1, ArrivedTyped, ElementsSame DEF StreamInv, StreamTyped
  <2>5. InOrder(wire', Arrived', sent')
    BY <1>1, <2>1, <2>4, OrderDropped DEF StreamInv
  <2>6. Accounted(wire', Arrived', (taken \cup dropped \cup cut \cup torn)', sent')
    BY <1>1, <2>1, <2>4, EventsOfTail DEF StreamInv, Accounted
  <2>7. TakenInv'
    BY <1>1, <2>1 DEF StreamInv, TakenInv
  <2> QED
    BY <2>3, <2>5, <2>6, <2>7 DEF StreamInv
<1>3. CASE "len" \notin lines
  <2>1. Stream!Deliver(0) /\ Head(wire).what # "end" /\ mode \notin {"reply", "drain"}
    BY <1>1, <1>3 DEF Stream!ReadBlank
  <2> QED
    BY <1>1, <2>1, DeliverStep
<1> QED
  BY <1>2, <1>3
-----------------------------------------------------------------------------
(* How an event loses its name: the network stops twice in one frame, once   *)
(* for the header lines to be dropped, so that the body is read as a header, *)
(* and once for the fields of the body.                                      *)

\* The piece q comes after p, and p may be the last.
Follows(p, q) ==
    \/ p.what = "len" /\ q.what = "type"
    \/ p.what = "type" /\ q.what = "blank" /\ q.e # 0
    \/ p.what = "blank" /\ p.e # 0 /\ q.what = "name"
    \/ p.what = "name" /\ q.what = "end"
    \/ p.what = "end" /\ q.what \in {"len", "reply"}
    \/ p.what = "reply" /\ q.what = "blank" /\ q.e = 0
    \/ p.what = "blank" /\ p.e = 0 /\ q.what \in {"len", "reply"}

Ends(p) == p.what = "end" \/ (p.what = "blank" /\ p.e = 0)

\* Whole frames, but for the first, of which pieces were read.
Framed(w) ==
    /\ \A i \in DOMAIN w : i + 1 \in DOMAIN w => Follows(w[i], w[i + 1])
    /\ \A i \in DOMAIN w : i + 1 \notin DOMAIN w => Ends(w[i])

\* The stops that the frame under way has cost, at least.
Debt(w, m, l) ==
    IF w = <<>> \/ m \in {"body", "drain"} THEN 0
    ELSE CASE w[1].what = "type" \/ (w[1].what = "blank" /\ w[1].e # 0) -> IF "len" \in l THEN 0 ELSE 1
           [] w[1].what = "name" -> 1
           [] w[1].what = "end" -> IF "name" \in l THEN 1 ELSE 2
           [] OTHER -> 0

TornInv ==
    /\ IsFiniteSet(torn) /\ stalls \in Nat
    /\ Framed(wire)
    /\ link # "up" => wire = <<>>
    /\ 2 * Cardinality(torn) + Debt(wire, mode, lines) <= stalls

LEMMA DebtRange == \A w, m, l : Debt(w, m, l) \in 0..2
  BY DEF Debt

\* A frame that begins owes nothing.
LEMMA FreshDebt ==
    ASSUME NEW w, NEW m, NEW l, w # <<>> => w[1].what \in {"len", "reply"}
    PROVE  Debt(w, m, l) = 0
  BY DEF Debt

LEMMA TornFinite == ASSUME TornInv PROVE Cardinality(torn) \in Nat
  BY FS_CardinalityType DEF TornInv

LEMMA FramedTail ==
    ASSUME NEW w \in Seq(WirePiece), w # <<>>, Framed(w)
    PROVE  /\ Framed(Tail(w)) /\ Tail(w) \in Seq(WirePiece) /\ Head(w) = w[1]
           /\ \/ Tail(w) = <<>> /\ Ends(w[1])
              \/ Tail(w) # <<>> /\ Follows(w[1], Tail(w)[1])
<1> DEFINE rest == Tail(w)
<1>1. /\ 1 \in DOMAIN w /\ Head(w) = w[1]
      /\ \A i \in DOMAIN rest : i + 1 \in DOMAIN w /\ i \in Nat \ {0} /\ rest[i] = w[i + 1]
      /\ \A i \in DOMAIN w : i = 1 \/ (i - 1 \in DOMAIN rest /\ w[i] = rest[i - 1])
  BY TailElements
<1>2. /\ rest \in Seq(WirePiece) /\ DOMAIN w = 1..Len(w) /\ Len(w) \in Nat \ {0}
      /\ DOMAIN rest = 1..(Len(w) - 1) /\ (rest = <<>> <=> Len(w) = 1)
  <2>1. DOMAIN w = 1..Len(w) /\ Len(w) \in Nat /\ Len(w) # 0
    OBVIOUS
  <2>2. rest \in Seq(WirePiece) /\ Len(rest) = Len(w) - 1 /\ DOMAIN rest = 1..Len(rest)
    BY <2>1
  <2> HIDE DEF rest
  <2>3. rest = <<>> <=> Len(rest) = 0
    <3>1. ASSUME NEW s \in Seq(WirePiece) PROVE s = <<>> <=> Len(s) = 0
      OBVIOUS
    <3> QED
      BY <2>2, <3>1
  <2> QED
    BY <2>1, <2>2, <2>3
<1> HIDE DEF rest
<1>3. \A i \in DOMAIN rest : i + 1 \in DOMAIN rest => Follows(rest[i], rest[i + 1])
  <2> SUFFICES ASSUME NEW i \in DOMAIN rest, i + 1 \in DOMAIN rest PROVE Follows(rest[i], rest[i + 1])
    OBVIOUS
  <2>1. i + 1 \in DOMAIN w /\ (i + 1) + 1 \in DOMAIN w /\ rest[i] = w[i + 1] /\ rest[i + 1] = w[(i + 1) + 1]
    BY <1>1
  <2> QED
    BY <2>1 DEF Framed
<1>4. \A i \in DOMAIN rest : i + 1 \notin DOMAIN rest => Ends(rest[i])
  <2> SUFFICES ASSUME NEW i \in DOMAIN rest, i + 1 \notin DOMAIN rest PROVE Ends(rest[i])
    OBVIOUS
  <2>1. i + 1 \in DOMAIN w /\ (i + 1) + 1 \notin DOMAIN w /\ rest[i] = w[i + 1]
    BY <1>1, <1>2
  <2> QED
    BY <2>1 DEF Framed
<1>5. CASE Len(w) = 1
  <2>1. 1 \in DOMAIN w /\ 1 + 1 \notin DOMAIN w
    BY <1>2, <1>5
  <2>2. Ends(w[1])
    BY <2>1 DEF Framed
  <2> QED
    BY <1>1, <1>2, <1>3, <1>4, <1>5, <2>2 DEF Framed, rest
<1>6. CASE Len(w) # 1
  <2>1. 1 \in DOMAIN w /\ 1 + 1 \in DOMAIN w /\ 1 \in DOMAIN rest /\ rest # <<>>
    BY <1>2, <1>6
  <2>2. Follows(w[1], w[1 + 1]) /\ rest[1] = w[1 + 1]
    BY <1>1, <2>1 DEF Framed
  <2> QED
    BY <1>1, <1>2, <1>3, <1>4, <2>1, <2>2 DEF Framed, rest
<1> QED
  BY <1>5, <1>6

\* A frame that begins is appended.
LEMMA FramedAppend ==
    ASSUME NEW w \in Seq(WirePiece), NEW f \in Seq(WirePiece), f # <<>>, Framed(w), Framed(f),
           f[1].what \in {"len", "reply"}
    PROVE  /\ Framed(w \o f) /\ w \o f # <<>>
           /\ (w \o f)[1] = (IF w = <<>> THEN f[1] ELSE w[1])
<1> DEFINE new == w \o f
<1>1. /\ \A i \in DOMAIN new :
           \/ i \in DOMAIN w /\ new[i] = w[i]
           \/ i \notin DOMAIN w /\ i - Len(w) \in DOMAIN f /\ new[i] = f[i - Len(w)]
      /\ \A i \in DOMAIN w : i \in DOMAIN new /\ new[i] = w[i]
      /\ \A i \in DOMAIN f : i + Len(w) \in DOMAIN new /\ new[i + Len(w)] = f[i]
  BY ConcatElements
<1>2. /\ DOMAIN w = 1..Len(w) /\ Len(w) \in Nat /\ DOMAIN f = 1..Len(f) /\ Len(f) \in Nat \ {0}
      /\ DOMAIN new = 1..(Len(w) + Len(f)) /\ new # <<>> /\ (w = <<>> <=> Len(w) = 0)
  OBVIOUS
<1> HIDE DEF new
<1>3. \A i \in DOMAIN new : i + 1 \in DOMAIN new => Follows(new[i], new[i + 1])
  <2> SUFFICES ASSUME NEW i \in DOMAIN new, i + 1 \in DOMAIN new PROVE Follows(new[i], new[i + 1])
    OBVIOUS
  <2>1. CASE i + 1 \in DOMAIN w
    <3>1. i \in DOMAIN w /\ new[i] = w[i] /\ new[i + 1] = w[i + 1]
      BY <1>1, <1>2, <2>1
    <3> QED
      BY <3>1, <2>1 DEF Framed
  <2>2. CASE i + 1 \notin DOMAIN w /\ i \in DOMAIN w
    <3>1. i = Len(w) /\ 1 \in DOMAIN f /\ i + 1 = 1 + Len(w)
      BY <1>2, <2>2
    <3>2. new[i] = w[i] /\ new[i + 1] = f[1]
      BY <1>1, <2>2, <3>1
    <3>3. Ends(w[i])
      BY <2>2 DEF Framed
    <3> QED
      BY <3>2, <3>3 DEF Ends, Follows
  <2>3. CASE i \notin DOMAIN w
    <3>1. i - Len(w) \in DOMAIN f /\ (i - Len(w)) + 1 \in DOMAIN f /\ i + 1 \notin DOMAIN w
          /\ (i + 1) - Len(w) = (i - Len(w)) + 1
      BY <1>2, <2>3
    <3>2. new[i] = f[i - Len(w)] /\ new[i + 1] = f[(i - Len(w)) + 1]
      BY <1>1, <2>3, <3>1
    <3> QED
      BY <3>1, <3>2 DEF Framed
  <2> QED
    BY <2>1, <2>2, <2>3
<1>4. \A i \in DOMAIN new : i + 1 \notin DOMAIN new => Ends(new[i])
  <2> SUFFICES ASSUME NEW i \in DOMAIN new, i + 1 \notin DOMAIN new PROVE Ends(new[i])
    OBVIOUS
  <2>1. i = Len(w) + Len(f) /\ i \notin DOMAIN w /\ i - Len(w) = Len(f)
        /\ Len(f) \in DOMAIN f /\ Len(f) + 1 \notin DOMAIN f
    <3> DEFINE a == Len(w)
               b == Len(f)
    <3>1. a \in Nat /\ b \in Nat \ {0} /\ i \in 1..(a + b) /\ i + 1 \notin 1..(a + b)
      BY <1>2
    <3>2. DOMAIN w = 1..a /\ DOMAIN f = 1..b
      BY <1>2
    <3> HIDE DEF a, b
    <3>3. i = a + b /\ i \notin 1..a /\ i - a = b /\ b \in 1..b /\ b + 1 \notin 1..b
      BY <3>1
    <3> QED
      BY <3>2, <3>3 DEF a, b
  <2>2. new[i] = f[Len(f)]
    BY <1>1, <2>1
  <2> QED
    BY <2>1, <2>2 DEF Framed
<1>5. new[1] = (IF w = <<>> THEN f[1] ELSE w[1])
  <2>1. CASE w = <<>>
    <3>1. Len(w) = 0 /\ 1 \in DOMAIN new /\ 1 \notin DOMAIN w /\ 1 - Len(w) = 1
      BY <1>2, <2>1
    <3>2. new[1] = f[1 - Len(w)]
      BY <3>1, <1>1
    <3> QED
      BY <2>1, <3>1, <3>2
  <2>2. CASE w # <<>>
    <3>1. 1 \in DOMAIN w
      BY <1>2, <2>2
    <3> QED
      BY <3>1, <2>2, <1>1
  <2> QED
    BY <2>1, <2>2
<1> QED
  BY <1>2, <1>3, <1>4, <1>5 DEF Framed, new

LEMMA FramesFramed ==
    /\ \A e \in Nat \ {0} :
         Framed(Stream!Frame(e)) /\ Stream!Frame(e) # <<>> /\ Stream!Frame(e)[1].what = "len"
    /\ Framed(Stream!ReplyFrame) /\ Stream!ReplyFrame # <<>> /\ Stream!ReplyFrame[1].what = "reply"
<1>1. ASSUME NEW e \in Nat \ {0}
      PROVE  Framed(Stream!Frame(e)) /\ Stream!Frame(e) # <<>> /\ Stream!Frame(e)[1].what = "len"
  <2> DEFINE f == Stream!Frame(e)
  <2>1. /\ DOMAIN f = 1..5 /\ f # <<>>
        /\ f[1].what = "len" /\ f[2].what = "type" /\ f[3].what = "blank" /\ f[3].e = e
        /\ f[4].what = "name" /\ f[5].what = "end"
    BY DEF Stream!Frame, Stream!Piece
  <2> HIDE DEF f
  <2>2. \A i \in 1..5 : i + 1 \in 1..5 => Follows(f[i], f[i + 1])
    <3>1. Follows(f[1], f[2]) /\ Follows(f[2], f[3]) /\ Follows(f[3], f[4]) /\ Follows(f[4], f[5])
      BY <2>1 DEF Follows
    <3>2. \A i \in 1..5 : i + 1 \in 1..5 => i = 1 \/ i = 2 \/ i = 3 \/ i = 4
      OBVIOUS
    <3> QED
      BY <3>1, <3>2
  <2>3. \A i \in 1..5 : i + 1 \notin 1..5 => Ends(f[i])
    <3>1. \A i \in 1..5 : i + 1 \notin 1..5 => i = 5
      OBVIOUS
    <3> QED
      BY <3>1, <2>1 DEF Ends
  <2> QED
    BY <2>1, <2>2, <2>3 DEF Framed, f
<1>2. Framed(Stream!ReplyFrame) /\ Stream!ReplyFrame # <<>> /\ Stream!ReplyFrame[1].what = "reply"
  <2> DEFINE f == Stream!ReplyFrame
  <2>1. /\ DOMAIN f = 1..2 /\ f # <<>>
        /\ f[1].what = "reply" /\ f[2].what = "blank" /\ f[2].e = 0
    BY DEF Stream!ReplyFrame, Stream!Piece
  <2> HIDE DEF f
  <2>2. \A i \in 1..2 : i + 1 \in 1..2 => Follows(f[i], f[i + 1])
    <3>1. \A i \in 1..2 : i + 1 \in 1..2 => i = 1
      OBVIOUS
    <3> QED
      BY <3>1, <2>1 DEF Follows
  <2>3. \A i \in 1..2 : i + 1 \notin 1..2 => Ends(f[i])
    <3>1. \A i \in 1..2 : i + 1 \notin 1..2 => i = 2
      OBVIOUS
    <3> QED
      BY <3>1, <2>1 DEF Ends
  <2> QED
    BY <2>1, <2>2, <2>3 DEF Framed, f
<1> QED
  BY <1>1, <1>2

LEMMA FramedNothing == Framed(<<>>)
  BY DEF Framed
-----------------------------------------------------------------------------
(* The steps. *)

LEMMA TornInit ==
    ASSUME Stream!Init
    PROVE  TornInv
<1>1. wire = <<>> /\ torn = {} /\ stalls = 0 /\ link = "up"
  BY DEF Stream!Init
<1>2. Debt(wire, mode, lines) = 0
  BY <1>1 DEF Debt
<1> QED
  BY <1>1, <1>2, FramedNothing, FS_EmptySet DEF TornInv

\* A step that stops nothing and leaves the wire alone, but may end a connection.
LEMMA TornQuiet ==
    ASSUME TornInv, torn' = torn, stalls' = stalls,
           \/ wire' = <<>>
           \/ wire' = wire /\ mode' = mode /\ lines' = lines /\ (link = "up" => link' = "up")
    PROVE  TornInv'
<1>1. Cardinality(torn) \in Nat /\ Debt(wire, mode, lines) \in 0..2
  BY TornFinite, DebtRange
<1>2. CASE wire' = <<>>
  <2>1. Debt(wire', mode', lines') = 0
    BY <1>2, FreshDebt
  <2> QED
    BY <1>1, <1>2, <2>1, FramedNothing DEF TornInv
<1>3. CASE wire' = wire /\ mode' = mode /\ lines' = lines /\ (link = "up" => link' = "up")
  <2>1. Debt(wire', mode', lines') = Debt(wire, mode, lines)
    BY <1>3
  <2> QED
    BY <1>3, <2>1 DEF TornInv
<1> QED
  BY <1>2, <1>3

LEMMA TornSend ==
    ASSUME StreamInv, TornInv, Stream!Send
    PROVE  TornInv'
<1>1. /\ link = "up" /\ link' = link /\ wire' = wire \o Stream!Frame(sent + 1)
      /\ mode' = mode /\ lines' = lines /\ torn' = torn /\ stalls' = stalls
  BY DEF Stream!Send, Stream!reader, Stream!history, Stream!bounds
<1>2. wire \in Seq(WirePiece) /\ sent + 1 \in Nat \ {0}
  BY StreamAssumption DEF StreamInv, StreamTyped, Stream!EslConstants
<1> DEFINE f == Stream!Frame(sent + 1)
<1>3. f \in Seq(WirePiece) /\ f # <<>> /\ Framed(f) /\ f[1].what = "len"
  BY <1>2, Frames, FramesFramed
<1> HIDE DEF f
<1>4. Framed(wire') /\ wire' # <<>> /\ wire'[1] = (IF wire = <<>> THEN f[1] ELSE wire[1])
  <2>1. wire' = wire \o f
    BY <1>1 DEF f
  <2> QED
    BY <2>1, <1>2, <1>3, FramedAppend DEF TornInv
<1>5. Debt(wire', mode', lines') = Debt(wire, mode, lines)
  <2>1. CASE wire = <<>>
    <3>1. wire'[1].what = "len"
      BY <2>1, <1>3, <1>4
    <3> QED
      BY <2>1, <3>1, FreshDebt
  <2>2. CASE wire # <<>>
    BY <2>2, <1>1, <1>4 DEF Debt
  <2> QED
    BY <2>1, <2>2
<1> QED
  BY <1>1, <1>4, <1>5 DEF TornInv

\* The network stops while the reader is not in a body: at most one stop more is owed.
LEMMA TornStop ==
    ASSUME TornInv, wire' = wire, link' = link, torn' = torn, stalls' = stalls + 1,
           mode \in {"header", "reply"}, mode' = "header", lines' = {}
    PROVE  TornInv'
<1>1. Cardinality(torn) \in Nat /\ Debt(wire, mode, lines) \in 0..2 /\ Debt(wire', mode', lines') \in 0..2
  BY TornFinite, DebtRange
<1>2. Debt(wire', mode', lines') <= Debt(wire, mode, lines) + 1
  <2>1. CASE wire = <<>>
    BY <2>1 DEF Debt
  <2>2. CASE wire # <<>> /\ wire[1].what = "end"
    <3>1. Debt(wire, mode, lines) >= 1
      BY <2>2 DEF Debt
    <3> QED
      BY <3>1, <1>1
  <2>3. CASE wire # <<>> /\ wire[1].what # "end"
    <3>1. Debt(wire', mode', lines') \in {0, 1}
      BY <2>3 DEF Debt
    <3> QED
      BY <3>1, <1>1
  <2> QED
    BY <2>1, <2>2, <2>3
<1> QED
  BY <1>1, <1>2 DEF TornInv

LEMMA TornPoll ==
    ASSUME TornInv, Stream!Poll
    PROVE  TornInv'
<1>1. /\ link = "up" /\ mode = "header" /\ mode' = mode /\ lines' = {} /\ torn' = torn
      /\ \/ wire = <<>> /\ stalls' = stalls
         \/ wire # <<>> /\ stalls' = stalls + 1
      /\ \/ wire' = <<>>
         \/ wire' = wire /\ link' = link
  BY DEF Stream!Poll
<1>2. CASE stalls' = stalls
  <2>1. wire' = <<>>
    BY <1>1, <1>2 DEF TornInv
  <2> QED
    BY <1>1, <1>2, <2>1, TornQuiet
<1>3. CASE stalls' = stalls + 1 /\ wire' = wire /\ link' = link
  BY <1>1, <1>3, TornStop
<1>4. CASE stalls' = stalls + 1 /\ wire' = <<>>
  <2>1. Debt(wire', mode', lines') = 0
    BY <1>4, FreshDebt
  <2>2. Cardinality(torn) \in Nat /\ Debt(wire, mode, lines) \in 0..2
    BY TornFinite, DebtRange
  <2> QED
    BY <1>1, <1>4, <2>1, <2>2, FramedNothing DEF TornInv
<1> QED
  BY <1>1, <1>2, <1>3, <1>4

LEMMA TornTimeout ==
    ASSUME TornInv, Stream!ReplyTimeout
    PROVE  TornInv'
<1>1. /\ wire' = wire /\ link' = link /\ torn' = torn /\ stalls' = stalls + 1
      /\ mode = "reply" /\ mode' = "header" /\ lines' = {}
  BY DEF Stream!ReplyTimeout, Stream!history
<1> QED
  BY <1>1, TornStop

\* A line of a header or of fields is read.
LEMMA TornLine ==
    ASSUME StreamInv, TornInv, Stream!ReadLine
    PROVE  TornInv'
<1>1. /\ link = "up" /\ wire # <<>> /\ Head(wire).what \in {"len", "type", "reply", "name"}
      /\ lines' = lines \cup {Head(wire).what} /\ wire' = Tail(wire)
      /\ link' = link /\ mode' = mode /\ torn' = torn /\ stalls' = stalls
  BY DEF Stream!ReadLine, Stream!history, Stream!bounds
<1>2. wire \in Seq(WirePiece) /\ Framed(wire)
  BY DEF StreamInv, StreamTyped, TornInv
<1>3. /\ Framed(wire') /\ Head(wire) = wire[1]
      /\ \/ wire' = <<>> /\ Ends(wire[1])
         \/ wire' # <<>> /\ Follows(wire[1], wire'[1])
  BY <1>1, <1>2, FramedTail
<1>4. wire' # <<>> /\ Follows(wire[1], wire'[1])
  BY <1>1, <1>3 DEF Ends
<1>5. Debt(wire', mode', lines') <= Debt(wire, mode, lines)
  <2>1. CASE wire[1].what = "len"
    <3>1. wire'[1].what = "type" /\ "len" \in lines'
      BY <1>1, <1>3, <1>4, <2>1 DEF Follows
    <3> QED
      BY <3>1, <2>1 DEF Debt
  <2>2. CASE wire[1].what = "type"
    <3>1. wire'[1].what = "blank" /\ wire'[1].e # 0 /\ ("len" \in lines' <=> "len" \in lines)
      BY <1>1, <1>3, <1>4, <2>2 DEF Follows
    <3> QED
      BY <1>1, <1>4, <3>1, <2>2 DEF Debt
  <2>3. CASE wire[1].what = "reply"
    <3>1. wire'[1].what = "blank" /\ wire'[1].e = 0
      BY <1>4, <2>3 DEF Follows
    <3>2. Debt(wire', mode', lines') = 0
      BY <3>1 DEF Debt
    <3> QED
      BY <3>2, DebtRange
  <2>4. CASE wire[1].what = "name"
    <3>1. wire'[1].what = "end" /\ "name" \in lines'
      BY <1>1, <1>3, <1>4, <2>4 DEF Follows
    <3> QED
      BY <1>1, <3>1, <2>4 DEF Debt
  <2> QED
    BY <1>1, <1>3, <2>1, <2>2, <2>3, <2>4
<1>6. Cardinality(torn) \in Nat /\ Debt(wire, mode, lines) \in 0..2 /\ Debt(wire', mode', lines') \in 0..2
  BY TornFinite, DebtRange
<1> QED
  BY <1>1, <1>3, <1>5, <1>6 DEF TornInv

\* What is on the wire once the first piece is read, and the subscription is sent again.
LEMMA TornRest ==
    ASSUME StreamInv, TornInv, wire # <<>>,
           wire' = Tail(wire) \/ wire' = Tail(wire) \o Stream!ReplyFrame
    PROVE  /\ Framed(wire') /\ Head(wire) = wire[1]
           /\ wire' # <<>> => wire'[1].what = "reply" \/ Follows(wire[1], wire'[1])
           /\ Ends(wire[1]) => Debt(wire', mode', lines') = 0
<1> DEFINE rest == Tail(wire)
<1>1. wire \in Seq(WirePiece) /\ Framed(wire)
  BY DEF StreamInv, StreamTyped, TornInv
<1>2. /\ Framed(rest) /\ rest \in Seq(WirePiece) /\ Head(wire) = wire[1]
      /\ \/ rest = <<>> /\ Ends(wire[1])
         \/ rest # <<>> /\ Follows(wire[1], rest[1])
  BY <1>1, FramedTail
<1> HIDE DEF rest
<1>3. Framed(wire') /\ (wire' # <<>> => wire'[1].what = "reply" \/ Follows(wire[1], wire'[1]))
  <2>1. CASE wire' = rest
    BY <1>2, <2>1
  <2>2. CASE wire' = rest \o Stream!ReplyFrame
    <3> DEFINE f == Stream!ReplyFrame
    <3>1. f \in Seq(WirePiece) /\ f # <<>> /\ Framed(f) /\ f[1].what = "reply"
      BY Frames, FramesFramed
    <3>2. wire' = rest \o f
      BY <2>2
    <3> HIDE DEF f
    <3>3. Framed(wire') /\ wire'[1] = (IF rest = <<>> THEN f[1] ELSE rest[1])
      BY <1>2, <3>1, <3>2, FramedAppend
    <3> QED
      BY <1>2, <3>1, <3>3
  <2> QED
    BY <2>1, <2>2 DEF rest
<1>4. ASSUME Ends(wire[1]) PROVE Debt(wire', mode', lines') = 0
  <2>1. wire' # <<>> => wire'[1].what \in {"len", "reply"}
    BY <1>3, <1>4 DEF Follows, Ends
  <2> QED
    BY <2>1, FreshDebt
<1> QED
  BY <1>2, <1>3, <1>4

LEMMA TornBlank ==
    ASSUME StreamInv, TornInv, Stream!ReadBlank
    PROVE  TornInv'
<1>1. /\ link = "up" /\ wire # <<>> /\ mode = "header" /\ Head(wire).what = "blank"
      /\ link' = link /\ torn' = torn /\ stalls' = stalls
      /\ wire' = Tail(wire) \/ wire' = Tail(wire) \o Stream!ReplyFrame
      /\ \/ "len" \in lines /\ mode' = "body"
         \/ "len" \notin lines /\ mode' \in {"header", "reply"}
  BY DEF Stream!ReadBlank, Stream!Deliver
<1>2. /\ Framed(wire') /\ Head(wire) = wire[1]
      /\ wire' # <<>> => wire'[1].what = "reply" \/ Follows(wire[1], wire'[1])
      /\ Ends(wire[1]) => Debt(wire', mode', lines') = 0
  BY <1>1, TornRest
<1>3. Debt(wire', mode', lines') <= Debt(wire, mode, lines)
  <2>1. CASE mode' = "body" \/ wire[1].e = 0
    <3>1. Debt(wire', mode', lines') = 0
      BY <1>1, <1>2, <2>1 DEF Debt, Ends
    <3> QED
      BY <3>1, DebtRange
  <2>2. CASE "len" \notin lines /\ wire[1].e # 0
    <3>1. Debt(wire, mode, lines) = 1
      BY <1>1, <1>2, <2>2 DEF Debt
    <3>2. wire' = <<>> \/ wire'[1].what \in {"reply", "name"}
      BY <1>1, <1>2, <2>2 DEF Follows
    <3>3. Debt(wire', mode', lines') \in {0, 1}
      BY <3>2 DEF Debt
    <3> QED
      BY <3>1, <3>3
  <2> QED
    BY <1>1, <2>1, <2>2
<1>4. Cardinality(torn) \in Nat /\ Debt(wire, mode, lines) \in 0..2 /\ Debt(wire', mode', lines') \in 0..2
  BY TornFinite, DebtRange
<1> QED
  BY <1>1, <1>2, <1>3, <1>4 DEF TornInv

\* A body without a name has cost two stops.
LEMMA TornBody ==
    ASSUME StreamInv, TornInv, Stream!ReadBody
    PROVE  TornInv'
<1>1. /\ link = "up" /\ wire # <<>> /\ mode \in {"header", "body"} /\ Head(wire).what = "end"
      /\ link' = link /\ stalls' = stalls
      /\ torn' = (IF Stream!Named THEN torn ELSE torn \cup {Head(wire).e})
      /\ wire' = Tail(wire) \/ wire' = Tail(wire) \o Stream!ReplyFrame
  BY DEF Stream!ReadBody, Stream!Deliver
<1>2. Framed(wire') /\ Head(wire) = wire[1] /\ Debt(wire', mode', lines') = 0
  BY <1>1, TornRest DEF Ends
<1>3. IsFiniteSet(torn) /\ Cardinality(torn) \in Nat /\ Debt(wire, mode, lines) \in 0..2
  BY TornFinite, DebtRange DEF TornInv
<1>4. CASE Stream!Named
  BY <1>1, <1>2, <1>3, <1>4 DEF TornInv
<1>5. CASE ~Stream!Named
  <2>1. Debt(wire, mode, lines) = 2
    BY <1>1, <1>2, <1>5 DEF Stream!Named, Debt
  <2>2. torn' = torn \cup {Head(wire).e}
    BY <1>1, <1>5
  <2>3. IsFiniteSet(torn') /\ Cardinality(torn') \in Nat /\ Cardinality(torn') <= Cardinality(torn) + 1
    <3>1. CASE Head(wire).e \in torn
      <4>1. torn' = torn
        BY <2>2, <3>1
      <4> QED
        BY <1>3, <4>1
    <3>2. CASE Head(wire).e \notin torn
      <4>1. /\ IsFiniteSet(torn \cup {Head(wire).e})
            /\ Cardinality(torn \cup {Head(wire).e}) = Cardinality(torn) + 1
        BY <1>3, <3>2, FS_AddElement
      <4> QED
        BY <1>3, <2>2, <4>1
    <3> QED
      BY <3>1, <3>2
  <2>4. 2 * Cardinality(torn) + 2 <= stalls /\ stalls \in Nat
    BY <2>1 DEF TornInv
  <2>5. 2 * Cardinality(torn') <= stalls'
    BY <1>1, <1>3, <2>3, <2>4
  <2> QED
    BY <1>1, <1>2, <2>3, <2>4, <2>5 DEF TornInv
<1> QED
  BY <1>4, <1>5

LEMMA TornReply ==
    ASSUME StreamInv, TornInv, Stream!ReadReply
    PROVE  TornInv'
<1>1. /\ link = "up" /\ wire # <<>> /\ link' = link /\ stalls' = stalls /\ torn' = torn
      /\ wire' = Tail(wire)
      /\ \/ Head(wire).what = "blank" /\ mode' = "drain"
         \/ /\ mode = "reply" /\ Head(wire).what = "blank" /\ "len" \notin lines
            /\ mode' = "header" /\ lines' = {}
         \/ Head(wire).what = "end" /\ mode' = "header" /\ lines' = {}
  BY DEF Stream!ReadReply, Stream!bounds
<1>2. /\ Framed(wire') /\ Head(wire) = wire[1]
      /\ wire' # <<>> => wire'[1].what = "reply" \/ Follows(wire[1], wire'[1])
      /\ Ends(wire[1]) => Debt(wire', mode', lines') = 0
  BY <1>1, TornRest
<1>3. Debt(wire', mode', lines') <= Debt(wire, mode, lines)
  <2>1. CASE mode' = "drain" \/ Ends(wire[1])
    <3>1. Debt(wire', mode', lines') = 0
      BY <1>2, <2>1 DEF Debt
    <3> QED
      BY <3>1, DebtRange
  <2>2. CASE mode = "reply" /\ wire[1].what = "blank" /\ wire[1].e # 0 /\ "len" \notin lines
    <3>1. Debt(wire, mode, lines) = 1
      BY <1>1, <2>2 DEF Debt
    <3>2. wire' = <<>> \/ wire'[1].what \in {"reply", "name"}
      BY <1>2, <2>2 DEF Follows
    <3>3. Debt(wire', mode', lines') \in {0, 1}
      BY <3>2 DEF Debt
    <3> QED
      BY <3>1, <3>3
  <2> QED
    BY <1>1, <1>2, <2>1, <2>2 DEF Ends
<1>4. Cardinality(torn) \in Nat /\ Debt(wire, mode, lines) \in 0..2 /\ Debt(wire', mode', lines') \in 0..2
  BY TornFinite, DebtRange
<1> QED
  BY <1>1, <1>2, <1>3, <1>4 DEF TornInv

LEMMA TornStep ==
    ASSUME StreamInv, TornInv, [Stream!Next]_Stream!vars
    PROVE  TornInv'
<1>1. CASE UNCHANGED Stream!vars
  BY <1>1, TornQuiet DEF Stream!vars
<1>2. CASE Stream!Break
  BY <1>2, TornQuiet DEF Stream!Break
<1>3. CASE Stream!LoseSubscription
  BY <1>3, TornQuiet DEF Stream!LoseSubscription, Stream!reader, Stream!history
<1>4. CASE Stream!FindClosed
  <2>1. wire = <<>> /\ wire' = wire /\ torn' = torn /\ stalls' = stalls
    BY <1>4 DEF Stream!FindClosed, Stream!history, Stream!bounds, TornInv
  <2> QED
    BY <2>1, TornQuiet
<1>5. CASE Stream!Connect
  BY <1>5, TornQuiet DEF Stream!Connect, Stream!history, Stream!bounds
<1>6. CASE Stream!Handle
  BY <1>6, TornQuiet DEF Stream!Handle, Stream!reader, Stream!history, Stream!bounds
<1>7. CASE Stream!Reconcile
  BY <1>7, TornQuiet DEF Stream!Reconcile, Stream!reader, Stream!history, Stream!bounds
<1> QED
  BY <1>1, <1>2, <1>3, <1>4, <1>5, <1>6, <1>7, TornSend, TornPoll, TornTimeout, TornLine,
     TornBlank, TornBody, TornReply DEF Stream!Next, Stream!Read
-----------------------------------------------------------------------------
(* Together. *)

LEMMA NextStep ==
    ASSUME StreamInv, [Stream!Next]_Stream!vars
    PROVE  StreamInv'
<1>1. CASE UNCHANGED Stream!vars
  BY <1>1 DEF Stream!vars, StreamInv, StreamTyped, TakenInv, Arrived
<1>2. CASE Stream!Next
  BY <1>2, SendStep, BreakStep, LoseSubscriptionStep, ReadLineStep, ReadBlankStep, ReadBodyStep,
     ReadReplyStep, ReplyTimeoutStep, PollStep, FindClosedStep, ConnectStep, HandleStep, ReconcileStep
     DEF Stream!Next, Stream!Read
<1> QED
  BY <1>1, <1>2

LEMMA InvariantKeepsEvents ==
    ASSUME StreamInv, TornInv
    PROVE  EventsAreKept
<1>1. /\ wire \in Seq(WirePiece) /\ queue \in Seq(Nat) /\ handled \in Seq(Nat) /\ sent \in Nat
      /\ Arrived = handled \o queue
  BY DEF StreamInv, StreamTyped, Arrived
<1>2. Elements(Arrived) = Stream!Handled \cup Stream!Queued
  <2>1. /\ \A i \in DOMAIN Arrived :
             \/ i \in DOMAIN handled /\ Arrived[i] = handled[i]
             \/ i \notin DOMAIN handled /\ i - Len(handled) \in DOMAIN queue /\ Arrived[i] = queue[i - Len(handled)]
        /\ \A i \in DOMAIN handled : i \in DOMAIN Arrived /\ Arrived[i] = handled[i]
        /\ \A i \in DOMAIN queue : i + Len(handled) \in DOMAIN Arrived /\ Arrived[i + Len(handled)] = queue[i]
    BY <1>1, ConcatElements
  <2>2. Elements(Arrived) \subseteq Stream!Handled \cup Stream!Queued
    BY <2>1 DEF Elements, Stream!Handled, Stream!Queued
  <2>3. Stream!Handled \subseteq Elements(Arrived)
    BY <2>1 DEF Elements, Stream!Handled
  <2>4. Stream!Queued \subseteq Elements(Arrived)
    BY <2>1 DEF Elements, Stream!Queued
  <2> QED
    BY <2>2, <2>3, <2>4
<1>3. Elements(Arrived) \subseteq 0..sent
  BY DEF StreamInv, InOrder, Elements
<1>4. \A i \in DOMAIN wire : wire[i].what \in {"len", "type", "blank", "name", "end", "reply"}
  <2>1. \A i \in DOMAIN wire : wire[i] \in WirePiece
    BY <1>1
  <2> QED
    BY <2>1 DEF WirePiece
<1>5. Stream!TypeOK
  BY <1>2, <1>3, <1>4 DEF StreamInv, StreamTyped, Stream!TypeOK
<1>6. Cardinality(taken) <= resubs
  <2>1. IsFiniteSet(taken) /\ Cardinality(taken) \in Nat /\ resubs \in Nat
    BY FS_CardinalityType DEF StreamInv, TakenInv
  <2> QED
    BY <2>1 DEF StreamInv, TakenInv
<1>7. Stream!EventsAccountedFor
  <2>1. 1..sent = (Stream!Events(wire) \cup Elements(Arrived) \cup (taken \cup dropped \cup cut \cup torn)) \ {0}
    BY DEF StreamInv, Accounted
  <2>2. Stream!Events(wire) \cup Elements(Arrived) \cup (taken \cup dropped \cup cut \cup torn)
          = Stream!Events(wire) \cup Stream!Queued \cup Stream!Handled \cup taken \cup dropped \cup cut \cup torn
    BY <1>2
  <2>3. 1..sent = (Stream!Events(wire) \cup Stream!Queued \cup Stream!Handled
                     \cup taken \cup dropped \cup cut \cup torn) \ {0}
    BY <2>1, <2>2, Zenon
  <2>4. /\ Stream!Cardinality(taken) = Cardinality(taken)
        /\ Stream!Cardinality(torn) = Cardinality(torn)
    BY DEF Stream!Cardinality, Cardinality
  <2>5. 2 * Cardinality(torn) <= stalls
    BY TornFinite, DebtRange DEF TornInv
  <2> QED
    BY <1>6, <2>3, <2>4, <2>5 DEF Stream!EventsAccountedFor
<1>8. Stream!EventsInOrder
  BY <1>1 DEF StreamInv, InOrder, Stream!EventsInOrder
<1> QED
  BY <1>5, <1>7, <1>8 DEF EventsAreKept

\* Whatever the network and the reader do, an event that was sent is on the wire, queued
\* or handled, or was lost with its connection, to the full queue, to one reply or with
\* its name to two stops of the network, and the worker takes the events in the order they
\* were sent, each once.
THEOREM EventsAlwaysKept == Stream!Spec => []EventsAreKept
<1>1. Stream!Init => StreamInv /\ TornInv
  BY InitStep, TornInit
<1>2. (StreamInv /\ TornInv) /\ [Stream!Next]_Stream!vars => (StreamInv /\ TornInv)'
  BY NextStep, TornStep
<1>3. StreamInv /\ TornInv => EventsAreKept
  BY InvariantKeepsEvents
<1> QED
  BY <1>1, <1>2, <1>3, PTL DEF Stream!Spec
=============================================================================
