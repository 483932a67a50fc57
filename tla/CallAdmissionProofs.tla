------------------------- MODULE CallAdmissionProofs -------------------------
(***************************************************************************)
(* Theorems of CallAdmission, for any number of nodes, calls, gateways and *)
(* access points, any limits, queue size, faults and number of faults.     *)
(*                                                                         *)
(* The heart is that a script never runs with a payload that is out of     *)
(* date: between the GET and the EVAL of release_leg and transfer_leg the  *)
(* credential is left alone or expires.  That holds because only late      *)
(* events (any but CHANNEL_CREATE) start them, those are emitted after the *)
(* dialplan's answer, and one worker handles the events of a call.  IInv   *)
(* states this; counters that follow their credentials are then a matter   *)
(* of the lemmas on scripts, and what a call is charged builds on both.    *)
(***************************************************************************)
EXTENDS CallAdmission, FiniteSetTheorems, TLAPS

-----------------------------------------------------------------------------
(***************************************************************************)
(* What each script of ConcurrencyStore does to a counter and to the       *)
(* number of credentials that charge it, for every number of calls,        *)
(* gateways and access points.  The drift of a counter is its value minus  *)
(* that number; a script that sees the payload it was called for leaves    *)
(* every drift as it is.                                                   *)
(***************************************************************************)

Drift(k) == cnt[k] - Cardinality(Holders(resv, k))

\* The step leaves a well-typed store and every drift unchanged.
KeepsDrift == StoreTypeOK' /\ \A k \in Key : Drift(k)' = Drift(k)

\* The holders of a counter are finite in number.
LEMMA HoldersFinite ==
    ASSUME NEW r, NEW k
    PROVE  IsFiniteSet(Holders(r, k)) /\ Cardinality(Holders(r, k)) \in Nat
<1>1. Holders(r, k) \subseteq Uuid
  BY DEF Holders
<1> QED
  BY <1>1, UuidFinite, FS_Subset, FS_CardinalityType

\* Replacing the credential of one call changes the number of holders of a
\* counter by what the old and the new credential charge.
LEMMA HoldersAfterUpdate ==
    ASSUME NEW r, NEW u \in Uuid, NEW c, NEW k,
           r = [v \in Uuid |-> r[v]]
    PROVE  LET h  == Cardinality(Holders(r, k))
               h1 == Cardinality(Holders([r EXCEPT ![u] = c], k))
           IN  /\ k \in Charges(c) /\ k \notin Charges(r[u]) => h1 = h + 1
               /\ k \notin Charges(c) /\ k \in Charges(r[u]) => h1 = h - 1
               /\ (k \in Charges(c) <=> k \in Charges(r[u])) => h1 = h
<1> DEFINE H == Holders(r, k)
           G == Holders([r EXCEPT ![u] = c], k)
<1>1. IsFiniteSet(H) /\ IsFiniteSet(G) /\ Cardinality(H) \in Nat /\ Cardinality(G) \in Nat
  BY HoldersFinite
<1>2. \A v \in Uuid : [r EXCEPT ![u] = c][v] = IF v = u THEN c ELSE r[v]
  OBVIOUS
<1>3. CASE k \in Charges(c) /\ k \notin Charges(r[u])
  <2>1. G = H \cup {u} /\ u \notin H
    BY <1>2, <1>3 DEF Holders
  <2> QED
    BY <1>1, <1>3, <2>1, FS_AddElement
<1>4. CASE k \notin Charges(c) /\ k \in Charges(r[u])
  <2>1. G = H \ {u} /\ u \in H
    BY <1>2, <1>4 DEF Holders
  <2> QED
    BY <1>1, <1>4, <2>1, FS_RemoveElement
<1>5. CASE k \in Charges(c) <=> k \in Charges(r[u])
  <2>1. G = H
    BY <1>2, <1>5 DEF Holders
  <2> QED
    BY <1>5, <2>1
<1> QED
  BY <1>3, <1>4, <1>5

\* A counter that some credential charges has a positive number of holders.
LEMMA ChargedHasHolder ==
    ASSUME NEW r, NEW u \in Uuid, NEW k, k \in Charges(r[u])
    PROVE  Cardinality(Holders(r, k)) >= 1
<1>1. u \in Holders(r, k)
  BY DEF Holders
<1>2. Cardinality(Holders(r, k)) # 0
  BY <1>1, HoldersFinite, FS_EmptySet
<1> QED
  BY <1>2, HoldersFinite

\* Which counters the kinds of credential charge.
LEMMA ChargesOf ==
    /\ Charges(Absent) = {}
    /\ Charges(Ensured) = {Global}
    /\ \A c \in Full : Charges(c) = {Global, c.g, c.a} \ {NoAp}
    /\ \A c \in Credential : Charges(c) \subseteq Key
BY DEF Charges, Absent, Ensured, Full, Credential, Key

LEMMA FullPayloads ==
    ASSUME NEW g \in Gw, NEW a \in Ap \cup {NoAp}
    PROVE  /\ Reserved(g, a) \in Full /\ Reserved(g, a).g = g /\ Reserved(g, a).a = a
           /\ Moved(g, a) \in Full /\ Moved(g, a).g = g /\ Moved(g, a).a = a
BY DEF Reserved, Moved, Full

\* INCR and DECR of a set of counters give counters again.
LEMMA IncrDecrType ==
    ASSUME NEW c \in [Key -> Nat], NEW K
    PROVE  Incr(c, K) \in [Key -> Nat] /\ Decr(c, K) \in [Key -> Nat]
BY DEF Incr, Decr

\* A credential is written and the counters move by the difference of what it
\* and the old one charge: no drift.
LEMMA ChargeKeepsDrift ==
    ASSUME StoreTypeOK, CountersCoverCredentials,
           NEW u \in Uuid, NEW c \in Credential,
           resv' = [resv EXCEPT ![u] = c],
           cnt' \in [Key -> Nat],
           \A k \in Key : cnt'[k] = cnt[k] + (IF k \in Charges(c) THEN 1 ELSE 0)
                                           - (IF k \in Charges(resv[u]) THEN 1 ELSE 0)
    PROVE  KeepsDrift
<1>1. StoreTypeOK'
  BY DEF StoreTypeOK
<1>2. ASSUME NEW k \in Key PROVE Drift(k)' = Drift(k)
  <2>1. resv = [v \in Uuid |-> resv[v]]
    BY DEF StoreTypeOK
  <2>2. cnt[k] \in Nat /\ Cardinality(Holders(resv, k)) \in Nat
        /\ Cardinality(Holders(resv', k)) \in Nat
    BY HoldersFinite DEF StoreTypeOK
  <2>3. CASE k \in Charges(c) /\ k \notin Charges(resv[u])
    <3>1. Cardinality(Holders(resv', k)) = Cardinality(Holders(resv, k)) + 1
      BY <2>1, <2>3, HoldersAfterUpdate
    <3> QED
      BY <2>2, <2>3, <3>1 DEF Drift
  <2>4. CASE k \notin Charges(c) /\ k \in Charges(resv[u])
    <3>1. Cardinality(Holders(resv', k)) = Cardinality(Holders(resv, k)) - 1
      BY <2>1, <2>4, HoldersAfterUpdate
    <3> QED
      BY <2>2, <2>4, <3>1 DEF Drift
  <2>5. CASE k \in Charges(c) <=> k \in Charges(resv[u])
    <3>1. Cardinality(Holders(resv', k)) = Cardinality(Holders(resv, k))
      BY <2>1, <2>5, HoldersAfterUpdate
    <3> QED
      BY <2>2, <2>5, <3>1 DEF Drift
  <2> QED
    BY <2>3, <2>4, <2>5
<1> QED
  BY <1>1, <1>2 DEF KeepsDrift

\* Nothing written, nothing drifts.
LEMMA UnchangedKeepsDrift ==
    ASSUME StoreTypeOK, UNCHANGED <<cnt, resv>>
    PROVE  KeepsDrift
BY DEF KeepsDrift, StoreTypeOK, Drift

\* _LUA_ENSURE leaves every drift as it is.
LEMMA EnsureKeepsDrift ==
    ASSUME StoreTypeOK, CountersCoverCredentials, NEW u \in Uuid, EnsureEval(u)
    PROVE  KeepsDrift
<1>1. CASE resv[u] = Absent
  <2>1. /\ resv' = [resv EXCEPT ![u] = Ensured]
        /\ cnt' = Incr(cnt, {Global})
    BY <1>1 DEF EnsureEval
  <2>2. \A k \in Key : cnt'[k] = cnt[k] + (IF k \in Charges(Ensured) THEN 1 ELSE 0)
                                         - (IF k \in Charges(resv[u]) THEN 1 ELSE 0)
    BY <1>1, <2>1, ChargesOf DEF Incr, StoreTypeOK
  <2>3. cnt' \in [Key -> Nat] /\ Ensured \in Credential
    BY <2>1, IncrDecrType DEF StoreTypeOK, Credential
  <2> QED
    BY <2>1, <2>2, <2>3, ChargeKeepsDrift
<1>2. CASE resv[u] # Absent
  BY <1>2, UnchangedKeepsDrift DEF EnsureEval
<1> QED
  BY <1>1, <1>2

\* _LUA_RESERVE leaves every drift as it is, upgrade of an ensured credential
\* included.
LEMMA ReserveKeepsDrift ==
    ASSUME StoreTypeOK, CountersCoverCredentials,
           NEW u \in Uuid, NEW g \in Gw, NEW a \in Ap \cup {NoAp},
           ReserveEval(u, g, a)
    PROVE  KeepsDrift
<1> DEFINE c == Reserved(g, a)
<1>1. CASE ReserveVerdict(u, g, a) = "ok" /\ resv[u] \in {Absent, Ensured}
  <2>1. /\ resv' = [resv EXCEPT ![u] = c]
        /\ cnt' = Incr(cnt, Charges(c) \ Charges(resv[u]))
    BY <1>1 DEF ReserveEval
  <2>2. c \in Credential /\ Charges(c) = {Global, g, a} \ {NoAp}
    BY FullPayloads, ChargesOf DEF Credential
  <2>3. Charges(resv[u]) \subseteq Charges(c)
    BY <1>1, <2>2, ChargesOf, KeysDistinct
  <2>4. \A k \in Key : cnt'[k] = cnt[k] + (IF k \in Charges(c) THEN 1 ELSE 0)
                                         - (IF k \in Charges(resv[u]) THEN 1 ELSE 0)
    BY <2>1, <2>3 DEF Incr, StoreTypeOK
  <2>5. cnt' \in [Key -> Nat]
    BY <2>1, IncrDecrType DEF StoreTypeOK
  <2> QED
    BY <2>1, <2>2, <2>4, <2>5, ChargeKeepsDrift
<1>2. CASE ~(ReserveVerdict(u, g, a) = "ok" /\ resv[u] \in {Absent, Ensured})
  BY <1>2, UnchangedKeepsDrift DEF ReserveEval
<1> QED
  BY <1>1, <1>2

\* _LUA_RELEASE called with the stored payload, or finding none, leaves every
\* drift as it is: the clamp at 0 never hides a decrement.
LEMMA ReleaseKeepsDrift ==
    ASSUME StoreTypeOK, CountersCoverCredentials,
           NEW u \in Uuid, NEW p, resv[u] \in {Absent, p}, ReleaseEval(u, p)
    PROVE  KeepsDrift
<1>1. CASE resv[u] = Absent
  BY <1>1, UnchangedKeepsDrift DEF ReleaseEval
<1>2. CASE resv[u] # Absent
  <2>0. resv[u] = p /\ resv[u] \in {Ensured} \cup Full
    BY <1>2 DEF StoreTypeOK, Credential
  <2>1. /\ resv' = [resv EXCEPT ![u] = Absent]
        /\ cnt' = Decr(cnt, Charges(resv[u]))
    BY <1>2, <2>0, ChargesOf DEF ReleaseEval
  <2>2. \A k \in Key : k \in Charges(resv[u]) => cnt[k] > 0
    BY ChargedHasHolder, HoldersFinite DEF CountersCoverCredentials, StoreTypeOK
  <2>3. \A k \in Key : cnt'[k] = cnt[k] + (IF k \in Charges(Absent) THEN 1 ELSE 0)
                                         - (IF k \in Charges(resv[u]) THEN 1 ELSE 0)
    BY <2>1, <2>2, ChargesOf DEF Decr, StoreTypeOK
  <2>4. cnt' \in [Key -> Nat] /\ Absent \in Credential
    BY <2>1, IncrDecrType DEF StoreTypeOK, Credential
  <2> QED
    BY <2>1, <2>3, <2>4, ChargeKeepsDrift
<1> QED
  BY <1>1, <1>2

\* _LUA_TRANSFER_GW called with the stored payload, or finding none, leaves
\* every drift as it is.
LEMMA TransferKeepsDrift ==
    ASSUME StoreTypeOK, CountersCoverCredentials,
           NEW u \in Uuid, NEW p, NEW g \in Gw,
           resv[u] \in {Absent, p}, TransferEval(u, p, g)
    PROVE  KeepsDrift
<1>1. CASE resv[u] = Absent
  BY <1>1, UnchangedKeepsDrift DEF TransferEval
<1>2. CASE resv[u] # Absent
  <2> DEFINE c == Moved(g, p.a)
  <2>0. resv[u] = p /\ (p = Ensured \/ p \in Full)
    BY <1>2 DEF StoreTypeOK, Credential
  <2>1. p.a \in Ap \cup {NoAp}
    BY <2>0 DEF Full, Ensured
  <2>2. c \in Credential /\ Charges(c) = {Global, g, p.a} \ {NoAp}
    BY <2>1, FullPayloads, ChargesOf DEF Credential
  <2>3. resv' = [resv EXCEPT ![u] = c]
    BY <1>2 DEF TransferEval
  <2>4. \A k \in Key : k \in Charges(resv[u]) => cnt[k] > 0
    BY ChargedHasHolder, HoldersFinite DEF CountersCoverCredentials, StoreTypeOK
  <2>5. CASE p = Ensured
    <3>1. cnt' = Incr(cnt, {g})
      BY <1>2, <2>0, <2>5 DEF TransferEval
    <3>2. Charges(resv[u]) = {Global} /\ Charges(c) = {Global, g}
      BY <2>0, <2>2, <2>5, ChargesOf, KeysDistinct DEF Ensured
    <3>3. \A k \in Key : cnt'[k] = cnt[k] + (IF k \in Charges(c) THEN 1 ELSE 0)
                                           - (IF k \in Charges(resv[u]) THEN 1 ELSE 0)
      BY <3>1, <3>2, KeysDistinct DEF Incr, StoreTypeOK
    <3>4. cnt' \in [Key -> Nat]
      BY <3>1, IncrDecrType DEF StoreTypeOK
    <3> QED
      BY <2>2, <2>3, <3>3, <3>4, ChargeKeepsDrift
  <2>6. CASE p \in Full
    <3>1. cnt' = Incr(Decr(cnt, {p.g}), {g})
      BY <1>2, <2>0, <2>6 DEF TransferEval, Full, Ensured
    <3>2. /\ Charges(resv[u]) = {Global, p.g, p.a} \ {NoAp}
          /\ p.g \in Gw /\ p.g \in Charges(resv[u])
      BY <2>0, <2>6, ChargesOf, KeysDistinct DEF Full
    <3>3. cnt[p.g] > 0
      BY <2>4, <3>2 DEF Key
    <3>4. \A k \in Key : cnt'[k] = cnt[k] + (IF k = g THEN 1 ELSE 0)
                                           - (IF k = p.g THEN 1 ELSE 0)
      BY <3>1, <3>3 DEF Incr, Decr, StoreTypeOK
    <3>5. \A k \in Key : cnt'[k] = cnt[k] + (IF k \in Charges(c) THEN 1 ELSE 0)
                                           - (IF k \in Charges(resv[u]) THEN 1 ELSE 0)
      BY <2>1, <2>2, <3>2, <3>4, KeysDistinct DEF StoreTypeOK
    <3>6. cnt' \in [Key -> Nat]
      BY <3>1, IncrDecrType DEF StoreTypeOK
    <3> QED
      BY <2>2, <2>3, <3>5, <3>6, ChargeKeepsDrift
  <2> QED
    BY <2>0, <2>5, <2>6
<1> QED
  BY <1>1, <1>2

\* A lease that ends takes a credential and no count: no counter falls behind
\* the number of its holders.
LEMMA ExpiryRaisesDrift ==
    ASSUME StoreTypeOK, NEW u \in Uuid, LeaseExpires(u)
    PROVE  StoreTypeOK' /\ \A k \in Key : Drift(k)' >= Drift(k)
<1>1. StoreTypeOK'
  BY DEF StoreTypeOK, LeaseExpires, Credential
<1>2. ASSUME NEW k \in Key PROVE Drift(k)' >= Drift(k)
  <2>1. resv = [v \in Uuid |-> resv[v]] /\ resv' = [resv EXCEPT ![u] = Absent] /\ cnt' = cnt
    BY DEF StoreTypeOK, LeaseExpires
  <2>2. k \notin Charges(Absent)
    BY ChargesOf
  <2>3. cnt[k] \in Nat /\ Cardinality(Holders(resv, k)) \in Nat
    BY HoldersFinite DEF StoreTypeOK
  <2>4. \/ Cardinality(Holders(resv', k)) = Cardinality(Holders(resv, k))
        \/ Cardinality(Holders(resv', k)) = Cardinality(Holders(resv, k)) - 1
    BY <2>1, <2>2, HoldersAfterUpdate
  <2> QED
    BY <2>1, <2>3, <2>4 DEF Drift
<1> QED
  BY <1>1, <1>2

\* Non-negative drift is what covering the credentials means, and no drift is
\* what matching them means.
LEMMA DriftMeaning ==
    ASSUME StoreTypeOK
    PROVE  /\ CountersCoverCredentials <=> \A k \in Key : Drift(k) >= 0
           /\ CountersMatchCredentials <=> \A k \in Key : Drift(k) = 0
<1>1. \A k \in Key : cnt[k] \in Nat /\ Cardinality(Holders(resv, k)) \in Nat
  BY HoldersFinite DEF StoreTypeOK
<1> QED
  BY <1>1 DEF Drift, CountersCoverCredentials, CountersMatchCredentials

-----------------------------------------------------------------------------
(* The calls and the nodes. *)

\* The dialplan has answered for call u and will not touch its credential.
Answered(u) ==
    /\ chan[u] \notin {"new", "wait"}
    /\ \A n \in Node : dp[n] # NoCall => dp[n].u # u

LegsInv == \A u \in Uuid : chan[u] = "routed" => legs[u] # <<>>

\* A handler reserves for a call of its own node that FreeSWITCH waits for,
\* or that a crash of FreeSWITCH took away meanwhile.
HandlerInv ==
    \A n \in Node : dp[n] # NoCall =>
        /\ Home[dp[n].u] = n
        /\ chan[dp[n].u] \in {"wait", "gone"}
        /\ dp[n].todo # <<>>

\* A queue holds events of its own node; late ones are of answered calls.
QueueInv ==
    \A n \in Node : \A i \in 1..Len(evq[n]) :
        /\ Home[evq[n][i].u] = n
        /\ evq[n][i].kind # "create" => Answered(evq[n][i].u)

\* A worker is between GET and EVAL for an answered call of its own node, whose
\* credential is what was read or has expired.
WorkerInv ==
    \A n \in Node : ew[n] # Resting =>
        /\ Home[ew[n].u] = n
        /\ Answered(ew[n].u)
        /\ resv[ew[n].u] \in {Absent, ew[n].p}

ControlInv == LegsInv /\ HandlerInv /\ QueueInv /\ WorkerInv

IInv == TypeOK /\ ControlInv /\ CountersCoverCredentials
-----------------------------------------------------------------------------
(* Lemmas. *)

\* NoCall is not an attempt and Resting is not work: their fields tell.
LEMMA Tokens ==
    /\ \A w \in Work : w # Resting =>
          /\ w.u \in Uuid /\ w.p \in Credential
          /\ w.op \in {"transfer", "release"}
          /\ w.op = "transfer" => w.g \in Gw
    /\ \A d \in Attempt \cup {NoCall} : d # NoCall =>
          d.u \in Uuid /\ d.skipped \in Seq(Gw) /\ d.todo \in Seq(Gw)
BY DEF Work, Resting, Attempt, NoCall

\* The candidate lists are non-empty sequences of gateways.
LEMMA CandidatesType ==
    ASSUME NEW s \in Candidates
    PROVE  s \in Seq(Gw) /\ s # <<>>
<1>1. PICK m \in 1..Cardinality(Gw) : s \in [1..m -> Gw]
  BY DEF Candidates
<1>2. m \in Nat /\ m >= 1
  BY <1>1
<1>3. s \in Seq(Gw) /\ Len(s) = m
  BY <1>1, <1>2
<1> QED
  BY <1>2, <1>3

\* What Emit does: nothing to the queues, or one more event on the queue of
\* the call's node.
LEMMA EmitEffect ==
    ASSUME TypeOK, NEW e \in Event, Emit(e)
    PROVE  /\ evq' \in [Node -> Seq(Event)]
           /\ faults' \in 0..MaxFaults
           /\ \A n \in Node : \A i \in 1..Len(evq'[n]) :
                 \/ i \in 1..Len(evq[n]) /\ evq'[n][i] = evq[n][i]
                 \/ n = Home[e.u] /\ evq'[n][i] = e
<1> DEFINE h == Home[e.u]
<1>0. h \in Node /\ evq \in [Node -> Seq(Event)] /\ evq[h] \in Seq(Event)
  BY AdmissionTypes DEF TypeOK, Event
<1>1. evq' = [evq EXCEPT ![h] = Append(evq[h], e)] \/ evq' = evq
  BY DEF Emit, Fault
<1>2. faults' \in 0..MaxFaults
  BY AdmissionTypes DEF Emit, Fault, TypeOK
<1>3. CASE evq' = evq
  BY <1>0, <1>2, <1>3
<1>4. CASE evq' = [evq EXCEPT ![h] = Append(evq[h], e)]
  <2>1. Append(evq[h], e) \in Seq(Event) /\ Len(Append(evq[h], e)) = Len(evq[h]) + 1
    BY <1>0
  <2>2. evq' \in [Node -> Seq(Event)]
    BY <1>0, <1>4, <2>1
  <2>3. ASSUME NEW n \in Node, NEW i \in 1..Len(evq'[n])
        PROVE  \/ i \in 1..Len(evq[n]) /\ evq'[n][i] = evq[n][i]
               \/ n = h /\ evq'[n][i] = e
    <3>1. CASE n = h
      BY <1>0, <1>4, <2>1, <2>3, <3>1
    <3>2. CASE n # h
      BY <1>0, <1>4, <2>3, <3>2
    <3> QED
      BY <3>1, <3>2
  <2> QED
    BY <1>2, <2>2, <2>3
<1> QED
  BY <1>1, <1>3, <1>4

\* The head of a queue is an event and the tail has the others.
LEMMA HeadEvent ==
    ASSUME NEW q \in Seq(Event), q # <<>>
    PROVE  /\ Head(q) \in Event /\ Head(q) = q[1] /\ 1 \in 1..Len(q)
           /\ Head(q).u \in Uuid /\ Head(q).g \in Gw \cup {NoGw}
           /\ Tail(q) \in Seq(Event)
           /\ \A i \in 1..Len(Tail(q)) : i + 1 \in 1..Len(q) /\ Tail(q)[i] = q[i + 1]
<1>1. Head(q) \in Event /\ Head(q) = q[1] /\ 1 \in 1..Len(q)
  OBVIOUS
<1>2. Head(q).u \in Uuid /\ Head(q).g \in Gw \cup {NoGw}
  BY <1>1 DEF Event
<1>3. Tail(q) \in Seq(Event) /\ Len(Tail(q)) = Len(q) - 1
  OBVIOUS
<1>4. \A i \in 1..Len(Tail(q)) : i + 1 \in 1..Len(q) /\ Tail(q)[i] = q[i + 1]
  BY <1>3
<1> QED
  BY <1>1, <1>2, <1>3, <1>4

LEMMA Concatenation ==
    ASSUME NEW S, NEW r \in Seq(S), NEW s \in Seq(S)
    PROVE  r \o s \in Seq(S) /\ Len(r \o s) = Len(r) + Len(s)
OBVIOUS

\* Lengths tell that these lists are not empty.
LEMMA LegLists ==
    /\ \A s \in Seq(Gw) : Len(s) # 0 => s # <<>>
    /\ \A s \in Seq(Gw) : Len(s) > 1 => Tail(s) \in Seq(Gw) /\ Tail(s) # <<>>
    /\ \A r, s \in Seq(Gw) : s # <<>> =>
          /\ <<Head(s)>> \o r \o Tail(s) \in Seq(Gw)
          /\ <<Head(s)>> \o r \o Tail(s) # <<>>
<1>0. Len(<<>>) = 0
  OBVIOUS
<1>1. ASSUME NEW s \in Seq(Gw), Len(s) # 0 PROVE s # <<>>
  BY <1>0, <1>1, Zenon
<1>2. ASSUME NEW s \in Seq(Gw), Len(s) > 1 PROVE Tail(s) \in Seq(Gw) /\ Tail(s) # <<>>
  <2>1. Tail(s) \in Seq(Gw) /\ Len(Tail(s)) = Len(s) - 1
    BY <1>2
  <2>2. Len(Tail(s)) # 0
    BY <1>2, <2>1
  <2> QED
    BY <1>1, <2>1, <2>2
<1>3. ASSUME NEW r \in Seq(Gw), NEW s \in Seq(Gw), s # <<>>
      PROVE  /\ <<Head(s)>> \o r \o Tail(s) \in Seq(Gw)
             /\ <<Head(s)>> \o r \o Tail(s) # <<>>
  <2> DEFINE h == <<Head(s)>>
             t == Tail(s)
  <2>1. h \in Seq(Gw) /\ Len(h) = 1 /\ t \in Seq(Gw) /\ Len(t) \in Nat
    BY <1>3
  <2> HIDE DEF h, t
  <2>2. h \o r \in Seq(Gw) /\ Len(h \o r) = 1 + Len(r)
    BY <2>1, Concatenation
  <2>3. (h \o r) \o t \in Seq(Gw) /\ Len((h \o r) \o t) = 1 + Len(r) + Len(t)
    BY <2>1, <2>2, Concatenation
  <2>4. Len((h \o r) \o t) # 0
    BY <2>1, <2>3
  <2>5. (h \o r) \o t # <<>>
    BY <1>1, <2>3, <2>4
  <2> QED
    BY <2>3, <2>5 DEF h, t
<1> QED
  BY <1>1, <1>2, <1>3

\* Replacing the head of a queue leaves the other events in place.
LEMMA ReplaceHead ==
    ASSUME NEW q \in Seq(Event), q # <<>>, NEW e \in Event
    PROVE  LET r == [q EXCEPT ![1] = e]
           IN  /\ r \in Seq(Event) /\ Len(r) = Len(q) /\ r[1] = e
               /\ \A i \in 1..Len(q) : i # 1 => r[i] = q[i]
<1> DEFINE r == [q EXCEPT ![1] = e]
<1>1. q \in [1..Len(q) -> Event] /\ Len(q) \in Nat /\ 1 \in 1..Len(q)
  OBVIOUS
<1>2. r \in [1..Len(q) -> Event] /\ r[1] = e /\ \A i \in 1..Len(q) : i # 1 => r[i] = q[i]
  BY <1>1
<1>3. r \in Seq(Event) /\ Len(r) = Len(q)
  BY <1>1, <1>2
<1> QED
  BY <1>2, <1>3

\* A response gives a channel one of its states, and only a waiting one changes.
LEMMA RespondEffect ==
    ASSUME chan \in [Uuid -> ChanState], NEW u \in Uuid, NEW state \in ChanState,
           Respond(u, state)
    PROVE  /\ chan' \in [Uuid -> ChanState]
           /\ \A v \in Uuid : chan'[v] = chan[v] \/ (v = u /\ chan[u] = "wait" /\ chan'[u] = state)
BY DEF Respond

-----------------------------------------------------------------------------
(* One step. *)

\* What a step may do to the store: run one script, for a gateway and access
\* point of the model and a payload that is up to date, or end a lease.
ScriptRuns(u) ==
    \/ EnsureEval(u)
    \/ \E g \in Gw, a \in Ap \cup {NoAp} : ReserveEval(u, g, a)
    \/ \E p \in Credential : resv[u] \in {Absent, p} /\ ReleaseEval(u, p)
    \/ \E p \in Credential, g \in Gw : resv[u] \in {Absent, p} /\ TransferEval(u, p, g)

LEMMA ScriptStep ==
    ASSUME IInv, [Next]_vars
    PROVE  \/ UNCHANGED <<cnt, resv>>
           \/ \E u \in Uuid : ScriptRuns(u)
           \/ "expiry" \in FaultKinds /\ \E u \in Uuid : LeaseExpires(u)
<1> USE DEF store, fs
<1> DEFINE Goal == UNCHANGED <<cnt, resv>> \/ \E u \in Uuid : ScriptRuns(u)
<1>0. /\ dp \in [Node -> Attempt \cup {NoCall}] /\ ew \in [Node -> Work]
      /\ evq \in [Node -> Seq(Event)]
  BY DEF IInv, TypeOK
<1>2. CASE UNCHANGED vars
  BY <1>2 DEF vars
<1>3. ASSUME NEW n \in Node, Dialplan(n) PROVE Goal
  <2>1. CASE Reserve(n) \/ ReserveUnanswered(n)
    <3>1. dp[n] # NoCall
      BY <2>1 DEF Reserve, ReserveUnanswered
    <3>2. dp[n].u \in Uuid /\ dp[n].todo \in Seq(Gw) /\ dp[n].todo # <<>>
      BY <1>0, <3>1, Tokens DEF IInv, ControlInv, HandlerInv
    <3>3. Head(dp[n].todo) \in Gw /\ ApOf[dp[n].u] \in Ap \cup {NoAp}
      BY <3>2, AdmissionTypes
    <3>4. ReserveEval(dp[n].u, Head(dp[n].todo), ApOf[dp[n].u]) \/ UNCHANGED <<cnt, resv>>
      BY <2>1 DEF Reserve, ReserveUnanswered
    <3> QED
      BY <3>2, <3>3, <3>4 DEF ScriptRuns
  <2>2. CASE \E u \in Uuid : AnswerWithoutSlot(n, u) \/ Screen(n, u)
    BY <2>2 DEF AnswerWithoutSlot, Screen
  <2> QED
    BY <1>3, <2>1, <2>2 DEF Dialplan
<1>4. ASSUME NEW n \in Node, Worker(n) PROVE Goal
  <2>1. CASE HandleCreate(n)
    <3>1. Head(evq[n]).u \in Uuid
      BY <1>0, <2>1, HeadEvent DEF HandleCreate, Idle
    <3>2. EnsureEval(Head(evq[n]).u) \/ UNCHANGED <<cnt, resv>>
      BY <2>1 DEF HandleCreate
    <3> QED
      BY <3>1, <3>2 DEF ScriptRuns
  <2>2. CASE HandleVars(n) \/ HandleHangup(n)
    BY <2>2 DEF HandleVars, HandleHangup
  <2>3. CASE FinishTransfer(n) \/ FinishRelease(n)
    <3>1. ew[n] # Resting
      BY <2>3 DEF FinishTransfer, FinishRelease, Resting
    <3>2. ew[n] \in Work /\ ew[n].u \in Uuid /\ ew[n].p \in Credential
      BY <1>0, <3>1, Tokens
    <3>3. resv[ew[n].u] \in {Absent, ew[n].p}
      BY <3>1 DEF IInv, ControlInv, WorkerInv
    <3>4. CASE FinishTransfer(n)
      <4>1. ew[n].g \in Gw
        BY <3>1, <3>2, <3>4, Tokens DEF FinishTransfer
      <4>2. TransferEval(ew[n].u, ew[n].p, ew[n].g) \/ UNCHANGED <<cnt, resv>>
        BY <3>4 DEF FinishTransfer
      <4> QED
        BY <3>2, <3>3, <4>1, <4>2 DEF ScriptRuns
    <3>5. CASE FinishRelease(n)
      <4>1. ReleaseEval(ew[n].u, ew[n].p) \/ UNCHANGED <<cnt, resv>>
        BY <3>5 DEF FinishRelease
      <4> QED
        BY <3>2, <3>3, <4>1 DEF ScriptRuns
    <3> QED
      BY <2>3, <3>4, <3>5
  <2> QED
    BY <1>4, <2>1, <2>2, <2>3 DEF Worker
<1>5. ASSUME NEW u \in Uuid, Channel(u) PROVE Goal
  BY <1>5 DEF Channel, NewCall, ReportLeg, Failover, HangUp
<1>6. CASE RedisDown \/ RedisBack \/ \E n \in Node : FsCrash(n) \/ Restart(n)
  BY <1>6 DEF RedisDown, RedisBack, FsCrash, Restart
<1>7. ASSUME NEW u \in Uuid, LeaseEnds(u)
      PROVE  "expiry" \in FaultKinds /\ LeaseExpires(u)
  BY <1>7 DEF LeaseEnds, Fault
<1> QED
  BY <1>2, <1>3, <1>4, <1>5, <1>6, <1>7 DEF Next, Step

\* Every step of the store keeps the drift of every counter, or is the end of
\* a lease.
LEMMA StoreStep ==
    ASSUME IInv, [Next]_vars
    PROVE  KeepsDrift \/ ("expiry" \in FaultKinds /\ \E u \in Uuid : LeaseExpires(u))
<1>1. StoreTypeOK /\ CountersCoverCredentials
  BY DEF IInv, TypeOK
<1>2. ASSUME NEW u \in Uuid, ScriptRuns(u) PROVE KeepsDrift
  BY <1>1, <1>2, EnsureKeepsDrift, ReserveKeepsDrift, ReleaseKeepsDrift, TransferKeepsDrift
     DEF ScriptRuns
<1>3. CASE UNCHANGED <<cnt, resv>>
  BY <1>1, <1>3, UnchangedKeepsDrift
<1> QED
  BY <1>2, <1>3, ScriptStep

\* Every step gives well-typed values again.
LEMMA TypeStep ==
    ASSUME IInv, StoreTypeOK', [Next]_vars
    PROVE  TypeOK'
<1> USE DEF store, fs
<1>0. TypeOK /\ LegsInv /\ HandlerInv
  BY DEF IInv, ControlInv
<1>1. CASE UNCHANGED vars
  BY <1>0, <1>1 DEF vars, TypeOK
<1>2. ASSUME NEW u \in Uuid, Channel(u) PROVE TypeOK'
  <2>1. CASE NewCall(u)
    <3>1. [kind |-> "create", u |-> u, g |-> NoGw] \in Event
      BY DEF Event
    <3>2. Emit([kind |-> "create", u |-> u, g |-> NoGw])
      BY <2>1 DEF NewCall
    <3> QED
      BY <1>0, <2>1, <3>1, <3>2, EmitEffect DEF NewCall, TypeOK, ChanState
  <2>2. CASE ReportLeg(u)
    <3> DEFINE e == [kind |-> "vars", u |-> u, g |-> Head(legs[u])]
    <3>1. legs[u] \in Seq(Gw) /\ legs[u] # <<>>
      BY <1>0, <2>2 DEF ReportLeg, TypeOK, LegsInv
    <3>2. Head(legs[u]) \in Gw
      BY <3>1
    <3>3. e \in Event
      BY <3>2 DEF Event
    <3>4. Emit(e)
      BY <2>2 DEF ReportLeg
    <3>5. evq' \in [Node -> Seq(Event)] /\ faults' \in 0..MaxFaults
      BY <1>0, <3>3, <3>4, EmitEffect
    <3> QED
      BY <1>0, <2>2, <3>5 DEF ReportLeg, TypeOK
  <2>3. CASE Failover(u)
    <3>1. Tail(legs[u]) \in Seq(Gw)
      BY <1>0, <2>3 DEF Failover, TypeOK
    <3> QED
      BY <1>0, <2>3, <3>1 DEF Failover, TypeOK
  <2>4. CASE HangUp(u)
    <3>1. PICK e \in Event : Emit(e)
      <4>1. chan[u] = "routed" => Head(legs[u]) \in Gw
        BY <1>0 DEF TypeOK, LegsInv
      <4> QED
        BY <2>4, <4>1 DEF HangUp, Event
    <3>2. evq' \in [Node -> Seq(Event)] /\ faults' \in 0..MaxFaults
      BY <1>0, <3>1, EmitEffect
    <3> QED
      BY <1>0, <2>4, <3>2 DEF HangUp, TypeOK, ChanState
  <2> QED
    BY <1>2, <2>1, <2>2, <2>3, <2>4 DEF Channel
<1>3. ASSUME NEW n \in Node, Dialplan(n) PROVE TypeOK'
  <2>0. /\ Refused \cup InCall \subseteq ChanState
        /\ {"denied", "busy_global", "busy_ap", "busy_gw", "busy_redis"} \subseteq Refused
        /\ {"local", "routed"} \subseteq InCall
    BY DEF ChanState, Refused, InCall
  <2>1. ASSUME NEW u \in Uuid, AnswerWithoutSlot(n, u) PROVE TypeOK'
    <3>1. chan' \in [Uuid -> ChanState]
      BY <1>0, <2>0, <2>1, RespondEffect DEF AnswerWithoutSlot, TypeOK
    <3> QED
      BY <1>0, <2>1, <3>1 DEF AnswerWithoutSlot, TypeOK
  <2>2. ASSUME NEW u \in Uuid, Screen(n, u) PROVE TypeOK'
    <3>1. \A todo \in Candidates :
             [u |-> u, skipped |-> <<>>, todo |-> todo] \in Attempt
      BY CandidatesType DEF Attempt
    <3>2. dp' \in [Node -> Attempt \cup {NoCall}]
      BY <1>0, <2>2, <3>1 DEF Screen, StartReserving, TypeOK
    <3>3. Precheck(u) # "ok" => Precheck(u) \in ChanState
      BY <2>0 DEF Precheck
    <3>4. chan' \in [Uuid -> ChanState]
      BY <1>0, <2>0, <2>2, <3>3, RespondEffect DEF Screen, TypeOK
    <3> QED
      BY <1>0, <2>2, <3>2, <3>4 DEF Screen, TypeOK
  <2>3. ASSUME dp[n] # NoCall
        PROVE  /\ Route(n) =>
                             /\ chan' \in [Uuid -> ChanState]
                             /\ legs' \in [Uuid -> Seq(Gw)]
                             /\ dp' \in [Node -> Attempt \cup {NoCall}]
               /\ \A state \in Refused : Refuse(n, state) =>
                             /\ chan' \in [Uuid -> ChanState]
                             /\ legs' \in [Uuid -> Seq(Gw)]
                             /\ dp' \in [Node -> Attempt \cup {NoCall}]
    <3>1. /\ dp[n].u \in Uuid /\ dp[n].skipped \in Seq(Gw)
          /\ dp[n].todo \in Seq(Gw) /\ dp[n].todo # <<>>
      BY <1>0, <2>3, Tokens DEF TypeOK, HandlerInv
    <3>2. <<Head(dp[n].todo)>> \o dp[n].skipped \o Tail(dp[n].todo) \in Seq(Gw)
      BY <3>1
    <3>3. ASSUME Route(n)
          PROVE  /\ chan' \in [Uuid -> ChanState]
                 /\ legs' \in [Uuid -> Seq(Gw)]
                 /\ dp' \in [Node -> Attempt \cup {NoCall}]
      <4>1. chan' \in [Uuid -> ChanState]
        BY <1>0, <2>0, <3>1, <3>3, RespondEffect DEF Route, TypeOK
      <4> QED
        BY <1>0, <3>1, <3>2, <3>3, <4>1 DEF Route, TypeOK
    <3>4. ASSUME NEW state \in Refused, Refuse(n, state)
          PROVE  /\ chan' \in [Uuid -> ChanState]
                 /\ legs' \in [Uuid -> Seq(Gw)]
                 /\ dp' \in [Node -> Attempt \cup {NoCall}]
      <4>1. chan' \in [Uuid -> ChanState]
        BY <1>0, <2>0, <3>1, <3>4, RespondEffect DEF Refuse, TypeOK
      <4> QED
        BY <1>0, <3>4, <4>1 DEF Refuse, TypeOK
    <3> QED
      BY <3>3, <3>4
  <2>4. CASE Reserve(n)
    <3>1. CASE \E state \in Refused : Refuse(n, state)
      BY <1>0, <2>3, <2>4, <3>1 DEF Reserve, TypeOK
    <3>2. CASE Route(n)
      BY <1>0, <2>3, <2>4, <3>2 DEF Reserve, TypeOK
    <3>3. CASE /\ Len(dp[n].todo) > 1
               /\ dp' = [dp EXCEPT ![n] = [u |-> dp[n].u,
                             skipped |-> Append(dp[n].skipped, Head(dp[n].todo)),
                             todo |-> Tail(dp[n].todo)]]
               /\ UNCHANGED <<chan, legs>>
      <4>1. /\ dp[n].u \in Uuid /\ dp[n].skipped \in Seq(Gw)
            /\ dp[n].todo \in Seq(Gw) /\ dp[n].todo # <<>>
        BY <1>0, <2>4, Tokens DEF TypeOK, HandlerInv, Reserve
      <4>2. Head(dp[n].todo) \in Gw /\ Tail(dp[n].todo) \in Seq(Gw)
            /\ Append(dp[n].skipped, Head(dp[n].todo)) \in Seq(Gw)
        BY <4>1
      <4>3. dp' \in [Node -> Attempt \cup {NoCall}]
        BY <1>0, <3>3, <4>1, <4>2 DEF Attempt, TypeOK
      <4> QED
        BY <1>0, <2>4, <3>3, <4>3 DEF Reserve, TypeOK
    <3> QED
      BY <2>0, <2>4, <3>1, <3>2, <3>3 DEF Reserve, TryNext
  <2>5. CASE ReserveUnanswered(n)
    <3>1. dp[n] # NoCall /\ (Route(n) \/ Refuse(n, "busy_redis"))
      BY <2>5 DEF ReserveUnanswered
    <3>2. faults' \in 0..MaxFaults
      BY <1>0, <2>5, AdmissionTypes DEF ReserveUnanswered, Fault, TypeOK
    <3> QED
      BY <1>0, <2>0, <2>3, <2>5, <3>1, <3>2 DEF ReserveUnanswered, TypeOK
  <2> QED
    BY <1>3, <2>1, <2>2, <2>4, <2>5 DEF Dialplan
<1>4. ASSUME NEW n \in Node, Worker(n) PROVE TypeOK'
  <2>1. CASE Idle(n)
    <3>0. /\ evq[n] \in Seq(Event) /\ evq[n] # <<>>
          /\ Head(evq[n]).u \in Uuid /\ Head(evq[n]).g \in Gw \cup {NoGw}
          /\ Tail(evq[n]) \in Seq(Event) /\ resv[Head(evq[n]).u] \in Credential
      BY <1>0, <2>1, HeadEvent DEF Idle, TypeOK, StoreTypeOK
    <3>1. Dequeue(n) => evq' \in [Node -> Seq(Event)]
      BY <1>0, <3>0 DEF Dequeue, TypeOK
    <3>2. CASE HandleCreate(n)
      BY <1>0, <3>0, <3>1, <3>2 DEF HandleCreate, TypeOK
    <3>3. CASE HandleVars(n)
      <4> DEFINE e == Head(evq[n])
                 b == [kind |-> "bare", u |-> e.u, g |-> NoGw]
      <4>1. b \in Event
        BY <3>0 DEF Event
      <4>2. [evq[n] EXCEPT ![1] = b] \in Seq(Event)
        BY <3>0, <4>1, ReplaceHead
      <4>3. evq' \in [Node -> Seq(Event)]
        BY <1>0, <3>1, <3>3, <4>2 DEF HandleVars, TypeOK
      <4>4. ew' \in [Node -> Work]
        BY <1>0, <3>0, <3>3 DEF HandleVars, Work, TypeOK
      <4> QED
        BY <1>0, <3>0, <3>3, <4>3, <4>4 DEF HandleVars, TypeOK
    <3>4. CASE HandleHangup(n)
      <4>1. ew' \in [Node -> Work]
        BY <1>0, <3>0, <3>4 DEF HandleHangup, Work, TypeOK
      <4> QED
        BY <1>0, <3>0, <3>1, <3>4, <4>1 DEF HandleHangup, TypeOK
    <3>5. ew[n] = Resting
      BY <2>1 DEF Idle
    <3> QED
      BY <1>4, <3>2, <3>3, <3>4, <3>5 DEF Worker, FinishTransfer, FinishRelease, Resting
  <2>2. CASE FinishTransfer(n) \/ FinishRelease(n)
    <3>1. ew' \in [Node -> Work]
      BY <1>0, <2>2 DEF FinishTransfer, FinishRelease, Work, TypeOK
    <3> QED
      BY <1>0, <2>2, <3>1 DEF FinishTransfer, FinishRelease, TypeOK
  <2> QED
    BY <1>4, <2>1, <2>2 DEF Worker, HandleCreate, HandleVars, HandleHangup
<1>5. CASE RedisDown \/ RedisBack
  <2>1. faults' \in 0..MaxFaults
    BY <1>0, <1>5, AdmissionTypes DEF RedisDown, RedisBack, Fault, TypeOK
  <2>2. redisUp' \in BOOLEAN
    BY <1>5 DEF RedisDown, RedisBack
  <2> QED
    BY <1>0, <1>5, <2>1, <2>2 DEF RedisDown, RedisBack, TypeOK
<1>6. ASSUME NEW u \in Uuid, LeaseEnds(u) PROVE TypeOK'
  BY <1>0, <1>6, AdmissionTypes DEF LeaseEnds, Fault, TypeOK
<1>7. ASSUME NEW n \in Node, FsCrash(n) \/ Restart(n) PROVE TypeOK'
  <2>1. faults' \in 0..MaxFaults
    BY <1>0, <1>7, AdmissionTypes DEF FsCrash, Restart, Fault, TypeOK
  <2>2. chan' \in [Uuid -> ChanState]
    BY <1>0, <1>7 DEF FsCrash, Restart, TypeOK, ChanState, Refused
  <2>3. /\ evq' = evq \/ evq' = [evq EXCEPT ![n] = <<>>]
        /\ ew' = ew \/ ew' = [ew EXCEPT ![n] = Resting]
        /\ dp' = dp \/ dp' = [dp EXCEPT ![n] = NoCall]
        /\ known' \subseteq known
    BY <1>7 DEF FsCrash, Restart
  <2>4. evq' \in [Node -> Seq(Event)]
    <3>1. evq \in [Node -> Seq(Event)] /\ <<>> \in Seq(Event)
      BY <1>0 DEF TypeOK
    <3>2. CASE evq' = [evq EXCEPT ![n] = <<>>]
      BY <3>1, <3>2
    <3> QED
      BY <2>3, <3>1, <3>2
  <2>5. ew' \in [Node -> Work]
    BY <1>0, <2>3 DEF TypeOK, Work
  <2>6. dp' \in [Node -> Attempt \cup {NoCall}]
    BY <1>0, <2>3 DEF TypeOK
  <2> QED
    <3>1. UNCHANGED <<legs, told, redisUp>>
      BY <1>7 DEF FsCrash, Restart
    <3> QED
      BY <1>0, <2>1, <2>2, <2>3, <2>4, <2>5, <2>6, <3>1 DEF TypeOK
<1> QED
  BY <1>1, <1>2, <1>3, <1>4, <1>5, <1>6, <1>7 DEF Next, Step

\* A call the dialplan has answered for stays so: a channel never waits again,
\* and a handler only takes up a call that waits.
LEMMA AnsweredStays ==
    ASSUME IInv, [Next]_vars, NEW v \in Uuid, Answered(v)
    PROVE  Answered(v)'
<1> USE DEF store, fs
<1>0. TypeOK /\ HandlerInv
  BY DEF IInv, ControlInv
<1>1. /\ chan[v] \notin {"new", "wait"}
      /\ \A m \in Node : dp[m] # NoCall => dp[m].u # v
      /\ chan \in [Uuid -> ChanState] /\ dp \in [Node -> Attempt \cup {NoCall}]
  BY <1>0 DEF Answered, TypeOK
<1>2. ASSUME chan' = chan \/ chan'[v] = chan[v], dp' = dp PROVE Answered(v)'
  BY <1>1, <1>2 DEF Answered
<1>3. CASE UNCHANGED vars
  BY <1>2, <1>3 DEF vars
<1>4. ASSUME NEW u \in Uuid, Channel(u) PROVE Answered(v)'
  <2>1. dp' = dp
    BY <1>4 DEF Channel, NewCall, ReportLeg, Failover, HangUp
  <2>2. chan'[v] \notin {"new", "wait"}
    BY <1>1, <1>4 DEF Channel, NewCall, ReportLeg, Failover, HangUp
  <2> QED
    BY <1>1, <2>1, <2>2 DEF Answered
<1>5. ASSUME NEW n \in Node, Dialplan(n) PROVE Answered(v)'
  <2>1. ASSUME NEW u \in Uuid, NEW state, Respond(u, state) PROVE chan'[v] = chan[v]
    BY <1>1, <2>1 DEF Respond
  <2>2. ASSUME NEW u \in Uuid, AnswerWithoutSlot(n, u) PROVE Answered(v)'
    BY <1>2, <2>1, <2>2 DEF AnswerWithoutSlot
  <2>3. ASSUME NEW u \in Uuid, Screen(n, u) PROVE Answered(v)'
    <3>1. chan'[v] = chan[v]
      BY <2>1, <2>3 DEF Screen
    <3>2. u # v
      BY <1>1, <2>3 DEF Screen
    <3>3. dp' = dp \/ \E todo \in Candidates : StartReserving(n, u, todo)
      BY <2>3 DEF Screen
    <3>4. \A m \in Node : dp'[m] = dp[m] \/ dp'[m].u = u
      BY <1>1, <3>3 DEF StartReserving
    <3> QED
      BY <1>1, <3>1, <3>2, <3>4 DEF Answered
  <2>4. CASE Reserve(n) \/ ReserveUnanswered(n)
    <3>1. dp[n] # NoCall /\ dp[n].u \in Uuid
      BY <1>1, <2>4, Tokens DEF Reserve, ReserveUnanswered
    <3>2. \A m \in Node : dp'[m] = dp[m] \/ dp'[m] = NoCall \/ dp'[m].u = dp[n].u
      <4>1. \/ dp' = [dp EXCEPT ![n] = NoCall]
            \/ \E t1, t2 : dp' = [dp EXCEPT ![n] = [u |-> dp[n].u, skipped |-> t1, todo |-> t2]]
        BY <2>4 DEF Reserve, ReserveUnanswered, Route, TryNext, Refuse
      <4> QED
        BY <1>1, <4>1
    <3>3. \/ chan' = chan
          \/ \E state \in ChanState : Respond(dp[n].u, state)
      BY <2>4 DEF Reserve, ReserveUnanswered, Route, TryNext, Refuse, ChanState, Refused, InCall
    <3>4. chan'[v] = chan[v]
      BY <2>1, <3>1, <3>3
    <3> QED
      BY <1>1, <3>1, <3>2, <3>4 DEF Answered
  <2> QED
    BY <1>5, <2>2, <2>3, <2>4 DEF Dialplan
<1>6. ASSUME NEW n \in Node, Worker(n) PROVE Answered(v)'
  BY <1>2, <1>6
     DEF Worker, HandleCreate, HandleVars, HandleHangup, FinishTransfer, FinishRelease
<1>7. ASSUME NEW u \in Uuid, LeaseEnds(u) \/ RedisDown \/ RedisBack PROVE Answered(v)'
  BY <1>2, <1>7 DEF LeaseEnds, RedisDown, RedisBack
<1>8. ASSUME NEW n \in Node, FsCrash(n) \/ Restart(n) PROVE Answered(v)'
  <2>1. chan'[v] \notin {"new", "wait"}
    BY <1>1, <1>8 DEF FsCrash, Restart
  <2>2. \A m \in Node : dp'[m] = dp[m] \/ dp'[m] = NoCall
    BY <1>1, <1>8 DEF FsCrash, Restart
  <2> QED
    BY <1>1, <2>1, <2>2 DEF Answered
<1> QED
  BY <1>3, <1>4, <1>5, <1>6, <1>7, <1>8 DEF Next, Step

\* A routed call has a leg to be on.
LEMMA LegsStep ==
    ASSUME IInv, TypeOK', [Next]_vars
    PROVE  LegsInv'
<1> USE DEF store, fs
<1>0. TypeOK /\ LegsInv /\ HandlerInv
  BY DEF IInv, ControlInv
<1>1. SUFFICES ASSUME NEW v \in Uuid, chan'[v] = "routed" PROVE legs'[v] # <<>>
  BY DEF LegsInv
<1>2. chan \in [Uuid -> ChanState] /\ legs \in [Uuid -> Seq(Gw)]
  BY <1>0 DEF TypeOK
<1>3. ASSUME chan'[v] = chan[v], legs'[v] = legs[v] PROVE legs'[v] # <<>>
  BY <1>0, <1>1, <1>3 DEF LegsInv
<1>4. CASE UNCHANGED vars
  BY <1>3, <1>4 DEF vars
<1>5. ASSUME NEW u \in Uuid, Channel(u) PROVE legs'[v] # <<>>
  <2>1. CASE Failover(u) /\ u = v
    <3>1. legs'[v] = Tail(legs[v]) /\ Len(legs[v]) > 1 /\ legs[v] \in Seq(Gw)
      BY <1>2, <2>1 DEF Failover
    <3> QED
      BY <3>1, LegLists
  <2>2. CASE ~(Failover(u) /\ u = v)
    <3>1. legs'[v] = legs[v]
      BY <1>2, <1>5, <2>2 DEF Channel, NewCall, ReportLeg, Failover, HangUp
    <3>2. \/ chan' = chan
          \/ chan' = [chan EXCEPT ![u] = "wait"]
          \/ chan' = [chan EXCEPT ![u] = "gone"]
      BY <1>5 DEF Channel, NewCall, ReportLeg, Failover, HangUp
    <3>3. chan'[v] = chan[v]
      BY <1>1, <1>2, <3>2
    <3> QED
      BY <1>3, <3>1, <3>3
  <2> QED
    BY <2>1, <2>2
<1>6. ASSUME NEW n \in Node, Dialplan(n) PROVE legs'[v] # <<>>
  <2>1. ASSUME NEW u \in Uuid, NEW state, state # "routed", Respond(u, state)
        PROVE  chan'[v] = chan[v]
    BY <1>1, <1>2, <2>1 DEF Respond
  <2>2. ASSUME NEW u \in Uuid, AnswerWithoutSlot(n, u) PROVE legs'[v] # <<>>
    BY <1>3, <2>1, <2>2 DEF AnswerWithoutSlot
  <2>3. ASSUME NEW u \in Uuid, Screen(n, u) PROVE legs'[v] # <<>>
    <3>1. Precheck(u) # "routed"
      BY DEF Precheck
    <3> QED
      BY <1>3, <2>1, <2>3, <3>1 DEF Screen
  <2>4. CASE Reserve(n) \/ ReserveUnanswered(n)
    <3>1. /\ dp[n].u \in Uuid /\ dp[n].skipped \in Seq(Gw)
          /\ dp[n].todo \in Seq(Gw) /\ dp[n].todo # <<>>
      BY <1>0, <2>4, Tokens DEF Reserve, ReserveUnanswered, TypeOK, HandlerInv
    <3>2. CASE Route(n)
      <4> DEFINE s == <<Head(dp[n].todo)>> \o dp[n].skipped \o Tail(dp[n].todo)
      <4>2. s # <<>>
        BY <3>1, LegLists
      <4> HIDE DEF s
      <4>3. legs' = [legs EXCEPT ![dp[n].u] = s] /\ Respond(dp[n].u, "routed")
        BY <3>2 DEF Route, s
      <4>4. CASE v = dp[n].u
        BY <1>2, <4>2, <4>3, <4>4
      <4>5. CASE v # dp[n].u
        BY <1>2, <1>3, <4>3, <4>5 DEF Respond
      <4> QED
        BY <4>4, <4>5
    <3>3. CASE UNCHANGED legs /\ (chan' = chan \/ \E state \in Refused : Respond(dp[n].u, state))
      <4>1. "routed" \notin Refused
        BY DEF Refused
      <4> QED
        BY <1>3, <2>1, <3>1, <3>3, <4>1
    <3> QED
      BY <2>4, <3>2, <3>3 DEF Reserve, ReserveUnanswered, TryNext, Refuse, Refused
  <2> QED
    BY <1>6, <2>2, <2>3, <2>4 DEF Dialplan
<1>7. ASSUME NEW n \in Node, Worker(n) PROVE legs'[v] # <<>>
  BY <1>3, <1>7
     DEF Worker, HandleCreate, HandleVars, HandleHangup, FinishTransfer, FinishRelease
<1>8. ASSUME NEW u \in Uuid, LeaseEnds(u) \/ RedisDown \/ RedisBack PROVE legs'[v] # <<>>
  BY <1>3, <1>8 DEF LeaseEnds, RedisDown, RedisBack
<1>9. ASSUME NEW n \in Node, FsCrash(n) \/ Restart(n) PROVE legs'[v] # <<>>
  BY <1>1, <1>2, <1>3, <1>9 DEF FsCrash, Restart
<1> QED
  BY <1>4, <1>5, <1>6, <1>7, <1>8, <1>9 DEF Next, Step

\* A handler goes on with the call it took up, which waits or is gone.
LEMMA HandlerStep ==
    ASSUME IInv, TypeOK', [Next]_vars
    PROVE  HandlerInv'
<1> USE DEF store, fs
<1>0. TypeOK /\ HandlerInv
  BY DEF IInv, ControlInv
<1>1. chan \in [Uuid -> ChanState] /\ dp \in [Node -> Attempt \cup {NoCall}]
  BY <1>0 DEF TypeOK
<1>2. SUFFICES ASSUME NEW m \in Node, dp'[m] # NoCall
               PROVE  /\ Home[dp'[m].u] = m
                      /\ chan'[dp'[m].u] \in {"wait", "gone"}
                      /\ dp'[m].todo # <<>>
  BY DEF HandlerInv
<1> DEFINE Goal == /\ Home[dp'[m].u] = m
                   /\ chan'[dp'[m].u] \in {"wait", "gone"}
                   /\ dp'[m].todo # <<>>
<1>3. ASSUME dp'[m] = dp[m],
             chan'[dp[m].u] = chan[dp[m].u] \/ chan'[dp[m].u] = "gone"
      PROVE  Goal
  BY <1>0, <1>2, <1>3 DEF HandlerInv
<1>4. CASE UNCHANGED vars
  BY <1>3, <1>4 DEF vars
<1>5. ASSUME NEW u \in Uuid, Channel(u) PROVE Goal
  <2>1. dp'[m] = dp[m] /\ dp[m] # NoCall
    BY <1>2, <1>5 DEF Channel, NewCall, ReportLeg, Failover, HangUp
  <2>2. dp[m].u \in Uuid /\ chan[dp[m].u] \in {"wait", "gone"}
    BY <1>0, <1>1, <2>1, Tokens DEF HandlerInv
  <2>3. \/ chan' = chan
        \/ chan[u] = "new" /\ chan' = [chan EXCEPT ![u] = "wait"]
        \/ chan' = [chan EXCEPT ![u] = "gone"]
    BY <1>5 DEF Channel, NewCall, ReportLeg, Failover, HangUp
  <2>4. chan'[dp[m].u] = chan[dp[m].u] \/ chan'[dp[m].u] = "gone"
    BY <1>1, <2>2, <2>3
  <2> QED
    BY <1>3, <2>1, <2>4
<1>6. ASSUME NEW n \in Node, Dialplan(n) PROVE Goal
  <2>1. ASSUME NEW u \in Uuid, NEW state, Respond(u, state), Home[u] = n,
               dp'[m] = dp[m], m # n
        PROVE  Goal
    <3>1. dp[m].u \in Uuid /\ Home[dp[m].u] = m
      BY <1>0, <1>1, <1>2, <2>1, Tokens DEF HandlerInv
    <3>2. chan'[dp[m].u] = chan[dp[m].u]
      BY <1>1, <2>1, <3>1 DEF Respond
    <3> QED
      BY <1>3, <2>1, <3>2
  <2>2. ASSUME NEW u \in Uuid, AnswerWithoutSlot(n, u) PROVE Goal
    <3>1. Home[u] = n /\ dp' = dp /\ dp[n] = NoCall /\ \E state : Respond(u, state)
      BY <2>2 DEF AnswerWithoutSlot
    <3> QED
      BY <1>2, <2>1, <3>1
  <2>3. ASSUME NEW u \in Uuid, Screen(n, u) PROVE Goal
    <3>1. Home[u] = n /\ dp[n] = NoCall /\ chan[u] = "wait"
      BY <2>3 DEF Screen
    <3>2. CASE dp' = dp /\ \E state : Respond(u, state)
      BY <1>2, <2>1, <3>1, <3>2
    <3>3. CASE chan' = chan /\ \E todo \in Candidates : StartReserving(n, u, todo)
      <4>1. CASE m = n
        <5>1. PICK todo \in Candidates : dp'[m] = [u |-> u, skipped |-> <<>>, todo |-> todo]
          BY <1>1, <3>3, <4>1 DEF StartReserving
        <5> QED
          BY <3>1, <3>3, <4>1, <5>1, CandidatesType
      <4>2. CASE m # n
        <5>1. dp'[m] = dp[m]
          BY <1>1, <3>3, <4>2 DEF StartReserving
        <5> QED
          BY <1>3, <3>3, <5>1
      <4> QED
        BY <4>1, <4>2
    <3> QED
      BY <2>3, <3>2, <3>3 DEF Screen
  <2>4. CASE Reserve(n) \/ ReserveUnanswered(n)
    <3>1. /\ dp[n] # NoCall /\ dp[n].u \in Uuid /\ Home[dp[n].u] = n
          /\ chan[dp[n].u] \in {"wait", "gone"} /\ dp[n].todo \in Seq(Gw)
      BY <1>0, <1>1, <2>4, Tokens DEF Reserve, ReserveUnanswered, HandlerInv
    <3>2. CASE dp' = [dp EXCEPT ![n] = NoCall] /\ \E state : Respond(dp[n].u, state)
      <4>1. m # n /\ dp'[m] = dp[m]
        BY <1>1, <1>2, <3>2
      <4> QED
        BY <2>1, <3>1, <3>2, <4>1
    <3>3. CASE /\ Len(dp[n].todo) > 1 /\ chan' = chan
               /\ \E s : dp' = [dp EXCEPT ![n] = [u |-> dp[n].u, skipped |-> s,
                                                 todo |-> Tail(dp[n].todo)]]
      <4>1. CASE m = n
        <5>1. dp'[m].u = dp[n].u /\ dp'[m].todo = Tail(dp[n].todo)
          BY <1>1, <3>3, <4>1
        <5> QED
          BY <3>1, <3>3, <4>1, <5>1, LegLists
      <4>2. CASE m # n
        BY <1>1, <1>3, <3>3, <4>2
      <4> QED
        BY <4>1, <4>2
    <3> QED
      BY <2>4, <3>2, <3>3 DEF Reserve, ReserveUnanswered, Route, TryNext, Refuse
  <2> QED
    BY <1>6, <2>2, <2>3, <2>4 DEF Dialplan
<1>7. ASSUME NEW n \in Node, Worker(n) PROVE Goal
  BY <1>3, <1>7
     DEF Worker, HandleCreate, HandleVars, HandleHangup, FinishTransfer, FinishRelease
<1>8. CASE (\E u \in Uuid : LeaseEnds(u)) \/ RedisDown \/ RedisBack
  BY <1>3, <1>8 DEF LeaseEnds, RedisDown, RedisBack
<1>9. ASSUME NEW n \in Node, FsCrash(n) PROVE Goal
  <2>1. dp' = dp /\ dp[m] # NoCall
    BY <1>2, <1>9 DEF FsCrash
  <2>2. dp[m].u \in Uuid
    BY <1>1, <2>1, Tokens
  <2>3. chan'[dp[m].u] = chan[dp[m].u] \/ chan'[dp[m].u] = "gone"
    BY <1>9, <2>2 DEF FsCrash
  <2> QED
    BY <1>3, <2>1, <2>3
<1>10. ASSUME NEW n \in Node, Restart(n) PROVE Goal
  <2>1. m # n /\ dp'[m] = dp[m] /\ dp[m] # NoCall
    BY <1>1, <1>2, <1>10 DEF Restart
  <2>2. dp[m].u \in Uuid /\ Home[dp[m].u] = m
    BY <1>0, <1>1, <2>1, Tokens DEF HandlerInv
  <2>3. chan'[dp[m].u] = chan[dp[m].u]
    BY <1>10, <2>1, <2>2 DEF Restart
  <2> QED
    BY <1>3, <2>1, <2>3
<1> QED
  BY <1>4, <1>5, <1>6, <1>7, <1>8, <1>9, <1>10 DEF Next, Step

\* Where the events of a queue come from: they were there before, a hangup of
\* which the variables were taken became a bare one, or FreeSWITCH emitted them.
OldEvent(m, e) == \E j \in 1..Len(evq[m]) : e = evq[m][j]
BareRest(m, e) == \E j \in 1..Len(evq[m]) :
                     e.kind = "bare" /\ evq[m][j].kind = "hangup" /\ e.u = evq[m][j].u
Emitted(m, e)  ==
    /\ Home[e.u] = m
    /\ e.kind # "create" => chan[e.u] \in InCall \cup Refused
    /\ e.kind \in {"hangup", "bare"} => chan'[e.u] = "gone"

LEMMA QueueEffect ==
    ASSUME IInv, TypeOK', [Next]_vars, NEW m \in Node, NEW i \in 1..Len(evq'[m])
    PROVE  /\ evq'[m][i].u \in Uuid
           /\ OldEvent(m, evq'[m][i]) \/ BareRest(m, evq'[m][i]) \/ Emitted(m, evq'[m][i])
<1> USE DEF store, fs
<1> DEFINE x == evq'[m][i]
           Goal == OldEvent(m, x) \/ BareRest(m, x) \/ Emitted(m, x)
<1>0. TypeOK
  BY DEF IInv
<1>1. evq \in [Node -> Seq(Event)] /\ evq' \in [Node -> Seq(Event)]
  BY <1>0 DEF TypeOK
<1>2. x \in Event /\ x.u \in Uuid
  <2>1. evq'[m] \in Seq(Event)
    BY <1>1
  <2>2. x \in Event
    BY <2>1
  <2> QED
    BY <2>2 DEF Event
<1>3. ASSUME NEW j \in 1..Len(evq[m]), x = evq[m][j] PROVE Goal
  BY <1>3 DEF OldEvent
<1> SUFFICES Goal
  BY <1>2
<1> HIDE DEF Goal
<1>4. CASE evq' = evq
  BY <1>3, <1>4
<1>5. ASSUME NEW u \in Uuid, Channel(u) PROVE Goal
  <2>1. ASSUME NEW e \in Event, Emit(e), e.u = u,
               e.kind # "create" => chan[u] \in InCall \cup Refused,
               e.kind \in {"hangup", "bare"} => chan'[u] = "gone"
        PROVE  Goal
    <3>1. \/ i \in 1..Len(evq[m]) /\ x = evq[m][i]
          \/ m = Home[u] /\ x = e
      BY <1>0, <2>1, EmitEffect
    <3>2. CASE m = Home[u] /\ x = e
      BY <2>1, <3>2 DEF Emitted, Goal
    <3> QED
      BY <1>3, <3>1, <3>2
  <2>2. CASE NewCall(u)
    <3>1. [kind |-> "create", u |-> u, g |-> NoGw] \in Event
      BY DEF Event
    <3> QED
      BY <2>1, <2>2, <3>1 DEF NewCall
  <2>3. CASE ReportLeg(u)
    <3>1. Head(legs[u]) \in Gw
      BY <2>3 DEF ReportLeg, TypeOK, IInv, ControlInv, LegsInv
    <3>2. [kind |-> "vars", u |-> u, g |-> Head(legs[u])] \in Event
      BY <3>1 DEF Event
    <3> QED
      BY <2>1, <2>3, <3>2 DEF ReportLeg, InCall
  <2>4. CASE Failover(u)
    BY <1>4, <2>4 DEF Failover
  <2>5. CASE HangUp(u)
    <3>1. chan[u] = "routed" => Head(legs[u]) \in Gw
      BY DEF TypeOK, IInv, ControlInv, LegsInv
    <3>2. \E e \in Event : e.u = u /\ Emit(e)
      BY <2>5, <3>1 DEF HangUp, Event
    <3>3. chan[u] \in InCall \cup Refused /\ chan'[u] = "gone"
      BY <1>0, <2>5 DEF HangUp, TypeOK
    <3> QED
      BY <2>1, <3>2, <3>3
  <2> QED
    BY <1>5, <2>2, <2>3, <2>4, <2>5 DEF Channel
<1>6. ASSUME NEW n \in Node, Dialplan(n) PROVE Goal
  BY <1>4, <1>6 DEF Dialplan, AnswerWithoutSlot, Screen, Reserve, ReserveUnanswered
<1>7. ASSUME NEW n \in Node, Worker(n) PROVE Goal
  <2>1. CASE evq[n] # <<>> /\ Dequeue(n)
    <3>1. CASE m = n
      <4>1. evq'[m] = Tail(evq[m])
        BY <1>1, <2>1, <3>1 DEF Dequeue
      <4>2. i + 1 \in 1..Len(evq[m]) /\ x = evq[m][i + 1]
        BY <1>1, <2>1, <3>1, <4>1, HeadEvent
      <4> QED
        BY <1>3, <4>2
    <3>2. CASE m # n
      <4>1. evq'[m] = evq[m]
        BY <1>1, <2>1, <3>2 DEF Dequeue
      <4> QED
        BY <1>3, <4>1
    <3> QED
      BY <3>1, <3>2
  <2>2. CASE HandleVars(n) /\ Head(evq[n]).kind # "vars"
    <3> DEFINE b == [kind |-> "bare", u |-> Head(evq[n]).u, g |-> NoGw]
    <3>0. /\ evq[n] \in Seq(Event) /\ evq[n] # <<>> /\ Head(evq[n]) = evq[n][1]
          /\ 1 \in 1..Len(evq[n]) /\ evq[n][1].u \in Uuid
      BY <1>1, <2>2, HeadEvent DEF HandleVars, Idle
    <3>1. b \in Event /\ evq[n][1].kind = "hangup"
      BY <2>2, <3>0 DEF Event, HandleVars
    <3>2. evq' = [evq EXCEPT ![n][1] = b]
      BY <2>2 DEF HandleVars
    <3>3. CASE m = n
      <4>1. evq'[m] = [evq[m] EXCEPT ![1] = b]
        BY <1>1, <3>2, <3>3
      <4>2. i \in 1..Len(evq[m]) /\ x = IF i = 1 THEN b ELSE evq[m][i]
        BY <3>0, <3>1, <3>3, <4>1, ReplaceHead
      <4>3. CASE i # 1
        BY <1>3, <4>2, <4>3
      <4>4. CASE i = 1
        <5>1. x.kind = "bare" /\ x.u = evq[n][1].u
          BY <3>0, <4>2, <4>4
        <5> QED
          BY <3>0, <3>1, <3>3, <5>1 DEF BareRest, Goal
      <4> QED
        BY <4>3, <4>4
    <3>4. CASE m # n
      <4>1. evq'[m] = evq[m]
        BY <1>1, <3>2, <3>4
      <4> QED
        BY <1>3, <4>1
    <3> QED
      BY <3>3, <3>4
  <2>3. CASE FinishTransfer(n) \/ FinishRelease(n)
    BY <1>4, <2>3 DEF FinishTransfer, FinishRelease
  <2> QED
    BY <1>7, <2>1, <2>2, <2>3 DEF Worker, HandleCreate, HandleVars, HandleHangup, Idle
<1>8. CASE (\E u \in Uuid : LeaseEnds(u)) \/ RedisDown \/ RedisBack \/ UNCHANGED vars
  BY <1>4, <1>8 DEF LeaseEnds, RedisDown, RedisBack, vars
<1>9. ASSUME NEW n \in Node, FsCrash(n) PROVE Goal
  BY <1>4, <1>9 DEF FsCrash
<1>10. ASSUME NEW n \in Node, Restart(n) PROVE Goal
  <2>1. evq'[m] = IF m = n THEN <<>> ELSE evq[m]
    BY <1>1, <1>10 DEF Restart
  <2>2. m # n
    <3>1. Len(<<>>) = 0
      OBVIOUS
    <3> QED
      BY <2>1, <3>1
  <2> QED
    BY <1>3, <2>1, <2>2
<1> QED
  BY <1>5, <1>6, <1>7, <1>8, <1>9, <1>10 DEF Next, Step

\* A queue only gains events of its node, late ones of answered calls.
LEMMA QueueStep ==
    ASSUME IInv, TypeOK', [Next]_vars
    PROVE  QueueInv'
<1>0. HandlerInv /\ QueueInv
  BY DEF IInv, ControlInv
<1>1. ASSUME NEW m \in Node, NEW i \in 1..Len(evq'[m]), NEW v \in Uuid, v = evq'[m][i].u
      PROVE  Home[v] = m /\ (evq'[m][i].kind # "create" => Answered(v)')
  <2>1. OldEvent(m, evq'[m][i]) \/ BareRest(m, evq'[m][i]) \/ Emitted(m, evq'[m][i])
    BY QueueEffect
  <2>2. CASE OldEvent(m, evq'[m][i]) \/ BareRest(m, evq'[m][i])
    <3>1. Home[v] = m /\ (evq'[m][i].kind # "create" => Answered(v))
      BY <1>0, <1>1, <2>2 DEF QueueInv, OldEvent, BareRest
    <3> QED
      BY <3>1, AnsweredStays
  <2>3. CASE Emitted(m, evq'[m][i])
    <3>1. Home[v] = m
      BY <1>1, <2>3 DEF Emitted
    <3>2. ASSUME evq'[m][i].kind # "create" PROVE Answered(v)
      <4>1. chan[v] \notin {"new", "wait", "gone"}
        BY <1>1, <2>3, <3>2 DEF Emitted, InCall, Refused
      <4>2. \A n \in Node : dp[n] # NoCall => chan[dp[n].u] \in {"wait", "gone"}
        BY <1>0 DEF HandlerInv
      <4> QED
        BY <4>1, <4>2 DEF Answered
    <3> QED
      BY <3>1, <3>2, AnsweredStays
  <2> QED
    BY <2>1, <2>2, <2>3
<1>2. \A m \in Node : \A i \in 1..Len(evq'[m]) : evq'[m][i].u \in Uuid
  BY QueueEffect
<1> QED
  BY <1>1, <1>2 DEF QueueInv, Answered

\* Between a worker's GET and its EVAL the credential stays or expires.
LEMMA WorkerStep ==
    ASSUME IInv, TypeOK', [Next]_vars
    PROVE  WorkerInv'
<1> USE DEF store, fs
<1>0. TypeOK /\ HandlerInv /\ QueueInv /\ WorkerInv
  BY DEF IInv, ControlInv
<1>1. /\ resv \in [Uuid -> Credential] /\ ew \in [Node -> Work]
      /\ dp \in [Node -> Attempt \cup {NoCall}] /\ evq \in [Node -> Seq(Event)]
      /\ ew' \in [Node -> Work]
  BY <1>0 DEF TypeOK, StoreTypeOK
<1>2. SUFFICES ASSUME NEW m \in Node, ew'[m] # Resting, NEW v \in Uuid, v = ew'[m].u
               PROVE  Home[v] = m /\ Answered(v)' /\ resv'[v] \in {Absent, ew'[m].p}
  <2>1. \A n \in Node : ew'[n] # Resting => ew'[n].u \in Uuid
    BY <1>1, Tokens
  <2> QED
    BY <2>1 DEF WorkerInv, Answered
<1> DEFINE Goal == Home[v] = m /\ Answered(v)' /\ resv'[v] \in {Absent, ew'[m].p}
\* The worker goes on with what it was doing.
<1>3. ASSUME ew'[m] = ew[m], resv'[v] \in {resv[v], Absent} PROVE Goal
  <2>1. Home[v] = m /\ Answered(v) /\ resv[v] \in {Absent, ew[m].p}
    BY <1>0, <1>2, <1>3 DEF WorkerInv
  <2> QED
    BY <1>3, <2>1, AnsweredStays
\* A script ran for a call of which no worker is in the middle.
<1>4. ASSUME NEW u \in Uuid, u # v,
             \/ UNCHANGED <<cnt, resv>>
             \/ \E c : resv' = [resv EXCEPT ![u] = c]
      PROVE  resv'[v] = resv[v]
  BY <1>1, <1>4
<1>5. CASE UNCHANGED vars
  BY <1>3, <1>5 DEF vars
<1>6. ASSUME NEW u \in Uuid, Channel(u) PROVE Goal
  BY <1>3, <1>6 DEF Channel, NewCall, ReportLeg, Failover, HangUp
<1>7. ASSUME NEW n \in Node, Dialplan(n) PROVE Goal
  <2>1. ew' = ew
    BY <1>7 DEF Dialplan, AnswerWithoutSlot, Screen, Reserve, ReserveUnanswered
  <2>2. CASE Reserve(n) \/ ReserveUnanswered(n)
    <3>1. dp[n] # NoCall
      BY <2>2 DEF Reserve, ReserveUnanswered
    <3>2. dp[n].u \in Uuid /\ dp[n].u # v
      BY <1>0, <1>1, <1>2, <2>1, <3>1, Tokens DEF WorkerInv, Answered
    <3>3. \/ UNCHANGED <<cnt, resv>>
          \/ \E c : resv' = [resv EXCEPT ![dp[n].u] = c]
      BY <2>2 DEF Reserve, ReserveUnanswered, ReserveEval
    <3> QED
      BY <1>3, <1>4, <2>1, <3>2, <3>3
  <2>3. CASE \E u \in Uuid : AnswerWithoutSlot(n, u) \/ Screen(n, u)
    BY <1>3, <2>1, <2>3 DEF AnswerWithoutSlot, Screen
  <2> QED
    BY <1>7, <2>2, <2>3 DEF Dialplan
<1>8. ASSUME NEW n \in Node, Worker(n), m # n PROVE Goal
  <2>1. ew'[m] = ew[m]
    BY <1>1, <1>8
       DEF Worker, HandleCreate, HandleVars, HandleHangup, FinishTransfer, FinishRelease
  <2>2. Home[v] = m
    BY <1>0, <1>2, <2>1 DEF WorkerInv
  <2>3. CASE HandleCreate(n)
    <3>1. Head(evq[n]).u \in Uuid /\ Home[Head(evq[n]).u] = n
      <4>1. evq[n] \in Seq(Event) /\ evq[n] # <<>>
        BY <1>1, <2>3 DEF HandleCreate, Idle
      <4> QED
        BY <1>0, <4>1, HeadEvent DEF QueueInv
    <3>2. \/ UNCHANGED <<cnt, resv>>
          \/ \E c : resv' = [resv EXCEPT ![Head(evq[n]).u] = c]
      BY <2>3 DEF HandleCreate, EnsureEval
    <3> QED
      BY <1>3, <1>4, <1>8, <2>1, <2>2, <3>1, <3>2
  <2>4. CASE HandleVars(n) \/ HandleHangup(n)
    BY <1>3, <2>1, <2>4 DEF HandleVars, HandleHangup
  <2>5. CASE FinishTransfer(n) \/ FinishRelease(n)
    <3>1. ew[n] # Resting
      BY <2>5 DEF FinishTransfer, FinishRelease, Resting
    <3>2. ew[n].u \in Uuid /\ Home[ew[n].u] = n
      BY <1>0, <1>1, <3>1, Tokens DEF WorkerInv
    <3>3. \/ UNCHANGED <<cnt, resv>>
          \/ \E c : resv' = [resv EXCEPT ![ew[n].u] = c]
      BY <2>5 DEF FinishTransfer, FinishRelease, TransferEval, ReleaseEval
    <3> QED
      BY <1>3, <1>4, <1>8, <2>1, <2>2, <3>2, <3>3
  <2> QED
    BY <1>8, <2>3, <2>4, <2>5 DEF Worker
\* The worker itself: after a GET, else it rests.
<1>9. ASSUME NEW n \in Node, Worker(n), m = n PROVE Goal
  <2>1. CASE HandleVars(n) \/ HandleHangup(n)
    <3> DEFINE e == Head(evq[n])
    <3>1. evq[n] \in Seq(Event) /\ evq[n] # <<>> /\ ew[n] = Resting
      BY <1>1, <2>1 DEF HandleVars, HandleHangup, Idle
    <3>2. e.u \in Uuid /\ e = evq[n][1] /\ 1 \in 1..Len(evq[n])
      BY <3>1, HeadEvent
    <3>3. e.kind # "create"
      BY <2>1 DEF HandleVars, HandleHangup
    <3>4. Home[e.u] = n /\ Answered(e.u)
      BY <1>0, <3>2, <3>3 DEF QueueInv
    <3>5. resv' = resv
      BY <2>1 DEF HandleVars, HandleHangup
    <3>6. \/ ew' = ew
          \/ ew' = [ew EXCEPT ![n] = [op |-> "transfer", u |-> e.u, p |-> resv[e.u], g |-> e.g]]
          \/ ew' = [ew EXCEPT ![n] = [op |-> "release", u |-> e.u, p |-> resv[e.u]]]
      BY <2>1 DEF HandleVars, HandleHangup
    <3>7. v = e.u /\ ew'[m].p = resv[e.u]
      BY <1>1, <1>2, <1>9, <3>1, <3>6
    <3> HIDE DEF e
    <3> QED
      BY <1>9, <3>4, <3>5, <3>7, AnsweredStays
  <2>2. CASE HandleCreate(n) \/ FinishTransfer(n) \/ FinishRelease(n)
    <3>1. ew'[m] = Resting
      BY <1>1, <1>9, <2>2 DEF HandleCreate, Idle, FinishTransfer, FinishRelease
    <3> QED
      BY <1>2, <3>1
  <2> QED
    BY <1>9, <2>1, <2>2 DEF Worker
<1>10. ASSUME NEW u \in Uuid, LeaseEnds(u) PROVE Goal
  BY <1>1, <1>3, <1>10 DEF LeaseEnds, LeaseExpires
<1>11. CASE RedisDown \/ RedisBack \/ \E n \in Node : FsCrash(n)
  BY <1>3, <1>11 DEF RedisDown, RedisBack, FsCrash
<1>12. ASSUME NEW n \in Node, Restart(n) PROVE Goal
  <2>1. ew'[m] = IF m = n THEN Resting ELSE ew[m]
    BY <1>1, <1>12 DEF Restart
  <2> QED
    BY <1>2, <1>3, <1>12, <2>1 DEF Restart
<1> QED
  BY <1>5, <1>6, <1>7, <1>8, <1>9, <1>10, <1>11, <1>12 DEF Next, Step
-----------------------------------------------------------------------------
(* The invariant. *)

LEMMA InitIInv == ASSUME Init PROVE IInv /\ CountersMatchCredentials
<1>1. TypeOK
  <2>1. StoreTypeOK
    BY DEF Init, StoreInit, StoreTypeOK, Credential
  <2>2. chan \in [Uuid -> ChanState]
    BY DEF Init, ChanState
  <2>3. legs \in [Uuid -> Seq(Gw)]
    <3>1. <<>> \in Seq(Gw)
      OBVIOUS
    <3> QED
      BY <3>1 DEF Init
  <2>4. dp \in [Node -> Attempt \cup {NoCall}]
    BY DEF Init
  <2>5. evq \in [Node -> Seq(Event)]
    <3>1. <<>> \in Seq(Event)
      OBVIOUS
    <3> QED
      BY <3>1 DEF Init
  <2>6. ew \in [Node -> Work]
    BY DEF Init, Work
  <2>7. /\ told \in [Uuid -> BOOLEAN] /\ known \subseteq Uuid
        /\ redisUp \in BOOLEAN
    BY DEF Init
  <2>8. faults \in 0..MaxFaults
    BY AdmissionTypes DEF Init
  <2> QED
    BY <2>1, <2>2, <2>3, <2>4, <2>5, <2>6, <2>7, <2>8 DEF TypeOK
<1>2. LegsInv /\ HandlerInv /\ WorkerInv
  BY DEF Init, LegsInv, HandlerInv, WorkerInv
<1>3. QueueInv
  <2>1. Len(<<>>) = 0
    OBVIOUS
  <2>2. \A n \in Node : 1..Len(evq[n]) = {}
    BY <2>1 DEF Init
  <2> QED
    BY <2>2 DEF QueueInv
<1>4. \A k \in Key : cnt[k] = 0 /\ Cardinality(Holders(resv, k)) = 0
  <2>1. \A k : Holders(resv, k) = {}
    BY ChargesOf DEF Init, StoreInit, Holders
  <2>2. Cardinality({}) = 0
    BY FS_EmptySet
  <2> QED
    BY <2>1, <2>2 DEF Init, StoreInit
<1>5. CountersMatchCredentials /\ CountersCoverCredentials
  BY <1>4 DEF CountersMatchCredentials, CountersCoverCredentials
<1> QED
  BY <1>1, <1>2, <1>3, <1>5 DEF IInv, ControlInv

LEMMA StepIInv == ASSUME IInv, [Next]_vars PROVE IInv'
<1>0. StoreTypeOK
  BY DEF IInv, TypeOK
<1>1. StoreTypeOK' /\ \A k \in Key : Drift(k)' >= Drift(k)
  <2>1. CASE KeepsDrift
    <3>1. \A k \in Key : Drift(k) \in Int
      BY <1>0, HoldersFinite DEF Drift, StoreTypeOK
    <3> QED
      BY <2>1, <3>1 DEF KeepsDrift
  <2>2. ASSUME NEW u \in Uuid, LeaseExpires(u)
        PROVE  StoreTypeOK' /\ \A k \in Key : Drift(k)' >= Drift(k)
    BY <1>0, <2>2, ExpiryRaisesDrift
  <2> QED
    BY <2>1, <2>2, StoreStep
<1>2. TypeOK'
  BY <1>1, TypeStep
<1>3. ControlInv'
  BY <1>2, LegsStep, HandlerStep, QueueStep, WorkerStep DEF ControlInv
<1>4. CountersCoverCredentials'
  <2>1. \A k \in Key : cnt[k] >= Cardinality(Holders(resv, k))
    BY DEF IInv, CountersCoverCredentials
  <2>2. \A k \in Key : cnt[k] \in Nat /\ Cardinality(Holders(resv, k)) \in Nat
    BY <1>0, HoldersFinite DEF StoreTypeOK
  <2>3. \A k \in Key : cnt'[k] \in Nat /\ Cardinality(Holders(resv', k)) \in Nat
    BY <1>1, HoldersFinite DEF StoreTypeOK
  <2>4. \A k \in Key : cnt'[k] - Cardinality(Holders(resv', k))
                         >= cnt[k] - Cardinality(Holders(resv, k))
    BY <1>1 DEF Drift, Holders
  <2>5. \A k \in Key : cnt'[k] >= Cardinality(Holders(resv', k))
    BY <2>1, <2>2, <2>3, <2>4
  <2> QED
    BY <2>5 DEF CountersCoverCredentials, Holders
<1> QED
  BY <1>2, <1>3, <1>4 DEF IInv

LEMMA Invariant == Spec => []IInv
BY InitIInv, StepIInv, PTL DEF Spec
-----------------------------------------------------------------------------
(* The theorems. *)

\* Every reachable state is well typed: in particular a counter never goes
\* below 0 and a queue holds events only.
THEOREM TypeCorrect == Spec => []TypeOK
<1>1. IInv => TypeOK
  BY DEF IInv
<1> QED
  BY <1>1, Invariant, PTL

\* Whatever fails, a counter is never smaller than the number of credentials
\* that charge it, so no gate admits a call on a counter that is too low.
THEOREM CountersCover == Spec => []CountersCoverCredentials
<1>1. IInv => CountersCoverCredentials
  BY DEF IInv
<1> QED
  BY <1>1, Invariant, PTL

\* As long as no lease ends every counter is exact: lost events, outages, lost
\* replies, restarts and crashes leak credentials, never counter values.
THEOREM CountersMatch ==
    ASSUME "expiry" \notin FaultKinds
    PROVE  Spec => []CountersMatchCredentials
<1>1. ASSUME IInv, CountersMatchCredentials, [Next]_vars
      PROVE  CountersMatchCredentials'
  <2>1. StoreTypeOK /\ KeepsDrift
    BY <1>1, StoreStep DEF IInv, TypeOK
  <2>2. \A k \in Key : Drift(k) = 0
    BY <1>1, <2>1, DriftMeaning
  <2>3. \A k \in Key : Drift(k)' = 0
    BY <2>1, <2>2 DEF KeepsDrift
  <2>4. \A k \in Key : cnt'[k] \in Nat /\ Cardinality(Holders(resv', k)) \in Nat
    BY <2>1, HoldersFinite DEF KeepsDrift, StoreTypeOK
  <2>5. \A k \in Key : cnt'[k] - Cardinality(Holders(resv', k)) = 0
    BY <2>3 DEF Drift, Holders
  <2>6. \A k \in Key : cnt'[k] = Cardinality(Holders(resv', k))
    BY <2>4, <2>5
  <2> QED
    BY <2>6 DEF CountersMatchCredentials, Holders
<1> QED
  BY <1>1, InitIInv, Invariant, PTL DEF Spec
-----------------------------------------------------------------------------
(***************************************************************************)
(* What a call is charged, in three parts that build on IInv.              *)
(*                                                                         *)
(* CallAdmission implements SlotLedger, and the limits follow from it: the *)
(* counters cover the credentials, so a gate that lets a call pass on the  *)
(* counters would let it pass on the credentials, whatever fails.  While   *)
(* no lease ends the counters are exact, so neither is a refusal far from  *)
(* the limit.                                                              *)
(*                                                                         *)
(* Under fail-close and as long as no lease ends, a routed call owns a     *)
(* full credential of its access point.  A credential is written by the    *)
(* dialplan while the call waits, moved by events of a call it answered,   *)
(* and released by a hangup, that is when the channel is gone: a hangup    *)
(* in a queue, or a release half done, means just that.                    *)
(*                                                                         *)
(* While nothing fails, the credential follows the leg the call is on.     *)
(***************************************************************************)

\* The instance of the ledger speaks of the same credentials.
LEMMA LedgerNames ==
    /\ Ledger!Absent = Absent /\ Ledger!Ensured = Ensured
    /\ \A g, a : Ledger!Reserved(g, a) = Reserved(g, a) /\ Ledger!Moved(g, a) = Moved(g, a)
    /\ \A r, k : Ledger!Holders(r, k) = Holders(r, k)
    /\ \A S : Ledger!Cardinality(S) = Cardinality(S)
BY DEF Ledger!Cardinality, Cardinality,
       Ledger!Absent, Absent, Ledger!Ensured, Ensured, Ledger!Reserved, Reserved,
       Ledger!Moved, Moved, Ledger!Holders, Holders, Ledger!Charges, Charges

\* A gate that passes on a counter passes on the credentials.
LEMMA GateCovers ==
    ASSUME StoreTypeOK, CountersCoverCredentials, NEW k \in Key, NEW limit \in Nat,
           ~AtLimit(cnt[k], limit)
    PROVE  Ledger!FreeSlot(k, limit)
<1>1. cnt[k] \in Nat /\ Cardinality(Holders(resv, k)) \in Nat
  BY HoldersFinite DEF StoreTypeOK
<1>2. cnt[k] >= Cardinality(Holders(resv, k))
  BY DEF CountersCoverCredentials
<1>3. ~(limit > 0 /\ Cardinality(Holders(resv, k)) >= limit)
  BY <1>1, <1>2 DEF AtLimit
<1> QED
  BY <1>3, LedgerNames DEF Ledger!FreeSlot, Ledger!AtLimit

\* The admission script is a step of the ledger, or changes nothing.
LEMMA ReserveRefines ==
    ASSUME StoreTypeOK, CountersCoverCredentials, NEW u \in Uuid, NEW g \in Gw,
           NEW a \in Ap \cup {NoAp}, ReserveEval(u, g, a)
    PROVE  Ledger!Admit(u, g, a) \/ UNCHANGED resv
<1>1. CASE ~(ReserveVerdict(u, g, a) = "ok" /\ resv[u] \in {Absent, Ensured})
  BY <1>1 DEF ReserveEval
<1>2. CASE ReserveVerdict(u, g, a) = "ok" /\ resv[u] \in {Absent, Ensured}
  <2>0. Absent # Ensured
    BY DEF Absent, Ensured
  <2>1. resv[u] = Absent => ~AtLimit(cnt[Global], GLimit)
    BY <1>2 DEF ReserveVerdict
  <2>2. ~AtLimit(cnt[g], GwLimit[g])
    BY <1>2, <2>0 DEF ReserveVerdict
  <2>3. a \in Ap => ~AtLimit(cnt[a], ApLimit[a])
    BY <1>2, <2>0 DEF ReserveVerdict
  <2>4. Global \in Key /\ g \in Key /\ (a \in Ap => a \in Key)
    BY DEF Key
  <2>5. GLimit \in Nat /\ GwLimit[g] \in Nat /\ (a \in Ap => ApLimit[a] \in Nat)
    BY LimitTypes
  <2>6. /\ resv[u] = Absent => Ledger!FreeSlot(Global, GLimit)
        /\ Ledger!FreeSlot(g, GwLimit[g])
        /\ a \in Ap => Ledger!FreeSlot(a, ApLimit[a])
    BY <2>1, <2>2, <2>3, <2>4, <2>5, GateCovers
  <2>7. resv' = [resv EXCEPT ![u] = Reserved(g, a)]
    BY <1>2 DEF ReserveEval
  <2> QED
    BY <1>2, <2>6, <2>7, LedgerNames DEF Ledger!Admit
<1> QED
  BY <1>1, <1>2

\* Every step of the nodes is a step of the ledger or leaves it alone.
LEMMA LedgerStep ==
    ASSUME IInv, [Next]_vars
    PROVE  [Ledger!LedgerNext]_resv
<1>0. StoreTypeOK /\ CountersCoverCredentials
  BY DEF IInv, TypeOK
<1>1. ASSUME NEW u \in Uuid, LeaseExpires(u) PROVE Ledger!Drop(u)
  BY <1>1, LedgerNames DEF LeaseExpires, Ledger!Drop
<1>2. ASSUME NEW u \in Uuid, EnsureEval(u) PROVE Ledger!Register(u) \/ UNCHANGED resv
  BY <1>2, LedgerNames DEF EnsureEval, Ledger!Register
<1>3. ASSUME NEW u \in Uuid, NEW p, ReleaseEval(u, p) PROVE Ledger!Drop(u) \/ UNCHANGED resv
  BY <1>3, LedgerNames DEF ReleaseEval, Ledger!Drop
<1>4. ASSUME NEW u \in Uuid, NEW p, NEW g \in Gw, resv[u] \in {Absent, p}, TransferEval(u, p, g)
      PROVE  Ledger!Move(u, g) \/ UNCHANGED resv
  BY <1>4, LedgerNames DEF TransferEval, Ledger!Move
<1>5. ASSUME NEW u \in Uuid, ScriptRuns(u) PROVE Ledger!LedgerNext \/ UNCHANGED resv
  BY <1>0, <1>2, <1>3, <1>4, <1>5, ReserveRefines DEF ScriptRuns, Ledger!LedgerNext
<1>6. ASSUME NEW u \in Uuid, LeaseExpires(u) PROVE Ledger!LedgerNext
  BY <1>1, <1>6 DEF Ledger!LedgerNext
<1> QED
  BY <1>5, <1>6, ScriptStep

\* Admissions on every node, however they interleave with events, faults and
\* leases that end, are decided as if the credentials had been counted.
THEOREM ImplementsLedger == Spec => RefinesLedger
<1>1. Init => Ledger!LedgerInit
  BY LedgerNames DEF Init, StoreInit, Ledger!LedgerInit
<1>2. IInv /\ [Next]_vars => [Ledger!LedgerNext]_resv
  BY LedgerStep
<1> QED
  BY <1>1, <1>2, Invariant, PTL DEF Spec, RefinesLedger, Ledger!LedgerSpec
-----------------------------------------------------------------------------
(* The limits. *)

\* One call more makes a set of calls at most one larger.
LEMMA OneMore ==
    ASSUME NEW S \in SUBSET Uuid, NEW T, NEW u, T \subseteq S \cup {u}
    PROVE  /\ Cardinality(S) \in Nat /\ Cardinality(T) \in Nat
           /\ Cardinality(T) <= Cardinality(S) + 1
<1>1. IsFiniteSet(S)
  BY UuidFinite, FS_Subset
<1>2. IsFiniteSet(S \cup {u}) /\ Cardinality(S \cup {u}) <= Cardinality(S) + 1
      /\ Cardinality(S) \in Nat /\ Cardinality(S \cup {u}) \in Nat
  <2>1. Cardinality(S) \in Nat
    BY <1>1, FS_CardinalityType
  <2> QED
    BY <1>1, <2>1, FS_AddElement, FS_CardinalityType
<1>3. IsFiniteSet(T) /\ Cardinality(T) <= Cardinality(S \cup {u})
  BY <1>2, FS_Subset
<1>4. Cardinality(T) \in Nat
  BY <1>3, FS_CardinalityType
<1> QED
  BY <1>2, <1>3, <1>4

\* Fewer calls are within a limit that more were in.
LEMMA NoMore ==
    ASSUME NEW S \in SUBSET Uuid, NEW T, T \subseteq S, NEW limit \in Nat,
           Cardinality(S) <= limit
    PROVE  Cardinality(T) <= limit
<1>1. IsFiniteSet(S) /\ Cardinality(S) \in Nat
  BY UuidFinite, FS_Subset, FS_CardinalityType
<1>2. IsFiniteSet(T) /\ Cardinality(T) <= Cardinality(S)
  BY <1>1, FS_Subset
<1>3. Cardinality(T) \in Nat
  BY <1>2, FS_CardinalityType
<1> QED
  BY <1>1, <1>2, <1>3

\* The calls the admission script put on a gateway are among those charged there.
LEMMA AdmittedAreHolders ==
    ASSUME StoreTypeOK, NEW g \in Gw
    PROVE  AdmittedTo(g) \subseteq Holders(resv, g)
<1>1. SUFFICES ASSUME NEW u \in AdmittedTo(g) PROVE u \in Holders(resv, g)
  OBVIOUS
<1>2. u \in Uuid /\ resv[u].kind = "reserved" /\ resv[u].g = g /\ resv[u] \in Credential
  BY <1>1 DEF AdmittedTo, StoreTypeOK
<1>3. resv[u] \in Full
  BY <1>2 DEF Credential, Absent, Ensured
<1>4. g \in Charges(resv[u])
  BY <1>2, <1>3, ChargesOf, KeysDistinct
<1> QED
  BY <1>2, <1>4 DEF Holders

\* Only an admission adds a call to a gateway's admitted ones, and it finds a
\* free slot.
LEMMA GwLimitStep ==
    ASSUME StoreTypeOK, GwAdmittedWithinLimit, [Ledger!LedgerNext]_resv
    PROVE  GwAdmittedWithinLimit'
<1>1. SUFFICES ASSUME NEW g \in Gw, GwLimit[g] > 0
               PROVE  Cardinality(AdmittedTo(g)') <= GwLimit[g]
  BY DEF GwAdmittedWithinLimit
<1>2. resv \in [Uuid -> Credential] /\ GwLimit[g] \in Nat
  BY LimitTypes DEF StoreTypeOK
<1>3. AdmittedTo(g) \in SUBSET Uuid /\ Cardinality(AdmittedTo(g)) <= GwLimit[g]
  BY <1>1 DEF GwAdmittedWithinLimit, AdmittedTo
<1>4. ASSUME AdmittedTo(g)' \subseteq AdmittedTo(g)
      PROVE  Cardinality(AdmittedTo(g)') <= GwLimit[g]
  BY <1>2, <1>3, <1>4, NoMore
<1>5. ASSUME NEW u \in Uuid, NEW h \in Gw, NEW a \in Ap \cup {NoAp}, Ledger!Admit(u, h, a)
      PROVE  Cardinality(AdmittedTo(g)') <= GwLimit[g]
  <2>1. resv' = [resv EXCEPT ![u] = Reserved(h, a)]
    BY <1>5, LedgerNames DEF Ledger!Admit
  <2>2. CASE h # g
    <3>1. AdmittedTo(g)' \subseteq AdmittedTo(g)
      BY <1>2, <2>1, <2>2 DEF AdmittedTo, Reserved
    <3> QED
      BY <1>4, <3>1
  <2>3. CASE h = g
    <3>1. AdmittedTo(g)' \subseteq AdmittedTo(g) \cup {u}
      BY <1>2, <2>1 DEF AdmittedTo
    <3>2. ~(GwLimit[g] > 0 /\ Cardinality(Holders(resv, g)) >= GwLimit[g])
      BY <1>5, <2>3, LedgerNames DEF Ledger!Admit, Ledger!FreeSlot, Ledger!AtLimit
    <3>3. Cardinality(AdmittedTo(g)) <= Cardinality(Holders(resv, g))
      BY AdmittedAreHolders, HoldersFinite, FS_Subset
    <3>4. /\ Cardinality(AdmittedTo(g)') <= Cardinality(AdmittedTo(g)) + 1
          /\ Cardinality(AdmittedTo(g)') \in Nat /\ Cardinality(AdmittedTo(g)) \in Nat
      BY <1>3, <3>1, OneMore
    <3>5. Cardinality(Holders(resv, g)) \in Nat
      BY HoldersFinite
    <3> QED
      BY <1>1, <1>2, <3>2, <3>3, <3>4, <3>5
  <2> QED
    BY <2>2, <2>3
<1>6. ASSUME NEW u \in Uuid, Ledger!Register(u) \/ Ledger!Drop(u) \/ \E h \in Gw : Ledger!Move(u, h)
      PROVE  Cardinality(AdmittedTo(g)') <= GwLimit[g]
  <2>1. \E c : c.kind # "reserved" /\ resv' = [resv EXCEPT ![u] = c]
    BY <1>6, LedgerNames
       DEF Ledger!Register, Ledger!Drop, Ledger!Move, Absent, Ensured, Moved
  <2>2. AdmittedTo(g)' \subseteq AdmittedTo(g)
    BY <1>2, <2>1 DEF AdmittedTo
  <2> QED
    BY <1>4, <2>2
<1>7. CASE UNCHANGED resv
  <2>1. AdmittedTo(g)' \subseteq AdmittedTo(g)
    BY <1>7 DEF AdmittedTo
  <2> QED
    BY <1>4, <2>1
<1> QED
  BY <1>5, <1>6, <1>7 DEF Ledger!LedgerNext

\* Only an admission charges an access point, and it finds a free slot; a
\* transfer keeps the access point.
LEMMA ApLimitStep ==
    ASSUME StoreTypeOK, ApWithinLimit, [Ledger!LedgerNext]_resv
    PROVE  ApWithinLimit'
<1>1. SUFFICES ASSUME NEW b \in Ap, ApLimit[b] > 0
               PROVE  Cardinality(Holders(resv', b)) <= ApLimit[b]
  BY DEF ApWithinLimit, Holders
<1>2. resv \in [Uuid -> Credential] /\ ApLimit[b] \in Nat
  BY LimitTypes DEF StoreTypeOK
<1>3. Holders(resv, b) \in SUBSET Uuid /\ Cardinality(Holders(resv, b)) <= ApLimit[b]
  BY <1>1 DEF ApWithinLimit, Holders
<1>4. ASSUME Holders(resv', b) \subseteq Holders(resv, b)
      PROVE  Cardinality(Holders(resv', b)) <= ApLimit[b]
  BY <1>2, <1>3, <1>4, NoMore
\* A write that charges b only if the old credential did.
<1>5. ASSUME NEW u \in Uuid, NEW c, resv' = [resv EXCEPT ![u] = c],
             b \in Charges(c) => b \in Charges(resv[u])
      PROVE  Holders(resv', b) \subseteq Holders(resv, b)
  BY <1>2, <1>5 DEF Holders
<1>6. ASSUME NEW u \in Uuid, NEW h \in Gw, NEW a \in Ap \cup {NoAp}, Ledger!Admit(u, h, a)
      PROVE  Cardinality(Holders(resv', b)) <= ApLimit[b]
  <2>1. resv' = [resv EXCEPT ![u] = Reserved(h, a)]
    BY <1>6, LedgerNames DEF Ledger!Admit
  <2>2. CASE a # b
    <3>1. b \notin Charges(Reserved(h, a))
      BY <2>2, FullPayloads, ChargesOf, KeysDistinct
    <3> QED
      BY <1>4, <1>5, <2>1, <3>1
  <2>3. CASE a = b
    <3>1. Holders(resv', b) \subseteq Holders(resv, b) \cup {u}
      BY <1>2, <2>1 DEF Holders
    <3>2. ~(ApLimit[b] > 0 /\ Cardinality(Holders(resv, b)) >= ApLimit[b])
      BY <1>6, <2>3, LedgerNames DEF Ledger!Admit, Ledger!FreeSlot, Ledger!AtLimit
    <3>3. /\ Cardinality(Holders(resv', b)) <= Cardinality(Holders(resv, b)) + 1
          /\ Cardinality(Holders(resv', b)) \in Nat /\ Cardinality(Holders(resv, b)) \in Nat
      BY <1>3, <3>1, OneMore
    <3> QED
      BY <1>1, <1>2, <3>2, <3>3
  <2> QED
    BY <2>2, <2>3
<1>7. ASSUME NEW u \in Uuid, Ledger!Register(u) \/ Ledger!Drop(u)
      PROVE  Cardinality(Holders(resv', b)) <= ApLimit[b]
  <2>1. b \notin Charges(Absent) /\ b \notin Charges(Ensured)
    BY ChargesOf, KeysDistinct
  <2> QED
    BY <1>4, <1>5, <1>7, <2>1, LedgerNames DEF Ledger!Register, Ledger!Drop
<1>8. ASSUME NEW u \in Uuid, NEW h \in Gw, Ledger!Move(u, h)
      PROVE  Cardinality(Holders(resv', b)) <= ApLimit[b]
  <2>1. resv' = [resv EXCEPT ![u] = Moved(h, resv[u].a)] /\ resv[u] # Absent
    BY <1>8, LedgerNames DEF Ledger!Move
  <2>2. CASE resv[u] = Ensured
    <3>1. resv[u].a = NoAp
      BY <2>2 DEF Ensured
    <3>2. b \notin Charges(Moved(h, NoAp))
      BY FullPayloads, ChargesOf, KeysDistinct
    <3> QED
      BY <1>4, <1>5, <2>1, <3>1, <3>2
  <2>3. CASE resv[u] # Ensured
    <3>1. resv[u] \in Full /\ resv[u].a \in Ap \cup {NoAp}
      BY <1>2, <2>1, <2>3 DEF Credential, Full
    <3>2. b \in Charges(Moved(h, resv[u].a)) => b = resv[u].a
      BY <3>1, FullPayloads, ChargesOf, KeysDistinct
    <3>3. b = resv[u].a => b \in Charges(resv[u])
      BY <3>1, ChargesOf, KeysDistinct
    <3> QED
      BY <1>4, <1>5, <2>1, <3>2, <3>3
  <2> QED
    BY <2>2, <2>3
<1>9. CASE UNCHANGED resv
  BY <1>3, <1>9
<1> QED
  BY <1>6, <1>7, <1>8, <1>9 DEF Ledger!LedgerNext

LEMMA LimitsAtFirst == ASSUME Init PROVE GwAdmittedWithinLimit /\ ApWithinLimit
<1>1. \A g \in Gw : AdmittedTo(g) = {}
  BY DEF Init, StoreInit, AdmittedTo, Absent
<1>2. \A a \in Ap : Holders(resv, a) = {}
  BY ChargesOf DEF Init, StoreInit, Holders
<1>3. Cardinality({}) = 0
  BY FS_EmptySet
<1>4. GwAdmittedWithinLimit
  BY <1>1, <1>3, LimitTypes DEF GwAdmittedWithinLimit
<1>5. ApWithinLimit
  BY <1>2, <1>3, LimitTypes DEF ApWithinLimit
<1> QED
  BY <1>4, <1>5

\* Never more admissions on a gateway than its concurrent_limit.
THEOREM GwLimitHolds == Spec => []GwAdmittedWithinLimit
<1>1. ASSUME IInv, GwAdmittedWithinLimit, [Next]_vars PROVE GwAdmittedWithinLimit'
  BY <1>1, LedgerStep, GwLimitStep DEF IInv, TypeOK
<1> QED
  BY <1>1, LimitsAtFirst, Invariant, PTL DEF Spec

\* Never more credentials on an access point than its concurrent_limit.
THEOREM ApLimitHolds == Spec => []ApWithinLimit
<1>1. ASSUME IInv, ApWithinLimit, [Next]_vars PROVE ApWithinLimit'
  BY <1>1, LedgerStep, ApLimitStep DEF IInv, TypeOK
<1> QED
  BY <1>1, LimitsAtFirst, Invariant, PTL DEF Spec
-----------------------------------------------------------------------------
(* Refusals. *)

\* A refusal for the global limit has read a full global counter, and the last
\* gate reads it only for calls without a credential.
LEMMA GlobalRefusal ==
    ASSUME ~FailOpen, IInv, Next, NEW u \in Uuid,
           chan[u] = "wait", chan'[u] = "busy_global"
    PROVE  AtLimit(cnt[Global], GLimit)
<1> USE DEF store, fs
<1>1. chan \in [Uuid -> ChanState]
  BY DEF IInv, TypeOK
<1>2. chan' # chan
  OBVIOUS
<1>3. ASSUME NEW v, NEW state, Respond(v, state) PROVE state = "busy_global"
  BY <1>1, <1>3 DEF Respond
<1>4. ASSUME NEW n \in Node, NEW v \in Uuid, AnswerWithoutSlot(n, v) PROVE FALSE
  BY <1>3, <1>4 DEF AnswerWithoutSlot
<1>5. ASSUME NEW n \in Node, NEW v \in Uuid, Screen(n, v) PROVE AtLimit(cnt[Global], GLimit)
  <2>1. Respond(v, Precheck(v)) \/ Respond(v, "busy_redis")
    BY <1>2, <1>5 DEF Screen
  <2>2. Precheck(v) = "busy_global"
    BY <1>3, <2>1
  <2> QED
    BY <2>2 DEF Precheck
<1>6. ASSUME NEW n \in Node, Reserve(n) PROVE AtLimit(cnt[Global], GLimit)
  <2> DEFINE gate == ReserveVerdict(dp[n].u, Head(dp[n].todo), ApOf[dp[n].u])
  <2>1. \/ gate = "ok" /\ Respond(dp[n].u, "routed")
        \/ gate = "global"
        \/ gate = "ap" /\ Respond(dp[n].u, "busy_ap")
        \/ gate = "gw" /\ Respond(dp[n].u, "busy_gw")
    BY <1>2, <1>6 DEF Reserve, Route, Refuse, TryNext
  <2>2. gate = "global"
    BY <1>3, <2>1
  <2> QED
    BY <2>2 DEF ReserveVerdict
<1>7. ASSUME NEW n \in Node, ReserveUnanswered(n) PROVE FALSE
  BY <1>3, <1>7 DEF ReserveUnanswered, Refuse
<1>8. ASSUME NEW n \in Node, Worker(n) PROVE FALSE
  BY <1>2, <1>8
     DEF Worker, HandleCreate, HandleVars, HandleHangup, FinishTransfer, FinishRelease
<1>9. ASSUME NEW n \in Node, FsCrash(n) \/ Restart(n) PROVE FALSE
  BY <1>1, <1>9 DEF FsCrash, Restart
<1>10. ASSUME NEW v \in Uuid, Channel(v) \/ LeaseEnds(v) PROVE FALSE
  BY <1>1, <1>2, <1>10 DEF Channel, NewCall, ReportLeg, Failover, HangUp, LeaseEnds
<1>11. ~RedisDown /\ ~RedisBack
  BY <1>2 DEF RedisDown, RedisBack
<1> QED
  BY <1>4, <1>5, <1>6, <1>7, <1>8, <1>9, <1>10, <1>11 DEF Next, Step, Dialplan

\* Fail-close and no lease ends: a call refused for the global limit finds all
\* slots but one held by other calls.
THEOREM RefusalsNearLimit ==
    ASSUME ~FailOpen, "expiry" \notin FaultKinds
    PROVE  Spec => RefusedAtMostOneSlotEarly
<1>1. ASSUME IInv, CountersMatchCredentials, Next, NEW u \in Uuid,
             chan[u] = "wait", chan'[u] = "busy_global"
      PROVE  Cardinality(Holders(resv, Global) \ {u}) >= GLimit - 1
  <2>1. GLimit > 0 /\ cnt[Global] >= GLimit
    BY <1>1, GlobalRefusal DEF AtLimit
  <2>2. cnt[Global] = Cardinality(Holders(resv, Global))
    BY <1>1 DEF CountersMatchCredentials, Key
  <2>3. /\ IsFiniteSet(Holders(resv, Global)) /\ Cardinality(Holders(resv, Global)) \in Nat
        /\ GLimit \in Nat
    BY HoldersFinite, LimitTypes
  <2>4. Cardinality(Holders(resv, Global) \ {u}) =
          IF u \in Holders(resv, Global) THEN Cardinality(Holders(resv, Global)) - 1
                                         ELSE Cardinality(Holders(resv, Global))
    BY <2>3, FS_RemoveElement
  <2> QED
    BY <2>1, <2>2, <2>3, <2>4
<1>2. IInv /\ CountersMatchCredentials /\ [Next]_vars =>
         [\A u \in Uuid : chan[u] = "wait" /\ chan'[u] = "busy_global" =>
            Cardinality(Holders(resv, Global) \ {u}) >= GLimit - 1]_vars
  BY <1>1
<1> QED
  BY <1>2, Invariant, CountersMatch, PTL DEF Spec, RefusedAtMostOneSlotEarly
-----------------------------------------------------------------------------
(* A routed call is charged. *)

\* A waiting call has at most what ensure_leg gave it.
WaitingInv == \A u \in Uuid : chan[u] \in {"new", "wait"} => resv[u] \in {Absent, Ensured}

RoutedInv == \A u \in Uuid : chan[u] = "routed" => resv[u] \in Full /\ resv[u].a = ApOf[u]

HangupInv == \A n \in Node : \A i \in 1..Len(evq[n]) :
                evq[n][i].kind \in {"hangup", "bare"} => chan[evq[n][i].u] = "gone"

ReleaseInv == \A n \in Node :
                 ew[n] # Resting /\ ew[n].op = "release" => chan[ew[n].u] = "gone"

ChargeInv == WaitingInv /\ RoutedInv /\ HangupInv /\ ReleaseInv

\* A channel that is gone stays gone.
LEMMA GoneStays ==
    ASSUME IInv, [Next]_vars, NEW v \in Uuid, chan[v] = "gone"
    PROVE  chan'[v] = "gone"
<1> USE DEF store, fs
<1>1. chan \in [Uuid -> ChanState]
  BY DEF IInv, TypeOK
<1>2. ASSUME NEW u, NEW state, Respond(u, state) PROVE chan'[v] = "gone"
  BY <1>1, <1>2 DEF Respond
<1>3. CASE UNCHANGED chan
  BY <1>3
<1>4. ASSUME NEW u \in Uuid, Channel(u) PROVE chan'[v] = "gone"
  <2>1. \/ UNCHANGED chan
        \/ chan[u] = "new" /\ chan' = [chan EXCEPT ![u] = "wait"]
        \/ chan' = [chan EXCEPT ![u] = "gone"]
    BY <1>4 DEF Channel, NewCall, ReportLeg, Failover, HangUp
  <2> QED
    BY <1>1, <2>1
<1>5. ASSUME NEW n \in Node, Dialplan(n) PROVE chan'[v] = "gone"
  <2>1. UNCHANGED chan \/ \E u, state : Respond(u, state)
    BY <1>5 DEF Dialplan, AnswerWithoutSlot, Screen, Reserve, ReserveUnanswered,
                Route, TryNext, Refuse
  <2> QED
    BY <1>2, <1>3, <2>1
<1>6. ASSUME NEW n \in Node, Worker(n) PROVE chan'[v] = "gone"
  BY <1>3, <1>6
     DEF Worker, HandleCreate, HandleVars, HandleHangup, FinishTransfer, FinishRelease
<1>7. CASE (\E u \in Uuid : LeaseEnds(u)) \/ RedisDown \/ RedisBack \/ UNCHANGED vars
  BY <1>3, <1>7 DEF LeaseEnds, RedisDown, RedisBack, vars
<1>8. ASSUME NEW n \in Node, FsCrash(n) \/ Restart(n) PROVE chan'[v] = "gone"
  BY <1>1, <1>8 DEF FsCrash, Restart
<1> QED
  BY <1>4, <1>5, <1>6, <1>7, <1>8 DEF Next, Step

\* A queued hangup, and a release it started, are of a call that is gone.
LEMMA HangupStep ==
    ASSUME IInv, HangupInv, ReleaseInv, TypeOK', [Next]_vars
    PROVE  HangupInv' /\ ReleaseInv'
<1> USE DEF store, fs
<1>1. HangupInv'
  <2>1. SUFFICES ASSUME NEW m \in Node, NEW i \in 1..Len(evq'[m]), NEW v, v = evq'[m][i].u,
                        evq'[m][i].kind \in {"hangup", "bare"}
                 PROVE  chan'[v] = "gone"
    BY DEF HangupInv
  <2>2. v \in Uuid
    BY <2>1, QueueEffect
  <2>3. CASE OldEvent(m, evq'[m][i]) \/ BareRest(m, evq'[m][i])
    <3>1. chan[v] = "gone"
      BY <2>1, <2>3 DEF HangupInv, OldEvent, BareRest
    <3> QED
      BY <2>2, <3>1, GoneStays
  <2>4. CASE Emitted(m, evq'[m][i])
    BY <2>1, <2>4 DEF Emitted
  <2> QED
    BY <2>3, <2>4, QueueEffect
<1>2. ReleaseInv'
  <2>1. SUFFICES ASSUME NEW m \in Node, NEW v, v = ew'[m].u,
                        ew'[m] # Resting, ew'[m].op = "release"
                 PROVE  chan'[v] = "gone"
    BY DEF ReleaseInv
  <2>2. ew \in [Node -> Work] /\ evq \in [Node -> Seq(Event)]
    BY DEF IInv, TypeOK
  <2>3. v \in Uuid
    <3>1. ew'[m] \in Work
      BY DEF TypeOK
    <3> QED
      BY <2>1, <3>1, Tokens
  <2>4. ASSUME ew'[m] = ew[m] PROVE chan'[v] = "gone"
    <3>1. chan[v] = "gone"
      BY <2>1, <2>4 DEF ReleaseInv
    <3> QED
      BY <2>3, <3>1, GoneStays
  <2>5. ASSUME NEW n \in Node, Worker(n), ew'[m] # ew[m] PROVE chan'[v] = "gone"
    <3>1. m = n
      BY <2>2, <2>5
         DEF Worker, HandleCreate, HandleVars, HandleHangup, FinishTransfer, FinishRelease
    <3>2. HandleHangup(n) /\ v = Head(evq[n]).u
      <4>1. CASE HandleHangup(n)
        <5> DEFINE r == [op |-> "release", u |-> Head(evq[n]).u, p |-> resv[Head(evq[n]).u]]
        <5>1. ew' = ew \/ ew' = [ew EXCEPT ![n] = r]
          BY <4>1 DEF HandleHangup
        <5>2. ew'[m] = r
          BY <2>2, <2>5, <3>1, <5>1
        <5> QED
          BY <2>1, <4>1, <5>2
      <4>2. CASE HandleVars(n)
        <5>1. ew' = ew \/ \E w : w.op = "transfer" /\ ew' = [ew EXCEPT ![n] = w]
          BY <4>2 DEF HandleVars
        <5> QED
          BY <2>1, <2>2, <2>5, <3>1, <5>1
      <4>3. CASE HandleCreate(n) \/ FinishTransfer(n) \/ FinishRelease(n)
        BY <2>1, <2>2, <2>5, <3>1, <4>3 DEF HandleCreate, FinishTransfer, FinishRelease
      <4> QED
        BY <2>5, <4>1, <4>2, <4>3 DEF Worker
    <3>3. evq[n] \in Seq(Event) /\ evq[n] # <<>> /\ Head(evq[n]).kind = "bare"
      BY <2>2, <3>2 DEF HandleHangup, Idle
    <3>4. chan[v] = "gone"
      BY <3>2, <3>3, HeadEvent DEF HangupInv
    <3> QED
      BY <2>3, <3>4, GoneStays
  <2>6. CASE ew' = ew
    BY <2>4, <2>6
  <2>7. ASSUME NEW n \in Node, Restart(n) PROVE chan'[v] = "gone"
    <3>1. ew'[m] = IF m = n THEN Resting ELSE ew[m]
      BY <2>2, <2>7 DEF Restart
    <3> QED
      BY <2>1, <2>4, <3>1
  <2>8. ASSUME NEW n \in Node, Dialplan(n) PROVE ew' = ew
    BY <2>8 DEF Dialplan, AnswerWithoutSlot, Screen, Reserve, ReserveUnanswered
  <2>9. ASSUME NEW u \in Uuid, Channel(u) PROVE ew' = ew
    BY <2>9 DEF Channel, NewCall, ReportLeg, Failover, HangUp
  <2>10. ASSUME \/ \E n \in Node : FsCrash(n)
                \/ \E u \in Uuid : LeaseEnds(u)
                \/ RedisDown \/ RedisBack \/ UNCHANGED vars
         PROVE  ew' = ew
    BY <2>10 DEF FsCrash, LeaseEnds, RedisDown, RedisBack, vars
  <2> QED
    BY <2>4, <2>5, <2>6, <2>7, <2>8, <2>9, <2>10 DEF Next, Step
<1> QED
  BY <1>1, <1>2

\* What the two invariants say of one call after the step.
ChargedNext(u) ==
    /\ chan'[u] \in {"new", "wait"} => resv'[u] \in {Absent, Ensured}
    /\ chan'[u] = "routed" => resv'[u] \in Full /\ resv'[u].a = ApOf[u]

\* A channel that does not become routed keeps what its credential was.
LEMMA CredentialKept ==
    ASSUME WaitingInv, RoutedInv, NEW u \in Uuid, resv'[u] = resv[u],
           chan'[u] \in {"new", "wait"} => chan[u] \in {"new", "wait"},
           chan'[u] = "routed" => chan[u] = "routed"
    PROVE  ChargedNext(u)
BY DEF WaitingInv, RoutedInv, ChargedNext

\* What a response does to the channels.
LEMMA RespondChannel ==
    ASSUME TypeOK, NEW u, NEW state, Respond(u, state), NEW v \in Uuid
    PROVE  /\ v # u => chan'[v] = chan[v]
           /\ v = u /\ chan[v] = "wait" => chan'[v] = state
           /\ v = u /\ chan[v] # "wait" => chan'[v] = chan[v]
BY DEF TypeOK, Respond

\* One call of the admission script, and its answer, keeps every call charged.
LEMMA ReservingCharges ==
    ASSUME IInv, WaitingInv, RoutedInv, NEW v \in Uuid, NEW n \in Node,
           Reserve(n) \/ (ReserveUnanswered(n) /\ ~FailOpen)
    PROVE  ChargedNext(v)
<1> DEFINE u == dp[n].u
           g == Head(dp[n].todo)
<1>1. /\ dp[n] # NoCall /\ u \in Uuid /\ g \in Gw
      /\ ApOf[u] \in Ap \cup {NoAp}
      /\ chan[u] \in {"wait", "gone"}
  <2>1. dp[n] # NoCall
    BY DEF Reserve, ReserveUnanswered
  <2>2. u \in Uuid /\ dp[n].todo \in Seq(Gw) /\ dp[n].todo # <<>> /\ chan[u] \in {"wait", "gone"}
    BY <2>1, Tokens DEF IInv, TypeOK, ControlInv, HandlerInv
  <2> QED
    BY <2>1, <2>2, AdmissionTypes
<1>2. resv \in [Uuid -> Credential] /\ chan \in [Uuid -> ChanState]
  BY DEF IInv, TypeOK, StoreTypeOK
<1>3. UNCHANGED resv \/ resv' = [resv EXCEPT ![u] = Reserved(g, ApOf[u])]
  BY DEF Reserve, ReserveUnanswered, ReserveEval, store
<1>4. UNCHANGED chan \/ \E state : Respond(u, state)
  BY DEF Reserve, ReserveUnanswered, Route, TryNext, Refuse
<1>5. CASE v # u
  <2>1. resv'[v] = resv[v]
    BY <1>2, <1>3, <1>5
  <2>2. chan'[v] = chan[v]
    BY <1>4, <1>5, RespondChannel DEF IInv
  <2> QED
    BY <2>1, <2>2, CredentialKept
<1>6. CASE v = u /\ chan[u] = "gone"
  <2>1. chan'[v] = "gone"
    BY <1>4, <1>6, RespondChannel DEF IInv
  <2> QED
    BY <2>1 DEF ChargedNext
<1>7. CASE v = u /\ chan[u] = "wait" /\ Reserve(n)
  <2>1. resv[v] \in {Absent, Ensured}
    BY <1>7 DEF WaitingInv
  <2>2. CASE ReserveVerdict(u, g, ApOf[u]) = "ok"
    <3>1. resv' = [resv EXCEPT ![u] = Reserved(g, ApOf[u])]
      BY <1>7, <2>1, <2>2 DEF Reserve, ReserveEval
    <3>2. Route(n)
      BY <1>7, <2>2 DEF Reserve
    <3>3. chan'[v] = "routed"
      BY <1>7, <3>2, RespondChannel DEF Route, IInv
    <3>4. resv'[v] = Reserved(g, ApOf[v])
      BY <1>2, <1>7, <3>1
    <3>5. resv'[v] \in Full /\ resv'[v].a = ApOf[v]
      BY <1>1, <1>7, <3>4 DEF Full, Reserved
    <3> QED
      BY <3>3, <3>5 DEF ChargedNext
  <2>3. CASE ReserveVerdict(u, g, ApOf[u]) # "ok"
    <3>1. resv'[v] = resv[v]
      BY <1>7, <2>3 DEF Reserve, ReserveEval
    <3>2. Refuse(n, "busy_global") \/ Refuse(n, "busy_ap") \/ TryNext(n)
      BY <1>7, <2>3 DEF Reserve
    <3>3. UNCHANGED chan \/ \E state : state \in Refused /\ Respond(u, state)
      BY <3>2 DEF TryNext, Refuse, Refused
    <3>4. chan'[v] = chan[v] \/ chan'[v] \in Refused
      BY <1>7, <3>3, RespondChannel DEF IInv
    <3> QED
      BY <3>1, <3>4, CredentialKept DEF Refused
  <2> QED
    BY <2>2, <2>3
<1>8. CASE v = u /\ chan[u] = "wait" /\ ReserveUnanswered(n) /\ ~FailOpen
  <2>1. Respond(u, "busy_redis")
    BY <1>8 DEF ReserveUnanswered, Refuse
  <2>2. chan'[v] = "busy_redis"
    BY <1>8, <2>1, RespondChannel DEF IInv
  <2> QED
    BY <2>2 DEF ChargedNext
<1> QED
  BY <1>1, <1>5, <1>6, <1>7, <1>8

\* The event worker registers calls, moves answered ones and releases those gone.
LEMMA WorkerCharges ==
    ASSUME IInv, ChargeInv, NEW v \in Uuid, NEW n \in Node, Worker(n)
    PROVE  ChargedNext(v)
<1> USE DEF store, fs
<1>1. resv \in [Uuid -> Credential]
  BY DEF IInv, TypeOK, StoreTypeOK
<1>2. chan'[v] = chan[v]
  BY DEF Worker, HandleCreate, HandleVars, HandleHangup, FinishTransfer, FinishRelease
<1>3. ASSUME resv'[v] = resv[v] PROVE ChargedNext(v)
  BY <1>2, <1>3, CredentialKept DEF ChargeInv
<1>4. CASE HandleVars(n) \/ HandleHangup(n)
  BY <1>3, <1>4 DEF HandleVars, HandleHangup
<1>5. CASE HandleCreate(n)
  <2> DEFINE u == Head(evq[n]).u
  <2>1. UNCHANGED resv \/ (resv[u] = Absent /\ resv' = [resv EXCEPT ![u] = Ensured])
    BY <1>5 DEF HandleCreate, EnsureEval
  <2>2. CASE u = v /\ resv[u] = Absent /\ resv' = [resv EXCEPT ![u] = Ensured]
    <3>1. resv'[v] = Ensured
      BY <1>1, <2>2
    <3>2. chan[v] # "routed"
      BY <2>2 DEF ChargeInv, RoutedInv, Full, Absent
    <3> QED
      BY <1>2, <3>1, <3>2 DEF ChargedNext
  <2>3. CASE UNCHANGED resv \/ (u # v /\ resv' = [resv EXCEPT ![u] = Ensured])
    BY <1>1, <1>3, <2>3
  <2> QED
    BY <2>1, <2>2, <2>3
<1>6. ASSUME ew[n] # Resting, ew[n].u # v, FinishTransfer(n) \/ FinishRelease(n)
      PROVE  ChargedNext(v)
  BY <1>1, <1>3, <1>6 DEF FinishTransfer, FinishRelease, TransferEval, ReleaseEval
<1>7. CASE FinishTransfer(n)
  <2>1. ew[n] # Resting
    BY <1>7 DEF FinishTransfer, Resting
  <2>2. CASE ew[n].u = v
    <3>1. ew[n].g \in Gw
      BY <1>7, <2>1, Tokens DEF IInv, TypeOK, FinishTransfer
    <3>2. chan[v] \notin {"new", "wait"} /\ resv[v] \in {Absent, ew[n].p}
      BY <2>1, <2>2 DEF IInv, ControlInv, WorkerInv, Answered
    <3>3. CASE UNCHANGED resv
      BY <1>3, <3>3
    <3>4. CASE resv[v] # Absent /\ resv' = [resv EXCEPT ![v] = Moved(ew[n].g, ew[n].p.a)]
      <4>1. resv[v] = ew[n].p /\ resv'[v] = Moved(ew[n].g, resv[v].a)
        BY <1>1, <3>2, <3>4
      <4>2. chan[v] = "routed" => resv[v] \in Full /\ resv[v].a = ApOf[v]
        BY DEF ChargeInv, RoutedInv
      <4>3. chan[v] = "routed" => resv'[v] \in Full /\ resv'[v].a = ApOf[v]
        BY <3>1, <4>1, <4>2 DEF Full, Moved
      <4> QED
        BY <1>2, <3>2, <4>3 DEF ChargedNext
    <3> QED
      BY <1>7, <2>2, <3>3, <3>4 DEF FinishTransfer, TransferEval
  <2> QED
    BY <1>6, <1>7, <2>1, <2>2
<1>8. CASE FinishRelease(n)
  <2>1. ew[n] # Resting
    BY <1>8 DEF FinishRelease, Resting
  <2>2. CASE ew[n].u = v
    <3>1. chan[v] = "gone"
      BY <1>8, <2>1, <2>2 DEF ChargeInv, ReleaseInv, FinishRelease
    <3> QED
      BY <1>2, <3>1 DEF ChargedNext
  <2> QED
    BY <1>6, <1>8, <2>1, <2>2
<1> QED
  BY <1>4, <1>5, <1>7, <1>8 DEF Worker

\* Every step keeps every call charged, but one that routes a call without an answer
\* of the store and one that ends a lease.
LEMMA ChargeStep ==
    ASSUME IInv, ChargeInv, [Next]_vars,
           \A n \in Node : ReserveUnanswered(n) => ~FailOpen,
           \A u \in Uuid : ~LeaseEnds(u)
    PROVE  WaitingInv' /\ RoutedInv'
<1> USE DEF store, fs
<1>1. SUFFICES ASSUME NEW v \in Uuid PROVE ChargedNext(v)
  BY DEF ChargedNext, WaitingInv, RoutedInv
<1>2. chan \in [Uuid -> ChanState] /\ TypeOK /\ WaitingInv /\ RoutedInv
  BY DEF IInv, TypeOK, ChargeInv
<1>3. CASE UNCHANGED <<chan, resv>>
  BY <1>2, <1>3, CredentialKept
<1>4. ASSUME NEW u \in Uuid, Channel(u) PROVE ChargedNext(v)
  <2>1. UNCHANGED resv
    BY <1>4 DEF Channel, NewCall, ReportLeg, Failover, HangUp
  <2>2. \/ UNCHANGED chan
        \/ chan[u] = "new" /\ chan' = [chan EXCEPT ![u] = "wait"]
        \/ chan' = [chan EXCEPT ![u] = "gone"]
    BY <1>4 DEF Channel, NewCall, ReportLeg, Failover, HangUp
  <2> QED
    BY <1>2, <2>1, <2>2, CredentialKept
<1>5. ASSUME NEW n \in Node, NEW u \in Uuid, AnswerWithoutSlot(n, u) \/ Screen(n, u)
      PROVE  ChargedNext(v)
  <2>1. UNCHANGED resv
    BY <1>5 DEF AnswerWithoutSlot, Screen
  <2>2. UNCHANGED chan \/ \E state : state # "routed" /\ state \in ChanState \ {"new", "wait"}
                                     /\ Respond(u, state)
    BY <1>5 DEF AnswerWithoutSlot, Screen, Precheck, ChanState, Refused, InCall
  <2>3. chan'[v] = chan[v] \/ chan'[v] \notin {"new", "wait", "routed"}
    BY <1>2, <2>2, RespondChannel
  <2> QED
    BY <1>2, <2>1, <2>3, CredentialKept
<1>6. ASSUME NEW n \in Node, Reserve(n) \/ ReserveUnanswered(n) PROVE ChargedNext(v)
  BY <1>2, <1>6, ReservingCharges
<1>7. ASSUME NEW n \in Node, Worker(n) PROVE ChargedNext(v)
  BY <1>7, WorkerCharges
<1>8. ASSUME NEW n \in Node, FsCrash(n) \/ Restart(n) PROVE ChargedNext(v)
  <2>1. UNCHANGED resv
    BY <1>8 DEF FsCrash, Restart
  <2>2. chan'[v] \in {chan[v], "gone", "denied"}
    BY <1>2, <1>8 DEF FsCrash, Restart
  <2> QED
    BY <1>2, <2>1, <2>2, CredentialKept
<1>9. CASE RedisDown \/ RedisBack \/ UNCHANGED vars
  BY <1>3, <1>9 DEF RedisDown, RedisBack, vars
<1> QED
  BY <1>4, <1>5, <1>6, <1>7, <1>8, <1>9 DEF Next, Step, Dialplan

LEMMA ChargeAtFirst == ASSUME Init PROVE ChargeInv
BY DEF Init, StoreInit, ChargeInv, WaitingInv, RoutedInv, HangupInv, ReleaseInv

\* Fail-close and no lease ends: a routed call owns a full credential with its
\* own access point.
THEOREM RoutedCharged == Spec => []RoutedCallIsCharged
<1>1. CASE ~FailOpen /\ "expiry" \notin FaultKinds
  <2>1. IInv /\ IInv' /\ ChargeInv /\ [Next]_vars => ChargeInv'
    <3>1. \A u \in Uuid : ~LeaseEnds(u)
      BY <1>1 DEF LeaseEnds, Fault
    <3> QED
      BY <1>1, <3>1, ChargeStep, HangupStep DEF ChargeInv, IInv
  <2>2. ChargeInv => RoutedCallIsCharged
    BY DEF ChargeInv, RoutedInv, RoutedCallIsCharged
  <2> QED
    BY <2>1, <2>2, ChargeAtFirst, Invariant, PTL DEF Spec
<1>2. CASE ~(~FailOpen /\ "expiry" \notin FaultKinds)
  <2>1. RoutedCallIsCharged
    BY <1>2 DEF RoutedCallIsCharged
  <2> QED
    BY <2>1, PTL
<1> QED
  BY <1>1, <1>2
-----------------------------------------------------------------------------
(* The credential follows the leg.  What counts is the last report of a    *)
(* call that waits in the queue: it names the leg the call is on; when     *)
(* none waits, the transfer that is under way does, else the credential.   *)

\* An event that names the leg of call u.
Reports(e, u) == e.kind = "vars" /\ e.u = u

NoReport(q, u) == \A i \in 1..Len(q) : ~Reports(q[i], u)

LastReport(q, u, g) ==
    \E i \in 1..Len(q) :
        /\ q[i] = [kind |-> "vars", u |-> u, g |-> g]
        /\ \A j \in 1..Len(q) : j > i => ~Reports(q[j], u)

Moving(w, u) == w.op = "transfer" /\ w.u = u

ToldInv == \A u \in Uuid : chan[u] \in {"new", "wait"} => ~told[u]

ReportInv ==
    \A u \in Uuid : chan[u] = "routed" /\ told[u] =>
        \/ LastReport(evq[Home[u]], u, Head(legs[u]))
        \/ /\ NoReport(evq[Home[u]], u)
           /\ IF Moving(ew[Home[u]], u) THEN ew[Home[u]].g = Head(legs[u])
                                        ELSE resv[u].g = Head(legs[u])

CalmInv == faults = 0 => redisUp /\ WaitingInv /\ RoutedInv /\ ToldInv /\ ReportInv

FollowInv == HangupInv /\ ReleaseInv /\ CalmInv

\* An event that no queue has room for is dropped, as if it were lost.
QueuesHaveRoom == \A n \in Node : Len(evq[n]) < QueueSize

LEMMA ReportAppended ==
    ASSUME NEW q \in Seq(Event), NEW e \in Event, NEW u, NEW g
    PROVE  /\ ~Reports(e, u) /\ LastReport(q, u, g) => LastReport(Append(q, e), u, g)
           /\ ~Reports(e, u) /\ NoReport(q, u) => NoReport(Append(q, e), u)
           /\ e = [kind |-> "vars", u |-> u, g |-> g] => LastReport(Append(q, e), u, g)
<1> DEFINE r == Append(q, e)
<1>1. /\ Len(q) \in Nat /\ Len(r) = Len(q) + 1 /\ r[Len(q) + 1] = e
      /\ \A i \in 1..Len(q) : i \in 1..Len(r) /\ r[i] = q[i]
      /\ \A i \in 1..Len(r) : i \in 1..Len(q) \/ i = Len(q) + 1
  OBVIOUS
<1> HIDE DEF r
<1>2. ~Reports(e, u) /\ LastReport(q, u, g) => LastReport(r, u, g)
  BY <1>1 DEF LastReport
<1>3. ~Reports(e, u) /\ NoReport(q, u) => NoReport(r, u)
  BY <1>1 DEF NoReport
<1>4. e = [kind |-> "vars", u |-> u, g |-> g] => LastReport(r, u, g)
  <2>1. Len(q) + 1 \in 1..Len(r) /\ \A j \in 1..Len(r) : ~(j > Len(q) + 1)
    BY <1>1
  <2> QED
    BY <1>1, <2>1 DEF LastReport
<1> QED
  BY <1>2, <1>3, <1>4 DEF r

LEMMA ReportTaken ==
    ASSUME NEW q \in Seq(Event), q # <<>>, NEW u, NEW g
    PROVE  /\ NoReport(q, u) => NoReport(Tail(q), u) /\ ~Reports(Head(q), u)
           /\ LastReport(q, u, g) =>
                \/ LastReport(Tail(q), u, g)
                \/ NoReport(Tail(q), u) /\ Reports(Head(q), u) /\ Head(q).g = g
<1> DEFINE r == Tail(q)
<1>1. /\ Len(q) \in Nat /\ Len(r) = Len(q) - 1 /\ Head(q) = q[1] /\ 1 \in 1..Len(q)
      /\ \A i \in 1..Len(r) : i + 1 \in 1..Len(q) /\ r[i] = q[i + 1] /\ i + 1 > 1
      /\ \A i \in 1..Len(q) : i = 1 \/ (i - 1 \in 1..Len(r) /\ r[i - 1] = q[i])
  OBVIOUS
<1> HIDE DEF r
<1>2. NoReport(q, u) => NoReport(r, u) /\ ~Reports(Head(q), u)
  BY <1>1 DEF NoReport
<1>3. ASSUME LastReport(q, u, g)
      PROVE  LastReport(r, u, g) \/ (NoReport(r, u) /\ Reports(Head(q), u) /\ Head(q).g = g)
  <2>1. PICK i \in 1..Len(q) : /\ q[i] = [kind |-> "vars", u |-> u, g |-> g]
                               /\ \A j \in 1..Len(q) : j > i => ~Reports(q[j], u)
    BY <1>3 DEF LastReport
  <2>2. CASE i = 1
    <3>1. NoReport(r, u)
      BY <1>1, <2>1, <2>2 DEF NoReport
    <3> QED
      BY <1>1, <2>1, <2>2, <3>1 DEF Reports
  <2>3. CASE i # 1
    <3>1. i - 1 \in 1..Len(r) /\ r[i - 1] = q[i]
      BY <1>1, <2>3
    <3>2. \A j \in 1..Len(r) : j > i - 1 => ~Reports(r[j], u)
      <4> SUFFICES ASSUME NEW j \in 1..Len(r), j > i - 1 PROVE ~Reports(r[j], u)
        OBVIOUS
      <4>1. j + 1 \in 1..Len(q) /\ r[j] = q[j + 1]
        BY <1>1
      <4>2. j + 1 > i
        OBVIOUS
      <4> QED
        BY <2>1, <4>1, <4>2
    <3> QED
      BY <2>1, <3>1, <3>2 DEF LastReport
  <2> QED
    BY <2>2, <2>3
<1> QED
  BY <1>2, <1>3 DEF r

\* What a report tells of is untouched when the head of the queue changes kind.
LEMMA ReportReplaced ==
    ASSUME NEW q \in Seq(Event), q # <<>>, Head(q).kind # "vars", NEW e \in Event, e.kind # "vars",
           NEW u, NEW g
    PROVE  /\ LastReport(q, u, g) => LastReport([q EXCEPT ![1] = e], u, g)
           /\ NoReport(q, u) => NoReport([q EXCEPT ![1] = e], u)
<1> DEFINE r == [q EXCEPT ![1] = e]
<1>1. Len(r) = Len(q) /\ r[1] = e /\ \A i \in 1..Len(q) : i # 1 => r[i] = q[i]
  BY ReplaceHead
<1>2. q[1].kind # "vars"
  OBVIOUS
<1> HIDE DEF r
<1>3. NoReport(q, u) => NoReport(r, u)
  BY <1>1 DEF NoReport, Reports
<1>4. LastReport(q, u, g) => LastReport(r, u, g)
  <2> SUFFICES ASSUME NEW i \in 1..Len(q), q[i] = [kind |-> "vars", u |-> u, g |-> g],
                      \A j \in 1..Len(q) : j > i => ~Reports(q[j], u)
               PROVE  LastReport(r, u, g)
    BY DEF LastReport
  <2>1. i # 1 /\ r[i] = [kind |-> "vars", u |-> u, g |-> g]
    BY <1>1, <1>2
  <2>2. \A j \in 1..Len(r) : j > i => ~Reports(r[j], u)
    BY <1>1 DEF Reports
  <2> QED
    BY <1>1, <2>1, <2>2 DEF LastReport
<1> QED
  BY <1>3, <1>4 DEF r

\* Without a fault only these steps are taken, and an event finds its queue.
LEMMA CalmStep ==
    ASSUME IInv, CalmInv, [Next]_vars, faults' = 0
    PROVE  /\ faults = 0 /\ redisUp /\ redisUp'
           /\ \A n \in Node : ~ReserveUnanswered(n)
           /\ \A u \in Uuid : ~LeaseEnds(u)
           /\ \/ UNCHANGED vars
              \/ \E n \in Node : Reserve(n) \/ Worker(n)
              \/ \E n \in Node, u \in Uuid : AnswerWithoutSlot(n, u) \/ Screen(n, u)
              \/ \E u \in Uuid : Channel(u)
<1> USE DEF store, fs
<1>1. faults \in Nat
  BY AdmissionTypes DEF IInv, TypeOK
<1>2. \A kind : ~Fault(kind)
  BY <1>1 DEF Fault
<1>3. faults = 0
  <2>1. CASE UNCHANGED vars
    BY <2>1 DEF vars
  <2>2. ASSUME NEW u \in Uuid, Channel(u) PROVE faults = 0
    BY <1>2, <2>2 DEF Channel, NewCall, ReportLeg, Failover, HangUp, Emit
  <2>3. ASSUME NEW n \in Node, Dialplan(n) \/ Worker(n) PROVE faults = 0
    BY <1>2, <2>3
       DEF Dialplan, AnswerWithoutSlot, Screen, Reserve, ReserveUnanswered,
           Worker, HandleCreate, HandleVars, HandleHangup, FinishTransfer, FinishRelease
  <2>4. CASE (\E n \in Node : FsCrash(n) \/ Restart(n)) \/ RedisDown \/ RedisBack
             \/ \E u \in Uuid : LeaseEnds(u)
    BY <1>2, <2>4 DEF FsCrash, Restart, RedisDown, RedisBack, LeaseEnds
  <2> QED
    BY <2>1, <2>2, <2>3, <2>4 DEF Next, Step
<1>4. redisUp
  BY <1>3 DEF CalmInv
<1>5. ~RedisDown /\ ~RedisBack /\ \A n \in Node : ~ReserveUnanswered(n) /\ ~FsCrash(n) /\ ~Restart(n)
  BY <1>2, <1>4 DEF RedisDown, RedisBack, ReserveUnanswered, FsCrash, Restart
<1>6. \A u \in Uuid : ~LeaseEnds(u)
  BY <1>2 DEF LeaseEnds
<1>7. \/ UNCHANGED vars
      \/ \E n \in Node : Reserve(n) \/ Worker(n)
      \/ \E n \in Node, u \in Uuid : AnswerWithoutSlot(n, u) \/ Screen(n, u)
      \/ \E u \in Uuid : Channel(u)
  BY <1>5, <1>6 DEF Next, Step, Dialplan
<1>8. redisUp' = redisUp
  BY <1>7 DEF vars, Reserve, Worker, HandleCreate, HandleVars, HandleHangup, FinishTransfer,
              FinishRelease, AnswerWithoutSlot, Screen, Channel, NewCall, ReportLeg, Failover, HangUp
<1> QED
  BY <1>3, <1>4, <1>5, <1>6, <1>7, <1>8

\* What ReportInv says of one call, in the next state.
ReportedNext(v) ==
    chan'[v] = "routed" /\ told'[v] =>
        \/ LastReport(evq'[Home[v]], v, Head(legs'[v]))
        \/ /\ NoReport(evq'[Home[v]], v)
           /\ IF Moving(ew'[Home[v]], v) THEN ew'[Home[v]].g = Head(legs'[v])
                                         ELSE resv'[v].g = Head(legs'[v])

\* An event of another call, or one that reports nothing, leaves the last report.
LEMMA ReportKept ==
    ASSUME TypeOK, ReportInv, NEW v \in Uuid,
           chan'[v] = "routed" => chan[v] = "routed", told'[v] => told[v], legs'[v] = legs[v],
           ew'[Home[v]] = ew[Home[v]], resv'[v] = resv[v],
           \/ evq'[Home[v]] = evq[Home[v]]
           \/ \E e \in Event : ~Reports(e, v) /\ evq'[Home[v]] = Append(evq[Home[v]], e)
    PROVE  ReportedNext(v)
<1>1. evq[Home[v]] \in Seq(Event)
  BY AdmissionTypes DEF TypeOK
<1> SUFFICES ASSUME chan'[v] = "routed", told'[v] PROVE ReportedNext(v)
  BY DEF ReportedNext
<1>2. \/ LastReport(evq[Home[v]], v, Head(legs[v]))
      \/ /\ NoReport(evq[Home[v]], v)
         /\ IF Moving(ew[Home[v]], v) THEN ew[Home[v]].g = Head(legs[v])
                                      ELSE resv[v].g = Head(legs[v])
  BY DEF ReportInv
<1>3. /\ LastReport(evq[Home[v]], v, Head(legs[v])) => LastReport(evq'[Home[v]], v, Head(legs[v]))
      /\ NoReport(evq[Home[v]], v) => NoReport(evq'[Home[v]], v)
  BY <1>1, ReportAppended
<1> QED
  BY <1>2, <1>3 DEF ReportedNext

LEMMA ChannelReports ==
    ASSUME IInv, CalmInv, QueuesHaveRoom, faults = 0, faults' = 0, NEW v \in Uuid,
           NEW u \in Uuid, Channel(u)
    PROVE  ReportedNext(v)
<1> USE DEF store, fs
<1>1. /\ chan \in [Uuid -> ChanState] /\ told \in [Uuid -> BOOLEAN] /\ legs \in [Uuid -> Seq(Gw)]
      /\ evq \in [Node -> Seq(Event)] /\ Home[v] \in Node /\ Home[u] \in Node
      /\ TypeOK /\ ReportInv /\ LegsInv
  BY AdmissionTypes DEF IInv, TypeOK, CalmInv, ControlInv
<1>2. ew' = ew /\ resv' = resv
  BY DEF Channel, NewCall, ReportLeg, Failover, HangUp
<1>3. ASSUME NEW e \in Event, e.u = u, Emit(e)
      PROVE  evq' = [evq EXCEPT ![Home[u]] = Append(evq[Home[u]], e)]
  BY <1>1, <1>3 DEF Emit, Fault, QueuesHaveRoom
<1>4. ASSUME NEW e \in Event, e.u = u, Emit(e), ~Reports(e, v)
      PROVE  \/ evq'[Home[v]] = evq[Home[v]]
             \/ \E d \in Event : ~Reports(d, v) /\ evq'[Home[v]] = Append(evq[Home[v]], d)
  <2>1. evq' = [evq EXCEPT ![Home[u]] = Append(evq[Home[u]], e)]
    BY <1>3, <1>4
  <2>2. CASE Home[v] = Home[u]
    <3>1. evq'[Home[v]] = Append(evq[Home[v]], e)
      BY <1>1, <2>1, <2>2
    <3> QED
      BY <3>1, <1>4
  <2>3. CASE Home[v] # Home[u]
    BY <1>1, <2>1, <2>3
  <2> QED
    BY <2>2, <2>3
<1>5. CASE NewCall(u)
  <2> DEFINE e == [kind |-> "create", u |-> u, g |-> NoGw]
  <2>1. e \in Event /\ ~Reports(e, v) /\ e.u = u
    BY DEF Event, Reports
  <2>2. Emit(e) /\ chan' = [chan EXCEPT ![u] = "wait"] /\ told' = told /\ legs' = legs
    BY <1>5 DEF NewCall
  <2>3. chan'[v] = "routed" => chan[v] = "routed"
    BY <1>1, <2>2
  <2> HIDE DEF e
  <2> QED
    BY <1>1, <1>2, <1>4, <2>1, <2>2, <2>3, ReportKept
<1>6. CASE ReportLeg(u)
  <2> DEFINE e == [kind |-> "vars", u |-> u, g |-> Head(legs[u])]
  <2>1. /\ Emit(e) /\ chan[u] = "routed" /\ chan' = chan /\ told' = [told EXCEPT ![u] = TRUE]
        /\ legs' = legs
    BY <1>6 DEF ReportLeg
  <2>2. Head(legs[u]) \in Gw
    BY <1>1, <2>1 DEF LegsInv
  <2>3. e \in Event /\ e.u = u /\ (v # u => ~Reports(e, v))
    BY <2>2 DEF Event, Reports
  <2>4. CASE v = u
    <3>1. evq'[Home[v]] = Append(evq[Home[v]], e)
      BY <1>1, <1>3, <2>1, <2>3, <2>4
    <3>2. LastReport(Append(evq[Home[v]], e), v, Head(legs[v]))
      BY <1>1, <2>3, <2>4, ReportAppended
    <3> QED
      BY <2>1, <3>1, <3>2 DEF ReportedNext
  <2>5. CASE v # u
    <3>1. told'[v] = told[v]
      BY <1>1, <2>1, <2>5
    <3> HIDE DEF e
    <3> QED
      BY <1>1, <1>2, <1>4, <2>1, <2>3, <2>5, <3>1, ReportKept
  <2> QED
    BY <2>4, <2>5
<1>7. CASE Failover(u)
  <2>1. /\ chan' = chan /\ evq' = evq /\ told' = [told EXCEPT ![u] = FALSE]
        /\ legs' = [legs EXCEPT ![u] = Tail(legs[u])]
    BY <1>7 DEF Failover
  <2>2. CASE v = u
    <3>1. told'[v] = FALSE
      BY <1>1, <2>1, <2>2
    <3> QED
      BY <3>1 DEF ReportedNext
  <2>3. CASE v # u
    <3>1. told'[v] = told[v] /\ legs'[v] = legs[v]
      BY <1>1, <2>1, <2>3
    <3> QED
      BY <1>1, <1>2, <2>1, <3>1, ReportKept
  <2> QED
    BY <2>2, <2>3
<1>8. CASE HangUp(u)
  <2>1. chan' = [chan EXCEPT ![u] = "gone"] /\ told' = told /\ legs' = legs
    BY <1>8 DEF HangUp
  <2>2. chan'[v] = "routed" => chan[v] = "routed"
    BY <1>1, <2>1
  <2>3. chan[u] = "routed" => Head(legs[u]) \in Gw
    BY <1>1 DEF LegsInv
  <2>4. \E e \in Event : e.u = u /\ e.kind # "vars" /\ Emit(e)
    BY <1>8, <2>3 DEF HangUp, Event
  <2>5. \/ evq'[Home[v]] = evq[Home[v]]
        \/ \E d \in Event : ~Reports(d, v) /\ evq'[Home[v]] = Append(evq[Home[v]], d)
    BY <1>4, <2>4 DEF Reports
  <2> QED
    BY <1>1, <1>2, <2>1, <2>2, <2>5, ReportKept
<1> QED
  BY <1>5, <1>6, <1>7, <1>8 DEF Channel

\* The worker takes a report and starts the transfer it asks for, or finishes it.
LEMMA WorkerReports ==
    ASSUME IInv, HangupInv, ReleaseInv, CalmInv, faults = 0, NEW v \in Uuid, NEW n \in Node, Worker(n)
    PROVE  ReportedNext(v)
<1> USE DEF store, fs
<1> DEFINE m == Home[v]
           q == evq[m]
           g == Head(legs[v])
<1>1. /\ evq \in [Node -> Seq(Event)] /\ ew \in [Node -> Work] /\ resv \in [Uuid -> Credential]
      /\ legs \in [Uuid -> Seq(Gw)] /\ m \in Node /\ q \in Seq(Event)
      /\ TypeOK /\ ReportInv /\ RoutedInv /\ LegsInv /\ WorkerInv /\ redisUp
  BY AdmissionTypes DEF IInv, TypeOK, StoreTypeOK, CalmInv, ControlInv
<1>2. chan' = chan /\ told' = told /\ legs' = legs
  BY DEF Worker, HandleCreate, HandleVars, HandleHangup, FinishTransfer, FinishRelease
<1> SUFFICES ASSUME chan[v] = "routed", told[v] PROVE ReportedNext(v)
  BY <1>2 DEF ReportedNext
<1>3. resv[v] \in Full /\ g \in Gw
  BY <1>1 DEF RoutedInv, LegsInv
<1>4. \/ LastReport(q, v, g)
      \/ NoReport(q, v) /\ IF Moving(ew[m], v) THEN ew[m].g = g ELSE resv[v].g = g
  BY <1>1 DEF ReportInv
<1>5. resv[v] # Absent /\ resv[v] # Ensured /\ g # NoGw
  BY <1>3, KeysDistinct DEF Full, Absent, Ensured
<1> HIDE DEF m, q, g
\* Only the worker of its node moves the call's report or its transfer.
<1>6. ASSUME resv'[v] = resv[v], evq'[m] = q, ew'[m] = ew[m] PROVE ReportedNext(v)
  BY <1>2, <1>4, <1>6 DEF ReportedNext, m, g
<1>7. ASSUME resv'[v] = resv[v], q # <<>>, evq'[m] = Tail(q), ~Reports(Head(q), v),
             ~Moving(ew[m], v), ~Moving(ew'[m], v)
      PROVE  ReportedNext(v)
  <2>1. LastReport(q, v, g) => LastReport(Tail(q), v, g)
    BY <1>1, <1>7, ReportTaken
  <2>2. NoReport(q, v) => NoReport(Tail(q), v)
    BY <1>1, <1>7, ReportTaken
  <2> QED
    BY <1>2, <1>4, <1>7, <2>1, <2>2 DEF ReportedNext, m, g
<1>8. ~Moving(Resting, v)
  BY DEF Moving, Resting
<1>9. CASE HandleCreate(n)
  <2>1. /\ ew[n] = Resting /\ evq[n] # <<>> /\ Head(evq[n]).kind = "create" /\ ew' = ew
        /\ evq' = [evq EXCEPT ![n] = Tail(evq[n])]
        /\ EnsureEval(Head(evq[n]).u)
    BY <1>1, <1>9 DEF HandleCreate, Idle, Dequeue
  <2>2. resv'[v] = resv[v]
    BY <1>1, <1>5, <2>1 DEF EnsureEval
  <2>3. CASE n = m
    <3>1. evq'[m] = Tail(q) /\ q # <<>> /\ ~Reports(Head(q), v)
      BY <1>1, <2>1, <2>3 DEF Reports, q
    <3> QED
      BY <1>7, <1>8, <2>1, <2>2, <2>3, <3>1
  <2>4. CASE n # m
    <3>1. evq'[m] = q
      BY <1>1, <2>1, <2>4 DEF q
    <3> QED
      BY <1>6, <2>1, <2>2, <3>1
  <2> QED
    BY <2>3, <2>4
<1>10. CASE HandleHangup(n)
  <2>1. /\ ew[n] = Resting /\ evq[n] # <<>> /\ Head(evq[n]).kind = "bare"
        /\ resv' = resv /\ evq' = [evq EXCEPT ![n] = Tail(evq[n])]
        /\ ew' = ew \/ \E w : w.op = "release" /\ ew' = [ew EXCEPT ![n] = w]
    BY <1>10 DEF HandleHangup, Idle, Dequeue
  <2>2. CASE n = m
    <3>1. evq'[m] = Tail(q) /\ q # <<>> /\ ~Reports(Head(q), v)
      BY <1>1, <2>1, <2>2 DEF Reports, q
    <3>2. ~Moving(ew[m], v) /\ ~Moving(ew'[m], v)
      BY <1>1, <1>8, <2>1, <2>2 DEF Moving
    <3> QED
      BY <1>7, <2>1, <3>1, <3>2
  <2>3. CASE n # m
    <3>1. evq'[m] = q /\ ew'[m] = ew[m]
      BY <1>1, <2>1, <2>3 DEF q
    <3> QED
      BY <1>6, <2>1, <3>1
  <2> QED
    BY <2>2, <2>3
<1>11. CASE HandleVars(n)
  <2> DEFINE e == Head(evq[n])
             w == [op |-> "transfer", u |-> e.u, p |-> resv[e.u], g |-> e.g]
             b == [kind |-> "bare", u |-> e.u, g |-> NoGw]
  <2>1. /\ ew[n] = Resting /\ evq[n] # <<>> /\ e.kind \in {"vars", "hangup"} /\ resv' = resv
        /\ ew' = IF e.g # NoGw /\ resv[e.u] # Absent /\ resv[e.u].g # e.g
                 THEN [ew EXCEPT ![n] = w] ELSE ew
        /\ evq' = IF e.kind = "vars" THEN [evq EXCEPT ![n] = Tail(evq[n])]
                                     ELSE [evq EXCEPT ![n][1] = b]
    BY <1>1, <1>11 DEF HandleVars, Idle, Dequeue
  <2>2. evq[n] \in Seq(Event) /\ e \in Event /\ e = evq[n][1] /\ 1 \in 1..Len(evq[n]) /\ e.u \in Uuid
    BY <1>1, <2>1, HeadEvent
  <2>3. w.op = "transfer" /\ w.u = e.u /\ w.g = e.g
    OBVIOUS
  <2> HIDE DEF w
  <2>4. CASE n # m
    <3>1. evq'[m] = q /\ ew'[m] = ew[m]
      BY <1>1, <2>1, <2>4 DEF q
    <3> QED
      BY <1>6, <2>1, <3>1
  <2>5. CASE n = m /\ e.u # v /\ e.kind = "vars"
    <3>1. evq'[m] = Tail(q) /\ q # <<>> /\ ~Reports(Head(q), v)
      BY <1>1, <2>1, <2>5 DEF Reports, q
    <3>2. ~Moving(ew[m], v) /\ ~Moving(ew'[m], v)
      BY <1>1, <1>8, <2>1, <2>3, <2>5 DEF Moving
    <3> QED
      BY <1>7, <2>1, <3>1, <3>2
  <2>6. CASE n = m /\ e.kind = "hangup"
    <3>1. chan[e.u] = "gone"
      BY <2>2, <2>6 DEF HangupInv
    <3>2. e.u # v
      BY <3>1
    <3>3. ~Moving(ew[m], v) /\ ~Moving(ew'[m], v)
      BY <1>1, <1>8, <2>1, <2>3, <2>6, <3>2 DEF Moving
    <3>4. b \in Event /\ b.kind # "vars"
      BY <2>2 DEF Event
    <3>5. evq'[m] = [q EXCEPT ![1] = b] /\ q # <<>> /\ Head(q).kind # "vars"
      BY <1>1, <2>1, <2>6 DEF q
    <3> HIDE DEF b
    <3>6. /\ LastReport(q, v, g) => LastReport([q EXCEPT ![1] = b], v, g)
          /\ NoReport(q, v) => NoReport([q EXCEPT ![1] = b], v)
      BY <1>1, <3>4, <3>5, ReportReplaced
    <3> QED
      BY <1>2, <1>4, <2>1, <3>3, <3>5, <3>6 DEF ReportedNext, m, g
  <2>7. CASE n = m /\ e.u = v /\ e.kind = "vars"
    <3>1. evq'[m] = Tail(q) /\ q # <<>> /\ Reports(Head(q), v) /\ e = Head(q)
      BY <1>1, <2>1, <2>7 DEF Reports, q
    <3>2. LastReport(q, v, g)
      BY <1>1, <1>4, <3>1, ReportTaken
    <3>3. LastReport(Tail(q), v, g) \/ (NoReport(Tail(q), v) /\ e.g = g)
      BY <1>1, <3>1, <3>2, ReportTaken
    <3>4. CASE LastReport(Tail(q), v, g)
      BY <1>2, <3>1, <3>4 DEF ReportedNext, m, g
    <3>5. CASE NoReport(Tail(q), v) /\ e.g = g
      <4>1. CASE resv[v].g = g
        <5>1. ew' = ew
          BY <2>1, <2>7, <3>5, <4>1
        <5>2. ~Moving(ew'[m], v)
          BY <1>8, <2>1, <2>7, <5>1
        <5> QED
          BY <1>2, <2>1, <3>1, <3>5, <4>1, <5>2 DEF ReportedNext, m, g
      <4>2. CASE resv[v].g # g
        <5>1. ew' = [ew EXCEPT ![n] = w]
          BY <1>5, <2>1, <2>7, <3>5, <4>2
        <5>2. ew'[m] = w
          BY <1>1, <2>7, <5>1
        <5>3. Moving(ew'[m], v) /\ ew'[m].g = g
          BY <2>3, <2>7, <3>5, <5>2 DEF Moving
        <5> QED
          BY <1>2, <3>1, <3>5, <5>3 DEF ReportedNext, m, g
      <4> QED
        BY <4>1, <4>2
    <3> QED
      BY <3>3, <3>4, <3>5
  <2> QED
    BY <2>1, <2>4, <2>5, <2>6, <2>7
<1>12. CASE FinishTransfer(n) \/ FinishRelease(n)
  <2>1. ew[n] # Resting /\ ew' = [ew EXCEPT ![n] = Resting] /\ evq' = evq
    BY <1>12 DEF FinishTransfer, FinishRelease, Resting
  <2>2. ew[n].u \in Uuid /\ Home[ew[n].u] = n /\ resv[ew[n].u] \in {Absent, ew[n].p}
    BY <1>1, <2>1, Tokens DEF WorkerInv
  <2>3. CASE ew[n].u # v
    <3>1. resv'[v] = resv[v]
      BY <1>1, <1>12, <2>2, <2>3 DEF FinishTransfer, FinishRelease, TransferEval, ReleaseEval
    <3>2. evq'[m] = q
      BY <2>1 DEF q
    <3>3. CASE n # m
      <4>1. ew'[m] = ew[m]
        BY <1>1, <2>1, <3>3
      <4> QED
        BY <1>6, <3>1, <3>2, <4>1
    <3>4. CASE n = m
      <4>1. ~Moving(ew[m], v) /\ ~Moving(ew'[m], v)
        BY <1>1, <1>8, <2>1, <2>3, <3>4 DEF Moving
      <4> QED
        BY <1>2, <1>4, <3>1, <3>2, <4>1 DEF ReportedNext, m, g
    <3> QED
      BY <3>3, <3>4
  <2>4. CASE ew[n].u = v
    <3>1. FinishTransfer(n) /\ n = m
      BY <1>12, <2>1, <2>2, <2>4 DEF ReleaseInv, FinishRelease, m
    <3>2. Moving(ew[m], v)
      BY <2>4, <3>1 DEF Moving, FinishTransfer
    <3>3. TransferEval(v, ew[n].p, ew[n].g)
      BY <1>1, <2>4, <3>1 DEF FinishTransfer
    <3>4. resv'[v] = Moved(ew[n].g, ew[n].p.a)
      BY <1>1, <1>5, <3>3 DEF TransferEval
    <3>5. resv'[v].g = ew[m].g
      BY <3>1, <3>4 DEF Moved
    <3>6. ~Moving(ew'[m], v) /\ evq'[m] = q
      BY <1>1, <1>8, <2>1, <3>1 DEF q
    <3> QED
      BY <1>2, <1>4, <3>2, <3>5, <3>6 DEF ReportedNext, m, g
  <2> QED
    BY <2>3, <2>4
<1> QED
  BY <1>9, <1>10, <1>11, <1>12 DEF Worker

\* Without a fault a step keeps every call's last report.
LEMMA ReportStep ==
    ASSUME IInv, HangupInv, ReleaseInv, CalmInv, QueuesHaveRoom, [Next]_vars, faults' = 0
    PROVE  ToldInv' /\ ReportInv'
<1> USE DEF store, fs
<1>1. faults = 0 /\ TypeOK /\ ToldInv /\ ReportInv /\ HandlerInv
  BY CalmStep DEF CalmInv, IInv, ControlInv
<1>2. /\ chan \in [Uuid -> ChanState] /\ told \in [Uuid -> BOOLEAN]
      /\ legs \in [Uuid -> Seq(Gw)] /\ resv \in [Uuid -> Credential] /\ ApOf \in [Uuid -> Ap \cup {NoAp}]
      /\ Home \in [Uuid -> Node] /\ dp \in [Node -> Attempt \cup {NoCall}]
  BY <1>1, AdmissionTypes DEF TypeOK, StoreTypeOK
<1> SUFFICES ASSUME NEW v \in Uuid
             PROVE  (chan'[v] \in {"new", "wait"} => ~told'[v]) /\ ReportedNext(v)
  BY DEF ToldInv, ReportInv, ReportedNext
<1> DEFINE Goal == (chan'[v] \in {"new", "wait"} => ~told'[v]) /\ ReportedNext(v)
<1>3. CASE UNCHANGED vars
  <2>1. ReportedNext(v)
    BY <1>1, <1>3, ReportKept DEF vars
  <2>2. chan' = chan /\ told' = told
    BY <1>3 DEF vars
  <2> QED
    BY <1>1, <2>1, <2>2 DEF ToldInv
<1>4. ASSUME NEW u \in Uuid, Channel(u) PROVE Goal
  <2>1. ReportedNext(v)
    BY <1>1, <1>4, ChannelReports
  <2>2. \/ chan' = chan /\ told' = told
        \/ chan[u] = "new" /\ chan' = [chan EXCEPT ![u] = "wait"] /\ told' = told
        \/ chan' = [chan EXCEPT ![u] = "gone"] /\ told' = told
        \/ chan[u] = "routed" /\ chan' = chan /\ \E t : told' = [told EXCEPT ![u] = t]
    BY <1>4 DEF Channel, NewCall, ReportLeg, Failover, HangUp
  <2>3. chan'[v] \in {"new", "wait"} => ~told'[v]
    BY <1>1, <1>2, <2>2 DEF ToldInv
  <2> QED
    BY <2>1, <2>3
<1>5. ASSUME NEW n \in Node, Worker(n) PROVE Goal
  <2>1. chan' = chan /\ told' = told
    BY <1>5 DEF Worker, HandleCreate, HandleVars, HandleHangup, FinishTransfer, FinishRelease
  <2>2. ReportedNext(v)
    BY <1>1, <1>5, WorkerReports
  <2> QED
    BY <1>1, <2>1, <2>2 DEF ToldInv
<1>6. ASSUME NEW n \in Node, NEW u \in Uuid, AnswerWithoutSlot(n, u) \/ Screen(n, u) PROVE Goal
  <2>1. told' = told /\ legs' = legs /\ evq' = evq /\ ew' = ew /\ resv' = resv
    BY <1>6 DEF AnswerWithoutSlot, Screen
  <2>2. UNCHANGED chan \/ \E state : state # "routed" /\ state \in ChanState \ {"new", "wait"}
                                     /\ Respond(u, state)
    BY <1>6 DEF AnswerWithoutSlot, Screen, Precheck, ChanState, Refused, InCall
  <2>3. chan'[v] = chan[v] \/ chan'[v] \notin {"new", "wait", "routed"}
    BY <1>1, <2>2, RespondChannel
  <2>4. ReportedNext(v)
    BY <1>1, <2>1, <2>3, ReportKept
  <2> QED
    BY <1>1, <2>1, <2>3, <2>4 DEF ToldInv
<1>7. ASSUME NEW n \in Node, Reserve(n) PROVE Goal
  <2> DEFINE u == dp[n].u
  <2>1. dp[n] # NoCall /\ told' = told /\ evq' = evq /\ ew' = ew
    BY <1>7 DEF Reserve
  <2>2. u \in Uuid /\ chan[u] \in {"wait", "gone"}
    BY <1>1, <1>2, <2>1, Tokens DEF HandlerInv
  <2>3. UNCHANGED legs \/ \E s : legs' = [legs EXCEPT ![u] = s]
    BY <1>7 DEF Reserve, Route, Refuse, TryNext
  <2>4. UNCHANGED resv \/ \E c : resv' = [resv EXCEPT ![u] = c]
    BY <1>7 DEF Reserve, ReserveEval
  <2>5. UNCHANGED chan \/ \E state \in {"routed"} \cup Refused : Respond(u, state)
    BY <1>7 DEF Reserve, Route, TryNext, Refuse, Refused
  <2> HIDE DEF u
  <2>6. CASE v = u
    <3>1. chan[v] = "wait" => ~told'[v]
      BY <1>1, <2>1, <2>2, <2>6 DEF ToldInv
    <3>2. chan[v] # "wait" => chan'[v] = "gone"
      BY <1>1, <2>2, <2>5, <2>6, RespondChannel
    <3> QED
      BY <2>2, <2>6, <3>1, <3>2 DEF ReportedNext
  <2>7. CASE v # u
    <3>1. chan'[v] = chan[v]
      BY <1>1, <2>2, <2>5, <2>7, RespondChannel
    <3>2. legs'[v] = legs[v] /\ resv'[v] = resv[v]
      BY <1>2, <2>3, <2>4, <2>7
    <3>3. ReportedNext(v)
      BY <1>1, <2>1, <3>1, <3>2, ReportKept
    <3> QED
      BY <1>1, <2>1, <3>1, <3>3 DEF ToldInv
  <2> QED
    BY <2>6, <2>7
<1> QED
  BY <1>3, <1>4, <1>5, <1>6, <1>7, CalmStep

LEMMA FollowStep ==
    ASSUME IInv, TypeOK', FollowInv, QueuesHaveRoom, [Next]_vars
    PROVE  FollowInv'
<1>1. HangupInv' /\ ReleaseInv'
  BY HangupStep DEF FollowInv
<1>2. ASSUME faults' = 0 PROVE redisUp' /\ WaitingInv' /\ RoutedInv' /\ ToldInv' /\ ReportInv'
  <2>1. /\ faults = 0 /\ redisUp' /\ \A n \in Node : ~ReserveUnanswered(n)
        /\ \A u \in Uuid : ~LeaseEnds(u)
    BY <1>2, CalmStep DEF FollowInv
  <2>2. ChargeInv
    BY <2>1 DEF FollowInv, CalmInv, ChargeInv
  <2>3. WaitingInv' /\ RoutedInv'
    BY <2>1, <2>2, ChargeStep
  <2> QED
    BY <1>2, <2>1, <2>3, ReportStep DEF FollowInv
<1> QED
  BY <1>1, <1>2 DEF FollowInv, CalmInv

LEMMA FollowAtFirst == ASSUME Init PROVE FollowInv
<1>1. chan = [u \in Uuid |-> "new"] /\ told = [u \in Uuid |-> FALSE] /\ redisUp
  BY DEF Init
<1>2. ToldInv /\ ReportInv
  BY <1>1 DEF ToldInv, ReportInv
<1> QED
  BY <1>1, <1>2, ChargeAtFirst DEF FollowInv, CalmInv, ChargeInv

\* While nothing fails and no queue is full, a failover that was reported cannot leave
\* the call charged to a gateway it has left: the last report that waits, the transfer
\* under way or the credential names the leg the call is on.
THEOREM CredentialFollows == Spec /\ []QueuesHaveRoom => []CredentialFollowsLeg
<1>1. Init => FollowInv
  BY FollowAtFirst
<1>2. IInv /\ IInv' /\ FollowInv /\ QueuesHaveRoom /\ [Next]_vars => FollowInv'
  BY FollowStep DEF IInv
<1>3. IInv /\ FollowInv => CredentialFollowsLeg
  <2> SUFFICES ASSUME IInv, FollowInv, faults = 0, NEW u \in Uuid, chan[u] = "routed", told[u]
               PROVE  LET g == Head(legs[u])
                          n == Home[u]
                      IN  \/ resv[u].g = g
                          \/ \E i \in DOMAIN evq[n] : evq[n][i] = [kind |-> "vars", u |-> u, g |-> g]
                          \/ ew[n].op = "transfer" /\ ew[n].u = u /\ ew[n].g = g
    BY DEF CredentialFollowsLeg
  <2>1. \/ LastReport(evq[Home[u]], u, Head(legs[u]))
        \/ IF Moving(ew[Home[u]], u) THEN ew[Home[u]].g = Head(legs[u])
                                     ELSE resv[u].g = Head(legs[u])
    BY DEF FollowInv, CalmInv, ReportInv
  <2>2. evq[Home[u]] \in Seq(Event)
    BY AdmissionTypes DEF IInv, TypeOK
  <2>3. DOMAIN evq[Home[u]] = 1..Len(evq[Home[u]])
    BY <2>2
  <2> QED
    BY <2>1, <2>3 DEF LastReport, Moving
<1> QED
  BY <1>1, <1>2, <1>3, Invariant, PTL DEF Spec
=============================================================================
