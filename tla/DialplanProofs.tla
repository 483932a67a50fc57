---------------------------- MODULE DialplanProofs ----------------------------
(***************************************************************************)
(* The legs of a call, and the cache of documents that calls share, for    *)
(* any calls, documents, causes and capacities; the route that a call gets *)
(* from any tables; the rules that change and refuse numbers.              *)
(***************************************************************************)
EXTENDS Dialplan, Integers, Sequences, FiniteSetTheorems, WellFoundedInduction, TLAPS

-----------------------------------------------------------------------------
(* Least recently used entries. *)

\* s without its i-th element.
Dropped(s, i) == SubSeq(s, 1, i - 1) \o SubSeq(s, i + 1, Len(s))

\* Every call has one entry.
Single(s) == \A i, j \in 1 .. Len(s) : s[i].call = s[j].call => i = j

\* t is s with e as the most recent entry of its call.
MovedToEnd(s, t, e) ==
    \/ t = Append(s, e) /\ \A i \in 1 .. Len(s) : s[i].call # e.call
    \/ \E i \in 1 .. Len(s) : s[i].call = e.call /\ t = Append(Dropped(s, i), e)

\* All but the last element of t are elements of s, of other calls.
OfOthers(s, t, e) ==
    \A j \in 1 .. Len(t) - 1 : \E h \in 1 .. Len(s) : s[h].call # e.call /\ t[j] = s[h]

\* What s has of other calls is in t, and only what was behind it in s and the last
\* element of t are behind it.
Keeps(s, t, e) ==
    \A h \in 1 .. Len(s) : s[h].call # e.call => \E j \in 1 .. Len(t) - 1 :
        /\ t[j] = s[h]
        /\ \A k \in 1 .. Len(t) : k > j => k = Len(t) \/ \E l \in 1 .. Len(s) : l > h /\ t[k] = s[l]

LEMMA DroppedIs ==
    ASSUME NEW S, NEW s \in Seq(S), NEW i \in 1 .. Len(s)
    PROVE  /\ Dropped(s, i) \in Seq(S) /\ Len(Dropped(s, i)) = Len(s) - 1
           /\ \A j \in 1 .. Len(s) - 1 : Dropped(s, i)[j] = IF j < i THEN s[j] ELSE s[j + 1]
<1> DEFINE a == SubSeq(s, 1, i - 1)
<1> DEFINE b == SubSeq(s, i + 1, Len(s))
<1>1. a \in Seq(S) /\ Len(a) = i - 1 /\ \A j \in 1 .. i - 1 : a[j] = s[j]
    OBVIOUS
<1>2. b \in Seq(S) /\ Len(b) = Len(s) - i /\ \A j \in 1 .. Len(s) - i : b[j] = s[j + i]
    OBVIOUS
<1>3. Dropped(s, i) = a \o b
    BY DEF Dropped
<1> HIDE DEF a, b
<1>4. a \o b \in Seq(S) /\ Len(a \o b) = Len(s) - 1
    <2>1. a \in Seq(S) /\ b \in Seq(S)
        BY <1>1, <1>2
    <2>2. a \o b \in Seq(S) /\ Len(a \o b) = Len(a) + Len(b)
        BY ONLY <2>1
    <2> QED
        BY <1>1, <1>2, <2>2
<1>5. \A j \in 1 .. Len(s) - 1 : (a \o b)[j] = IF j < i THEN a[j] ELSE b[j - i + 1]
    BY <1>1, <1>2
<1>6. \A j \in 1 .. Len(s) - 1 : j >= i => j - i + 1 \in 1 .. Len(s) - i
    OBVIOUS
<1>7. \A j \in 1 .. Len(s) - 1 : j >= i => b[j - i + 1] = s[j + 1]
    <2> SUFFICES ASSUME NEW j \in 1 .. Len(s) - 1, j >= i PROVE b[j - i + 1] = s[j + 1]
        OBVIOUS
    <2>1. PICK m \in 1 .. Len(s) - i : m = j - i + 1
        BY <1>6
    <2>2. m + i = j + 1
        BY <2>1
    <2> QED
        BY <1>2, <2>1, <2>2
<1>8. \A j \in 1 .. Len(s) - 1 : j < i => a[j] = s[j]
    BY <1>1
<1> QED
    BY <1>3, <1>4, <1>5, <1>7, <1>8

\* The entries of other calls keep their order and go before the new one.
LEMMA MovedIs ==
    ASSUME NEW S, NEW s \in Seq(S), NEW e \in S, NEW t, Single(s), MovedToEnd(s, t, e)
    PROVE  /\ t \in Seq(S) /\ Len(t) \in 1 .. Len(s) + 1 /\ t[Len(t)] = e /\ Single(t)
           /\ (\E i \in 1 .. Len(s) : s[i].call = e.call) => Len(t) = Len(s)
           /\ OfOthers(s, t, e) /\ Keeps(s, t, e)
<1>1. CASE t = Append(s, e) /\ \A i \in 1 .. Len(s) : s[i].call # e.call
    <2>1. t \in Seq(S) /\ Len(t) = Len(s) + 1 /\ t[Len(s) + 1] = e /\ \A j \in 1 .. Len(s) : t[j] = s[j]
        BY <1>1
    <2>2. Single(t)
        BY <1>1, <2>1 DEF Single
    <2>3. OfOthers(s, t, e)
        BY <1>1, <2>1 DEF OfOthers
    <2>4. Keeps(s, t, e)
        BY <1>1, <2>1 DEF Keeps
    <2> QED
        BY <1>1, <2>1, <2>2, <2>3, <2>4
<1>2. CASE \E i \in 1 .. Len(s) : s[i].call = e.call /\ t = Append(Dropped(s, i), e)
    <2>1. PICK i \in 1 .. Len(s) : s[i].call = e.call /\ t = Append(Dropped(s, i), e)
        BY <1>2
    <2>2. /\ Dropped(s, i) \in Seq(S) /\ Len(Dropped(s, i)) = Len(s) - 1
          /\ \A j \in 1 .. Len(s) - 1 : Dropped(s, i)[j] = IF j < i THEN s[j] ELSE s[j + 1]
        BY DroppedIs
    <2>3. /\ t \in Seq(S) /\ Len(t) = Len(s) /\ t[Len(s)] = e
          /\ \A j \in 1 .. Len(s) - 1 : t[j] = IF j < i THEN s[j] ELSE s[j + 1]
        BY <2>1, <2>2
    <2>4. \A h \in 1 .. Len(s) : h # i <=> s[h].call # e.call
        BY <2>1 DEF Single
    <2>5. Single(t)
        <3> SUFFICES ASSUME NEW j \in 1 .. Len(s), NEW k \in 1 .. Len(s), t[j].call = t[k].call PROVE j = k
            BY <2>3 DEF Single
        <3> DEFINE from(m) == IF m < i THEN m ELSE m + 1
        <3>1. \A m \in 1 .. Len(s) - 1 : from(m) \in 1 .. Len(s) /\ from(m) # i /\ t[m] = s[from(m)]
            BY <2>3
        <3>2. \A m \in 1 .. Len(s) : m = Len(s) \/ m \in 1 .. Len(s) - 1
            OBVIOUS
        <3>3. CASE j = Len(s) /\ k # Len(s)
            BY <2>3, <2>4, <3>1, <3>2, <3>3
        <3>4. CASE j # Len(s) /\ k = Len(s)
            BY <2>3, <2>4, <3>1, <3>2, <3>4
        <3>5. CASE j # Len(s) /\ k # Len(s)
            <4>1. from(j) = from(k)
                BY <3>1, <3>2, <3>5 DEF Single
            <4> QED
                BY <4>1
        <3> QED
            BY <3>3, <3>4, <3>5
    <2>6. OfOthers(s, t, e)
        <3> SUFFICES ASSUME NEW j \in 1 .. Len(s) - 1
                     PROVE  \E h \in 1 .. Len(s) : s[h].call # e.call /\ t[j] = s[h]
            BY <2>3 DEF OfOthers
        <3>1. CASE j < i
            BY <2>3, <2>4, <3>1
        <3>2. CASE j >= i
            <4>1. j + 1 \in 1 .. Len(s) /\ j + 1 # i /\ t[j] = s[j + 1]
                BY <2>3, <3>2
            <4> QED
                BY <2>4, <4>1
        <3> QED
            BY <3>1, <3>2
    <2>7. ASSUME NEW h \in 1 .. Len(s), s[h].call # e.call
          PROVE  \E j \in 1 .. Len(t) - 1 :
                    /\ t[j] = s[h]
                    /\ \A k \in 1 .. Len(t) : k > j => k = Len(t) \/ \E l \in 1 .. Len(s) : l > h /\ t[k] = s[l]
        <3> DEFINE j == IF h < i THEN h ELSE h - 1
        <3>1. h # i
            BY <2>4, <2>7
        <3>2. j \in 1 .. Len(s) - 1 /\ t[j] = s[h]
            BY <2>3, <3>1
        <3>3. ASSUME NEW k \in 1 .. Len(s), k > j, k # Len(s)
              PROVE  \E l \in 1 .. Len(s) : l > h /\ t[k] = s[l]
            <4> DEFINE l == IF k < i THEN k ELSE k + 1
            <4>1. l \in 1 .. Len(s) /\ t[k] = s[l]
                BY <2>3, <3>3
            <4>2. l > h
                BY <3>1, <3>3
            <4> QED
                BY <4>1, <4>2
        <3> QED
            BY <2>3, <3>2, <3>3
    <2>8. Keeps(s, t, e)
        BY <2>7 DEF Keeps
    <2> QED
        BY <2>3, <2>5, <2>6, <2>8
<1> QED
    BY <1>1, <1>2 DEF MovedToEnd
-----------------------------------------------------------------------------
(* The cache that calls share. *)

Entry == [call : Sharer, doc : SharedDocument]

Phase == {"new", "ask", "dial", "talk", "over"}

\* The entry of a call is in the cache, and the calls of all later ones have asked since.
Held(u) ==
    \E i \in 1 .. Len(lru) :
        lru[i].call = u /\ \A j \in 1 .. Len(lru) : j > i => lru[j].call \in others[u]

\* As many calls as the cache holds have asked since.
Busy(u) == Cardinality(others[u]) >= SharedCapacity

CacheTyped ==
    /\ lru \in Seq(Entry) /\ Single(lru) /\ Len(lru) <= SharedCapacity
    /\ restarts = 0
    /\ phase \in [Sharer -> Phase] /\ doc \in [Sharer -> SharedDocument \cup {<<>>}]
    /\ others \in [Sharer -> SUBSET Sharer]

\* The order of the entries is the order in which their calls last asked.
CacheInv ==
    /\ CacheTyped
    /\ \A u \in Sharer : IsFiniteSet(others[u])
    /\ \A u \in Sharer : Cache!Up(u) /\ Len(doc[u]) > 1 => (Held(u) \/ Busy(u))

\* Entries behind the first of a full cache that overflows are of as many calls.
LEMMA Crowded ==
    ASSUME NEW S, NEW t \in Seq(S), Single(t), NEW C \in Nat, Len(t) = C + 1, NEW O, IsFiniteSet(O),
           \A k \in 2 .. Len(t) : t[k].call \in O
    PROVE  Cardinality(O) >= C
<1> DEFINE I == 2 .. C + 1
<1> DEFINE f == [k \in I |-> t[k].call]
<1>1. f \in [I -> O]
    OBVIOUS
<1>2. \A j, k \in I : f[j] = f[k] => j = k
    BY DEF Single
<1>3. f \in Injection(I, O)
    BY <1>1, <1>2 DEF Injection, IsInjective
<1>4. IsFiniteSet(I) /\ Cardinality(I) = C
    BY FS_Interval
<1> HIDE DEF I, f
<1>5. Cardinality(I) <= Cardinality(O)
    BY <1>3, FS_Injection
<1>6. Cardinality(O) \in Nat
    BY FS_CardinalityType
<1> QED
    BY <1>4, <1>5, <1>6

\* The cache after a call asked: its document of several legs is the most recent one,
\* and the least recent one goes when there are too many.
Refreshed(u, d) ==
    \/ lru' = lru /\ Len(d) < 2
    \/ \E e \in Entry : \E t :
        /\ e.call = u /\ MovedToEnd(lru, t, e)
        /\ \/ lru' = t /\ Len(t) <= SharedCapacity
           \/ lru' = Tail(t) /\ Len(t) = SharedCapacity + 1

LEMMA RefreshedIs ==
    ASSUME CacheTyped, NEW u \in Sharer, NEW e \in Entry, e.call = u, NEW t, MovedToEnd(lru, t, e),
           \/ lru' = t /\ Len(t) <= SharedCapacity
           \/ lru' = Tail(t) /\ Len(t) = SharedCapacity + 1
    PROVE  /\ lru' \in Seq(Entry) /\ Single(lru') /\ Len(lru') \in 1 .. SharedCapacity
           /\ lru'[Len(lru')].call = u
           /\ \A h \in 1 .. Len(lru) : lru[h].call # u =>
                \/ \E j \in 1 .. Len(lru') :
                    /\ lru'[j] = lru[h]
                    /\ \A k \in 1 .. Len(lru') : k > j =>
                        lru'[k].call = u \/ \E l \in 1 .. Len(lru) : l > h /\ lru'[k] = lru[l]
                \/ /\ t \in Seq(Entry) /\ Single(t) /\ Len(t) = SharedCapacity + 1
                   /\ \A k \in 2 .. Len(t) : t[k].call = u \/ \E l \in 1 .. Len(lru) : l > h /\ t[k] = lru[l]
<1>1. lru \in Seq(Entry) /\ Single(lru) /\ SharedCapacity \in Nat \ {0}
    BY CacheAssumption DEF CacheTyped, Cache!FailoverConstants
<1>2. /\ t \in Seq(Entry) /\ Len(t) \in 1 .. Len(lru) + 1 /\ t[Len(t)] = e /\ Single(t)
      /\ \A h \in 1 .. Len(lru) : lru[h].call # u => \E j \in 1 .. Len(t) - 1 :
            /\ t[j] = lru[h]
            /\ \A k \in 1 .. Len(t) : k > j => k = Len(t) \/ \E l \in 1 .. Len(lru) : l > h /\ t[k] = lru[l]
    <2>1. t \in Seq(Entry) /\ Len(t) \in 1 .. Len(lru) + 1 /\ t[Len(t)] = e /\ Single(t)
        BY <1>1, MovedIs
    <2>2. Keeps(lru, t, e)
        BY <1>1, MovedIs
    <2> QED
        BY <2>1, <2>2 DEF Keeps
<1>3. CASE lru' = t /\ Len(t) <= SharedCapacity
    <2>1. \A k \in 1 .. Len(t) : k = Len(t) => t[k].call = u
        BY <1>2
    <2>2. ASSUME NEW h \in 1 .. Len(lru), lru[h].call # u
          PROVE  \E j \in 1 .. Len(lru') :
                    /\ lru'[j] = lru[h]
                    /\ \A k \in 1 .. Len(lru') : k > j =>
                        lru'[k].call = u \/ \E l \in 1 .. Len(lru) : l > h /\ lru'[k] = lru[l]
        <3>1. PICK j \in 1 .. Len(t) - 1 :
                /\ t[j] = lru[h]
                /\ \A k \in 1 .. Len(t) : k > j => k = Len(t) \/ \E l \in 1 .. Len(lru) : l > h /\ t[k] = lru[l]
            BY <1>2, <2>2
        <3>2. j \in 1 .. Len(t)
            BY <1>2
        <3>3. \A k \in 1 .. Len(t) : k > j =>
                t[k].call = u \/ \E l \in 1 .. Len(lru) : l > h /\ t[k] = lru[l]
            BY <2>1, <3>1
        <3>4. lru' = t
            BY <1>3
        <3> QED
            BY <3>1, <3>2, <3>3, <3>4
    <2>3. Len(t) \in 1 .. SharedCapacity /\ t[Len(t)].call = u
        BY <1>1, <1>2, <1>3, <2>1
    <2>4. lru' \in Seq(Entry) /\ Single(lru') /\ Len(lru') \in 1 .. SharedCapacity /\ lru'[Len(lru')].call = u
        BY <1>2, <1>3, <2>3
    <2> QED
        BY <2>2, <2>4
<1>4. CASE lru' = Tail(t) /\ Len(t) = SharedCapacity + 1
    <2>1. /\ lru' \in Seq(Entry) /\ Len(lru') = SharedCapacity
          /\ \A k \in 1 .. SharedCapacity : lru'[k] = t[k + 1]
        BY <1>1, <1>2, <1>4
    <2>2. lru'[SharedCapacity].call = u
        BY <1>1, <1>2, <1>4, <2>1
    <2>3. Single(lru')
        <3> SUFFICES ASSUME NEW j \in 1 .. SharedCapacity, NEW k \in 1 .. SharedCapacity,
                            lru'[j].call = lru'[k].call
                     PROVE  j = k
            BY <2>1 DEF Single
        <3>1. j + 1 \in 1 .. Len(t) /\ k + 1 \in 1 .. Len(t) /\ t[j + 1].call = t[k + 1].call
            BY <1>1, <1>4, <2>1
        <3>2. j + 1 = k + 1
            BY <1>2, <3>1 DEF Single
        <3> QED
            BY <3>2
    <2>4. ASSUME NEW h \in 1 .. Len(lru), lru[h].call # u
          PROVE  \/ \E j \in 1 .. SharedCapacity :
                    /\ lru'[j] = lru[h]
                    /\ \A k \in 1 .. SharedCapacity : k > j =>
                        lru'[k].call = u \/ \E l \in 1 .. Len(lru) : l > h /\ lru'[k] = lru[l]
                 \/ \A k \in 2 .. Len(t) : t[k].call = u \/ \E l \in 1 .. Len(lru) : l > h /\ t[k] = lru[l]
        <3>1. PICK j \in 1 .. Len(t) - 1 :
                /\ t[j] = lru[h]
                /\ \A k \in 1 .. Len(t) : k > j => k = Len(t) \/ \E l \in 1 .. Len(lru) : l > h /\ t[k] = lru[l]
            BY <1>2, <2>4
        <3>2. \A k \in 1 .. Len(t) : k > j => t[k].call = u \/ \E l \in 1 .. Len(lru) : l > h /\ t[k] = lru[l]
            BY <1>2, <3>1
        <3>3. CASE j = 1
            BY <3>2, <3>3
        <3>4. CASE j # 1
            <4>1. PICK i \in 1 .. SharedCapacity : i + 1 = j
                BY <1>1, <1>4, <3>1, <3>4
            <4>2. lru'[i] = lru[h]
                BY <2>1, <3>1, <4>1
            <4>3. ASSUME NEW k \in 1 .. SharedCapacity, k > i
                  PROVE  lru'[k].call = u \/ \E l \in 1 .. Len(lru) : l > h /\ lru'[k] = lru[l]
                <5>1. k + 1 \in 1 .. Len(t) /\ k + 1 > j /\ lru'[k] = t[k + 1]
                    BY <1>1, <1>4, <2>1, <4>1, <4>3
                <5> QED
                    BY <3>2, <5>1
            <4> QED
                BY <4>2, <4>3
        <3> QED
            BY <3>3, <3>4
    <2>5. Len(lru') \in 1 .. SharedCapacity /\ lru'[Len(lru')].call = u
        BY <1>1, <2>1, <2>2
    <2>6. 1 .. Len(lru') = 1 .. SharedCapacity
        BY <2>1
    <2> QED
        BY <1>2, <1>4, <2>1, <2>3, <2>4, <2>5, <2>6, Zenon
<1> QED
    BY <1>3, <1>4

\* A call asks and runs a document.
LEMMA CacheAsks ==
    ASSUME CacheInv, NEW u \in Sharer, NEW d \in SharedDocument, NEW p \in Phase,
           Refreshed(u, d), doc' = [doc EXCEPT ![u] = d], phase' = [phase EXCEPT ![u] = p],
           Cache!Asked(u), restarts' = restarts
    PROVE  CacheInv'
<1>1. /\ lru \in Seq(Entry) /\ Single(lru) /\ Len(lru) <= SharedCapacity
      /\ restarts = 0
      /\ phase \in [Sharer -> Phase] /\ doc \in [Sharer -> SharedDocument \cup {<<>>}]
      /\ others \in [Sharer -> SUBSET Sharer]
    BY DEF CacheInv, CacheTyped
<1>2. SharedCapacity \in Nat \ {0}
    BY CacheAssumption DEF Cache!FailoverConstants
<1>3. /\ phase' \in [Sharer -> Phase] /\ doc' \in [Sharer -> SharedDocument \cup {<<>>}]
      /\ \A v \in Sharer : v # u => phase'[v] = phase[v] /\ doc'[v] = doc[v]
      /\ doc'[u] = d
    BY <1>1
<1>4. /\ others' \in [Sharer -> SUBSET Sharer]
      /\ \A v \in Sharer : others'[v] = IF v = u THEN {} ELSE others[v] \cup {u}
    BY <1>1 DEF Cache!Asked
<1>5. \A v \in Sharer : IsFiniteSet(others'[v])
    <2> SUFFICES ASSUME NEW v \in Sharer PROVE IsFiniteSet(others'[v])
        OBVIOUS
    <2>1. IsFiniteSet(others[v])
        BY DEF CacheInv
    <2>2. IsFiniteSet(others[v] \cup {u})
        BY <2>1, FS_AddElement
    <2> QED
        BY <1>4, <2>2, FS_EmptySet
<1>6. \A v \in Sharer : v # u /\ Busy(v) => Busy(v)'
    <2> SUFFICES ASSUME NEW v \in Sharer, v # u, Busy(v) PROVE Busy(v)'
        OBVIOUS
    <2>1. IsFiniteSet(others[v])
        BY DEF CacheInv
    <2>2. Cardinality(others[v]) \in Nat
        BY <2>1, FS_CardinalityType
    <2>3. Cardinality(others[v] \cup {u}) = IF u \in others[v] THEN Cardinality(others[v]) ELSE Cardinality(others[v]) + 1
        BY <2>1, FS_AddElement
    <2>4. others'[v] = others[v] \cup {u}
        BY <1>4
    <2> QED
        BY <1>2, <2>2, <2>3, <2>4 DEF Busy
<1>7. \A v \in Sharer : v # u /\ Cache!Up(v)' => Cache!Up(v)
    BY <1>3 DEF Cache!Up
<1>8. CASE lru' = lru /\ Len(d) < 2
    <2>1. CacheTyped'
        BY <1>1, <1>3, <1>4, <1>8 DEF CacheTyped
    <2>2. \A v \in Sharer : v # u /\ Held(v) => Held(v)'
        BY <1>4, <1>8 DEF Held
    <2>3. ASSUME NEW v \in Sharer, Cache!Up(v)', Len(doc'[v]) > 1
          PROVE  Held(v)' \/ Busy(v)'
        <3>1. v # u
            BY <1>3, <1>8, <2>3, CacheAssumption DEF Cache!FailoverConstants
        <3>2. Cache!Up(v) /\ Len(doc[v]) > 1
            BY <1>3, <1>7, <2>3, <3>1
        <3> QED
            BY <1>6, <2>2, <3>1, <3>2 DEF CacheInv
    <2> QED
        BY <1>5, <2>1, <2>3 DEF CacheInv
<1>9. ASSUME NEW e \in Entry, NEW t, e.call = u, MovedToEnd(lru, t, e),
             \/ lru' = t /\ Len(t) <= SharedCapacity
             \/ lru' = Tail(t) /\ Len(t) = SharedCapacity + 1
      PROVE  CacheInv'
    <2>1. /\ lru' \in Seq(Entry) /\ Single(lru') /\ Len(lru') \in 1 .. SharedCapacity
          /\ lru'[Len(lru')].call = u
        BY <1>9, RefreshedIs DEF CacheInv
    <2>2. CacheTyped'
        BY <1>1, <1>2, <1>3, <1>4, <2>1 DEF CacheTyped
    <2>3. Held(u)'
        BY <2>1 DEF Held
    <2>4. ASSUME NEW v \in Sharer, v # u, Held(v)
          PROVE  Held(v)' \/ Busy(v)'
        <3>1. PICK h \in 1 .. Len(lru) :
                lru[h].call = v /\ \A l \in 1 .. Len(lru) : l > h => lru[l].call \in others[v]
            BY <2>4 DEF Held
        <3>2. u \in others'[v] /\ \A l \in 1 .. Len(lru) : l > h => lru[l].call \in others'[v]
            BY <1>4, <2>4, <3>1
        <3>3. \/ \E j \in 1 .. Len(lru') :
                    /\ lru'[j] = lru[h]
                    /\ \A k \in 1 .. Len(lru') : k > j =>
                        lru'[k].call = u \/ \E l \in 1 .. Len(lru) : l > h /\ lru'[k] = lru[l]
              \/ /\ t \in Seq(Entry) /\ Single(t) /\ Len(t) = SharedCapacity + 1
                 /\ \A k \in 2 .. Len(t) : t[k].call = u \/ \E l \in 1 .. Len(lru) : l > h /\ t[k] = lru[l]
            BY <1>9, <2>4, <3>1, RefreshedIs DEF CacheInv
        <3>4. CASE \E j \in 1 .. Len(lru') :
                    /\ lru'[j] = lru[h]
                    /\ \A k \in 1 .. Len(lru') : k > j =>
                        lru'[k].call = u \/ \E l \in 1 .. Len(lru) : l > h /\ lru'[k] = lru[l]
            BY <3>1, <3>2, <3>4 DEF Held
        <3>5. CASE /\ t \in Seq(Entry) /\ Single(t) /\ Len(t) = SharedCapacity + 1
                   /\ \A k \in 2 .. Len(t) : t[k].call = u \/ \E l \in 1 .. Len(lru) : l > h /\ t[k] = lru[l]
            <4>1. \A k \in 2 .. Len(t) : t[k].call \in others'[v]
                BY <3>2, <3>5
            <4>2. IsFiniteSet(others'[v])
                BY <1>5
            <4>3. Cardinality(others'[v]) >= SharedCapacity
                BY <1>2, <3>5, <4>1, <4>2, Crowded
            <4> QED
                BY <4>3 DEF Busy
        <3> QED
            BY <3>3, <3>4, <3>5
    <2>5. ASSUME NEW v \in Sharer, Cache!Up(v)', Len(doc'[v]) > 1, v # u
          PROVE  Held(v)' \/ Busy(v)'
        <3>1. Cache!Up(v) /\ Len(doc[v]) > 1
            BY <1>3, <1>7, <2>5
        <3> QED
            BY <1>6, <2>4, <2>5, <3>1 DEF CacheInv
    <2> QED
        BY <1>5, <2>2, <2>3, <2>5 DEF CacheInv
<1> QED
    BY <1>8, <1>9 DEF Refreshed

\* Nobody asks, and no call that was not up is.
LEMMA CacheRests ==
    ASSUME CacheInv, lru' = lru, doc' = doc, others' = others, restarts' = restarts,
           phase' \in [Sharer -> Phase], \A v \in Sharer : Cache!Up(v)' => Cache!Up(v)
    PROVE  CacheInv'
<1>1. CacheTyped'
    BY DEF CacheInv, CacheTyped
<1>2. \A v \in Sharer : Held(v)' = Held(v) /\ Busy(v)' = Busy(v)
    BY DEF Held, Busy
<1> QED
    BY <1>1, <1>2 DEF CacheInv

LEMMA CacheInit ==
    ASSUME Cache!Init
    PROVE  CacheInv
<1>1. SharedCapacity \in Nat \ {0}
    BY CacheAssumption DEF Cache!FailoverConstants
<1>2. lru = <<>> /\ <<>> \in Seq(Entry) /\ Len(lru) = 0 /\ restarts = 0
    BY DEF Cache!Init
<1>3. Single(lru)
    BY <1>2 DEF Single
<1>4. CacheTyped
    BY <1>1, <1>2, <1>3 DEF CacheTyped, Cache!Init, Phase
<1>5. \A u \in Sharer : others[u] = {} /\ ~Cache!Up(u)
    BY DEF Cache!Init, Cache!Up
<1> QED
    BY <1>4, <1>5, FS_EmptySet DEF CacheInv

LEMMA CacheRouteNew ==
    ASSUME CacheInv, NEW u \in Sharer, Cache!RouteNew(u)
    PROVE  CacheInv'
<1>1. PICK d \in SharedDocument :
        /\ lru' = IF Len(d) >= 2 THEN Cache!Put(u, d) ELSE lru
        /\ Cache!Run(u, d)
    BY DEF Cache!RouteNew
<1>2. PICK p \in Phase : doc' = [doc EXCEPT ![u] = d] /\ phase' = [phase EXCEPT ![u] = p]
    BY <1>1, Zenon DEF Cache!Run, Phase
<1>3. Cache!Asked(u) /\ restarts' = restarts
    BY DEF Cache!RouteNew
<1>4. lru \in Seq(Entry) /\ Single(lru) /\ Len(lru) <= SharedCapacity
    BY DEF CacheInv, CacheTyped
<1>5. SharedCapacity \in Nat \ {0} /\ d \in Seq(Cache!Leg)
    BY CacheAssumption DEF Cache!FailoverConstants
<1>6. CASE Len(d) >= 2
    <2> DEFINE e == [call |-> u, doc |-> d]
    <2> DEFINE t == Append(Cache!Without(u), e)
    <2>1. e \in Entry /\ e.call = u
        BY DEF Entry
    <2>2. lru' = IF Len(t) > SharedCapacity THEN Tail(t) ELSE t
        BY <1>1, <1>6 DEF Cache!Put
    <2> HIDE DEF e
    <2>3. MovedToEnd(lru, t, e)
        <3>1. CASE Cache!Cached(u)
            <4>1. Cache!Place(u) \in 1 .. Len(lru) /\ lru[Cache!Place(u)].call = u
                BY <1>4, <3>1 DEF Cache!Cached, Cache!Place
            <4>2. t = Append(Dropped(lru, Cache!Place(u)), e)
                BY <3>1 DEF Cache!Without, Cache!RemoveAt, Dropped
            <4> QED
                BY <2>1, <4>1, <4>2 DEF MovedToEnd
        <3>2. CASE ~Cache!Cached(u)
            BY <1>4, <2>1, <3>2 DEF Cache!Cached, Cache!Without, MovedToEnd
        <3> QED
            BY <3>1, <3>2
    <2> HIDE DEF t
    <2>4. Len(t) \in 1 .. Len(lru) + 1
        BY <1>4, <2>1, <2>3, MovedIs
    <2>5. \/ lru' = t /\ Len(t) <= SharedCapacity
          \/ lru' = Tail(t) /\ Len(t) = SharedCapacity + 1
        BY <1>4, <1>5, <2>2, <2>4
    <2>6. Refreshed(u, d)
        BY <2>1, <2>3, <2>5 DEF Refreshed
    <2> QED
        BY <1>2, <1>3, <2>6, CacheAsks
<1>7. CASE ~(Len(d) >= 2)
    <2>1. Refreshed(u, d)
        BY <1>1, <1>5, <1>7 DEF Refreshed
    <2> QED
        BY <1>2, <1>3, <2>1, CacheAsks
<1> QED
    BY <1>6, <1>7

LEMMA CacheReEnter ==
    ASSUME CacheInv, NEW u \in Sharer, Cache!ReEnter(u)
    PROVE  CacheInv'
<1>1. PICK i \in DOMAIN lru : lru[i].call = u /\ Cache!Run(u, lru[i].doc)
    BY DEF Cache!ReEnter
<1>2. lru \in Seq(Entry) /\ Single(lru) /\ Len(lru) <= SharedCapacity
    BY DEF CacheInv, CacheTyped
<1>3. i \in 1 .. Len(lru) /\ lru[i] \in Entry
    BY <1>1, <1>2
<1>4. lru[i].doc \in SharedDocument
    BY <1>3 DEF Entry
<1>5. PICK p \in Phase : doc' = [doc EXCEPT ![u] = lru[i].doc] /\ phase' = [phase EXCEPT ![u] = p]
    BY <1>1, Zenon DEF Cache!Run, Phase
<1>6. Cache!Asked(u) /\ restarts' = restarts /\ lru' = Cache!Get(u)
    BY DEF Cache!ReEnter
<1>7. Cache!Place(u) = i
    BY <1>1, <1>2, <1>3 DEF Cache!Place, Single
<1>8. lru' = Append(Dropped(lru, i), lru[i])
    <2>1. Cache!Cached(u)
        BY <1>1 DEF Cache!Cached
    <2> QED
        BY <1>6, <1>7, <2>1 DEF Cache!Get, Cache!Without, Cache!RemoveAt, Dropped
<1>9. MovedToEnd(lru, lru', lru[i])
    BY <1>3, <1>8 DEF MovedToEnd
<1>10. Len(lru') = Len(lru)
    <2>1. Len(Dropped(lru, i)) = Len(lru) - 1 /\ Dropped(lru, i) \in Seq(Entry)
        BY <1>2, <1>3, DroppedIs
    <2> QED
        BY <1>2, <1>3, <1>8, <2>1
<1>11. Refreshed(u, lru[i].doc)
    BY <1>1, <1>2, <1>3, <1>9, <1>10 DEF Refreshed
<1> QED
    BY <1>4, <1>5, <1>6, <1>11, CacheAsks

LEMMA CacheNext ==
    ASSUME CacheInv, [Cache!Next]_failoverVars
    PROVE  CacheInv'
<1>1. phase \in [Sharer -> Phase]
    BY DEF CacheInv, CacheTyped
<1>2. CASE UNCHANGED failoverVars
    BY <1>1, <1>2, CacheRests DEF failoverVars, Cache!Up
<1>3. ASSUME NEW u \in Sharer, Cache!RouteNew(u)
      PROVE  CacheInv'
    BY <1>3, CacheRouteNew
<1>4. ASSUME NEW u \in Sharer, Cache!ReEnter(u)
      PROVE  CacheInv'
    BY <1>4, CacheReEnter
<1>5. ASSUME NEW u \in Sharer, Cache!Ring(u)
      PROVE  CacheInv'
    BY <1>1, <1>5, CacheRests DEF Cache!Ring, Cache!Up
<1>6. ASSUME NEW u \in Sharer, Cache!LegFails(u)
      PROVE  CacheInv'
    <2>1. Cache!Up(u)
        BY <1>6 DEF Cache!LegFails, Cache!Up
    <2>2. \E p \in Phase : phase' = [phase EXCEPT ![u] = p]
        BY <1>6, Zenon DEF Cache!LegFails, Cache!AfterBridge, Phase
    <2>3. phase' \in [Sharer -> Phase] /\ \A v \in Sharer : v # u => phase'[v] = phase[v]
        BY <1>1, <2>2
    <2>4. \A v \in Sharer : Cache!Up(v)' => Cache!Up(v)
        BY <2>1, <2>3 DEF Cache!Up
    <2>5. lru' = lru /\ doc' = doc /\ others' = others /\ restarts' = restarts
        BY <1>6 DEF Cache!LegFails
    <2> QED
        BY <2>3, <2>4, <2>5, CacheRests
<1>7. ASSUME NEW u \in Sharer, Cache!Answer(u)
      PROVE  CacheInv'
    <2>1. Cache!Up(u)
        BY <1>7 DEF Cache!Answer, Cache!Up
    <2>2. \E p \in Phase : phase' = [phase EXCEPT ![u] = p]
        BY <1>7, Zenon DEF Cache!Answer, Phase
    <2>3. phase' \in [Sharer -> Phase] /\ \A v \in Sharer : v # u => phase'[v] = phase[v]
        BY <1>1, <2>2
    <2>4. \A v \in Sharer : Cache!Up(v)' => Cache!Up(v)
        BY <2>1, <2>3 DEF Cache!Up
    <2>5. lru' = lru /\ doc' = doc /\ others' = others /\ restarts' = restarts
        BY <1>7 DEF Cache!Answer
    <2> QED
        BY <2>3, <2>4, <2>5, CacheRests
<1>8. ASSUME NEW u \in Sharer, Cache!CalleeHangsUp(u)
      PROVE  CacheInv'
    <2>1. Cache!Up(u)
        BY <1>8 DEF Cache!CalleeHangsUp, Cache!Up
    <2>2. \E p \in Phase : phase' = [phase EXCEPT ![u] = p]
        BY <1>8, Zenon DEF Cache!CalleeHangsUp, Cache!AfterBridge, Phase
    <2>3. phase' \in [Sharer -> Phase] /\ \A v \in Sharer : v # u => phase'[v] = phase[v]
        BY <1>1, <2>2
    <2>4. \A v \in Sharer : Cache!Up(v)' => Cache!Up(v)
        BY <2>1, <2>3 DEF Cache!Up
    <2>5. lru' = lru /\ doc' = doc /\ others' = others /\ restarts' = restarts
        BY <1>8 DEF Cache!CalleeHangsUp
    <2> QED
        BY <2>3, <2>4, <2>5, CacheRests
<1>9. ASSUME NEW u \in Sharer, Cache!CallerHangsUp(u)
      PROVE  CacheInv'
    <2>1. Cache!Up(u)
        BY <1>9 DEF Cache!CallerHangsUp, Cache!Up
    <2>2. \E p \in Phase : phase' = [phase EXCEPT ![u] = p]
        BY <1>9, Zenon DEF Cache!CallerHangsUp, Phase
    <2>3. phase' \in [Sharer -> Phase] /\ \A v \in Sharer : v # u => phase'[v] = phase[v]
        BY <1>1, <2>2
    <2>4. \A v \in Sharer : Cache!Up(v)' => Cache!Up(v)
        BY <2>1, <2>3 DEF Cache!Up
    <2>5. lru' = lru /\ doc' = doc /\ others' = others /\ restarts' = restarts
        BY <1>9 DEF Cache!CallerHangsUp
    <2> QED
        BY <2>3, <2>4, <2>5, CacheRests
<1>10. CASE Cache!Restart
    BY <1>10 DEF Cache!Restart, CacheInv, CacheTyped
<1> QED
    BY <1>2, <1>3, <1>4, <1>5, <1>6, <1>7, <1>8, <1>9, <1>10
       DEF Cache!Next, Cache!Ask, Cache!Dialled, Cache!Talked

\* While the process runs, a call in progress only loses its document after as many
\* other calls asked for theirs as the cache holds (core/lru_cache.py), however many
\* calls there are and whatever order they ask in.
THEOREM LostOnlyEverIfBusy == DialplanSpec => []LostOnlyIfBusy
<1> DEFINE Inv == scenario = "cache" => CacheInv
<1>1. DialplanInit => Inv
    BY CacheInit DEF DialplanInit
<1>2. Inv /\ [DialplanNext]_<<scenario, failoverVars, routeVars, ruleVars>> => Inv'
    <2> SUFFICES ASSUME Inv, [DialplanNext]_<<scenario, failoverVars, routeVars, ruleVars>>, scenario' = "cache"
                 PROVE  CacheInv'
        OBVIOUS
    <2>1. scenario = "cache" /\ [Cache!Next]_failoverVars
        BY DEF DialplanNext
    <2> QED
        BY <2>1, CacheNext
<1>3. Inv => LostOnlyIfBusy
    <2> SUFFICES ASSUME CacheInv, NEW u \in Sharer, Cache!Up(u), Len(doc[u]) > 1, ~Cache!Cached(u)
                 PROVE  Cache!Cardinality(others[u]) >= SharedCapacity
        BY DEF LostOnlyIfBusy, Cache!LostOnlyIfBusy
    <2>1. ~Held(u)
        BY DEF CacheInv, CacheTyped, Held, Cache!Cached
    <2> QED
        BY <2>1 DEF CacheInv, Busy, Cache!Cardinality, Cardinality
<1> QED
    BY <1>1, <1>2, <1>3, PTL DEF DialplanSpec
-----------------------------------------------------------------------------
(* The legs of a call. *)

LegEntry == [call : Call, doc : Document]

Told == [leg : Int, cause : Cause \cup {"WIN"}]

LegsTyped ==
    /\ lru \in Seq(LegEntry) /\ Single(lru) /\ Len(lru) <= Capacity
    /\ phase \in [Call -> Phase] /\ doc \in [Call -> Document \cup {<<>>}]
    /\ dest \in [Call -> Int] /\ rang \in [Call -> BOOLEAN]
    /\ detail \in [Call -> Seq(Told)] /\ count \in [Call -> Nat]
    /\ answered \in [Call -> BOOLEAN] /\ tried \in [Call -> Seq(Int)]
    /\ gone \subseteq Call /\ others \in [Call -> SUBSET Call] /\ restarts \in 0 .. MaxRestarts

\* What the variables of one call tell of each other: d is its document, p its phase, x
\* its destination, r whether its leg rang, s gw_failover_detail, c gw_failover_count, a
\* whether it was answered, t the legs that were dialled.
InOrder(d, t) == t \in Seq(Int) /\ Len(t) <= Len(d) /\ \A i \in 1 .. Len(t) : t[i] = i

\* The entries of a document with several legs.
Entries(s, c, a, k) ==
    /\ s \in Seq(Told) /\ Len(s) \in {k, k - 1} /\ (a => k >= 1)
    /\ \A i \in 1 .. Len(s) : s[i].leg = i
    /\ \A i \in 1 .. Len(s) : (s[i].cause = "WIN") <=> (a /\ i = k)
    /\ c = IF a THEN k - 1 ELSE Len(s)

\* Where the chain is.
Position(d, p, x, r, s, a, k) ==
    CASE p = "new" -> d = <<>> /\ x = 0 /\ s = <<>> /\ ~a
      [] p = "ask" -> /\ Len(d) >= 2 /\ Len(s) = k
                      /\ \/ x = k + 1 /\ x <= Len(d) /\ ~a
                         \/ x = Legs!DoneKeep /\ a
                         \/ x = Legs!Exhausted /\ ~a /\ (k = Len(d) \/ (d[k].pre_ring_only /\ r))
      [] p = "dial" -> x = k /\ k >= 1 /\ ~a /\ (Len(d) >= 2 => Len(s) = k - 1)
      [] p = "talk" -> x = k /\ k >= 1 /\ a /\ (Len(d) >= 2 => Len(s) = k - 1)
      [] OTHER -> x = Legs!Exhausted => (k = Len(d) \/ (d[k].pre_ring_only /\ r))

Story(d, p, x, r, s, c, a, t) ==
    /\ InOrder(d, t)
    /\ Len(d) >= 2 => Entries(s, c, a, Len(t))
    /\ Position(d, p, x, r, s, a, Len(t))

StoryOf(u) ==
    Story(doc[u], phase[u], dest[u], rang[u], detail[u], count[u], answered[u], tried[u])

\* What is cached of a call whose document was never gone is its document.
LegsCached ==
    \A i \in 1 .. Len(lru) : lru[i].call \notin gone =>
        lru[i].doc = doc[lru[i].call] /\ phase[lru[i].call] # "new"

LegsInv ==
    /\ LegsTyped /\ LegsCached
    /\ \A u \in Call \ gone : StoryOf(u)

LEMMA LegsConstants ==
    ASSUME NEW d \in Document \cup {<<>>}
    PROVE  /\ d \in Seq(Legs!Leg) /\ Len(d) <= MaxTried /\ MaxTried \in Nat
           /\ "WIN" \notin Cause /\ Legs!DoneKeep = -1 /\ Legs!Exhausted = -2
<1>1. <<>> \in Seq(Legs!Leg) /\ Len(<<>>) = 0
    OBVIOUS
<1>2. MaxTried \in Nat /\ "WIN" \notin Cause
    BY LegsAssumption DEF Legs!FailoverConstants
<1>3. d \in Seq(Legs!Leg) /\ Len(d) <= MaxTried
    <2>1. CASE d = <<>>
        BY <1>1, <1>2, <2>1
    <2>2. CASE d \in Document
        BY <2>2, LegsAssumption DEF Legs!FailoverConstants
    <2> QED
        BY <2>1, <2>2
<1> QED
    BY <1>2, <1>3 DEF Legs!DoneKeep, Legs!Exhausted

\* A leg is dialled.
LEMMA StoryDials ==
    ASSUME NEW d \in Document, NEW x \in 1 .. Len(d), NEW r, NEW s, NEW c, NEW a \in BOOLEAN, NEW t,
           Story(d, "ask", x, r, s, c, a, t)
    PROVE  Story(d, "dial", x, FALSE, s, c, a, Legs!Remember(t, x))
<1>1. d \in Seq(Legs!Leg) /\ Len(d) <= MaxTried /\ MaxTried \in Nat /\ Legs!DoneKeep = -1 /\ Legs!Exhausted = -2
    BY LegsConstants
<1>2. t \in Seq(Int) /\ Len(t) <= Len(d) /\ \A i \in 1 .. Len(t) : t[i] = i
    BY DEF Story, InOrder
<1>3. Len(d) >= 2 /\ Len(s) = Len(t) /\ x = Len(t) + 1 /\ ~a
    BY <1>1 DEF Story, Position
<1>4. Legs!Remember(t, x) = Append(t, x)
    BY <1>1, <1>2, <1>3 DEF Legs!Remember
<1> DEFINE t2 == Append(t, x)
<1>5. t2 \in Seq(Int) /\ Len(t2) = x /\ \A i \in 1 .. Len(t2) : t2[i] = i
    BY <1>2, <1>3
<1> HIDE DEF t2
<1>6. InOrder(d, t2)
    BY <1>1, <1>5 DEF InOrder
<1>7. Entries(s, c, a, Len(t))
    BY <1>3 DEF Story
<1>8. Entries(s, c, a, Len(t2))
    BY <1>2, <1>3, <1>5, <1>7 DEF Entries
<1>9. Position(d, "dial", x, FALSE, s, a, Len(t2))
    BY <1>2, <1>3, <1>5 DEF Position
<1> QED
    BY <1>4, <1>6, <1>8, <1>9 DEF Story, t2

\* One of the two ends of the chain.
LEMMA StoryEnds ==
    ASSUME NEW d, NEW x \in Int, NEW r, NEW s, NEW c, NEW a \in BOOLEAN, NEW t,
           Story(d, "ask", x, r, s, c, a, t), x \notin 1 .. Len(d)
    PROVE  x \in {Legs!DoneKeep, Legs!Exhausted} /\ Story(d, "over", x, r, s, c, a, t)
<1>1. Len(t) \in Nat /\ Len(d) >= 2 /\ Legs!DoneKeep = -1 /\ Legs!Exhausted = -2
    BY DEF Story, InOrder, Position, Legs!DoneKeep, Legs!Exhausted
<1>2. x # Len(t) + 1 \/ ~(x <= Len(d))
    BY <1>1
<1>3. \/ x = Legs!DoneKeep
      \/ x = Legs!Exhausted /\ (Len(t) = Len(d) \/ (d[Len(t)].pre_ring_only /\ r))
    BY <1>2 DEF Story, Position
<1>4. Position(d, "over", x, r, s, a, Len(t))
    BY <1>1, <1>3 DEF Position
<1> QED
    BY <1>3, <1>4 DEF Story

\* A leg fails and the chain goes on, or is given up.
LEMMA StoryFails ==
    ASSUME NEW d \in Document, NEW x \in Int, NEW r \in BOOLEAN, NEW s, NEW c, NEW a \in BOOLEAN, NEW t,
           Story(d, "dial", x, r, s, c, a, t), Len(d) > 1, NEW cause \in Cause
    PROVE  /\ c # MaxTried /\ cause # "WIN"
           /\ Story(d, "ask",
                    IF x = Len(d) \/ (d[x].pre_ring_only /\ r) THEN Legs!Exhausted ELSE x + 1,
                    r, Legs!Remember(s, [leg |-> x, cause |-> cause]), c + 1, a, t)
<1>1. /\ d \in Seq(Legs!Leg) /\ Len(d) <= MaxTried /\ MaxTried \in Nat
      /\ "WIN" \notin Cause /\ Legs!DoneKeep = -1 /\ Legs!Exhausted = -2
    BY LegsConstants
<1>2. t \in Seq(Int) /\ Len(t) <= Len(d)
    BY DEF Story, InOrder
<1> DEFINE k == Len(t)
<1>3. k \in Nat /\ Len(d) \in Nat
    BY <1>1, <1>2
<1>4. x = k /\ k >= 1 /\ ~a /\ Len(s) = k - 1
    BY <1>1, <1>3 DEF Story, Position
<1>5. /\ s \in Seq(Told) /\ \A i \in 1 .. Len(s) : s[i].leg = i
      /\ \A i \in 1 .. Len(s) : s[i].cause # "WIN"
      /\ c = k - 1
    BY <1>1, <1>4 DEF Story, Entries
<1> DEFINE e == [leg |-> x, cause |-> cause]
<1> DEFINE s2 == Append(s, e)
<1>6. e \in Told /\ e.leg = x /\ e.cause = cause
    BY DEF Told
<1> HIDE DEF e
<1>7. Legs!Remember(s, e) = s2
    BY <1>1, <1>2, <1>3, <1>4 DEF Legs!Remember
<1>8. /\ s2 \in Seq(Told) /\ Len(s2) = k /\ s2[k] = e
      /\ \A i \in 1 .. k - 1 : s2[i] = s[i]
    BY <1>3, <1>4, <1>5, <1>6
<1> HIDE DEF s2
<1>9. cause # "WIN"
    BY <1>1
<1>10. Entries(s2, c + 1, a, k)
    <2>1. \A i \in 1 .. k : s2[i].leg = i
        <3> SUFFICES ASSUME NEW i \in 1 .. k PROVE s2[i].leg = i
            OBVIOUS
        <3>1. CASE i = k
            BY <1>4, <1>6, <1>8, <3>1
        <3>2. CASE i # k
            <4>1. i \in 1 .. k - 1
                BY <1>3, <3>2
            <4> QED
                BY <1>4, <1>5, <1>8, <4>1
        <3> QED
            BY <3>1, <3>2
    <2>2. \A i \in 1 .. k : s2[i].cause # "WIN"
        BY <1>3, <1>4, <1>5, <1>6, <1>8, <1>9
    <2>3. Len(s2) = k /\ c + 1 = k
        BY <1>3, <1>5, <1>8
    <2> QED
        BY <1>3, <1>4, <1>8, <2>1, <2>2, <2>3 DEF Entries
<1> DEFINE y == IF x = Len(d) \/ (d[x].pre_ring_only /\ r) THEN Legs!Exhausted ELSE x + 1
<1>11. \/ y = k + 1 /\ y <= Len(d)
       \/ y = Legs!Exhausted /\ (k = Len(d) \/ (d[k].pre_ring_only /\ r))
    BY <1>2, <1>3, <1>4
<1> HIDE DEF y
<1>12. Len(d) >= 2
    BY <1>3
<1>13. Position(d, "ask", y, r, s2, a, k)
    BY <1>4, <1>8, <1>11, <1>12 DEF Position
<1>14. Story(d, "ask", y, r, s2, c + 1, a, t)
    BY <1>10, <1>13 DEF Story
<1>15. c # MaxTried
    BY <1>1, <1>2, <1>3, <1>4, <1>5
<1> QED
    BY <1>7, <1>9, <1>14, <1>15 DEF e, y

LEMMA StoryAnswers ==
    ASSUME NEW d \in Document, NEW x \in Int, NEW r, NEW s, NEW c, NEW a \in BOOLEAN, NEW t,
           Story(d, "dial", x, r, s, c, a, t)
    PROVE  Story(d, "talk", x, r, s, c, TRUE, t)
<1> DEFINE k == Len(t)
<1>1. k \in Nat /\ Len(d) \in Nat
    BY LegsConstants DEF Story, InOrder
<1>2. x = k /\ k >= 1 /\ ~a /\ (Len(d) >= 2 => Len(s) = k - 1)
    BY DEF Story, Position
<1>3. Position(d, "talk", x, r, s, TRUE, k)
    BY <1>2 DEF Position
<1>4. ASSUME Len(d) >= 2
      PROVE  Entries(s, c, TRUE, k)
    BY <1>1, <1>2, <1>4 DEF Story, Entries
<1> QED
    BY <1>3, <1>4 DEF Story

LEMMA StoryHangsUp ==
    ASSUME NEW d, NEW p \in {"dial", "talk"}, NEW x \in Int, NEW r, NEW s, NEW c, NEW a \in BOOLEAN, NEW t,
           Story(d, p, x, r, s, c, a, t)
    PROVE  Story(d, "over", x, r, s, c, a, t)
<1>1. x = Len(t) /\ Len(t) >= 1 /\ Legs!Exhausted = -2
    BY DEF Story, Position, Legs!Exhausted
<1>2. Position(d, "over", x, r, s, a, Len(t))
    BY <1>1 DEF Position
<1> QED
    BY <1>2 DEF Story

\* The called side hangs up.
LEMMA StoryWins ==
    ASSUME NEW d \in Document, NEW x \in Int, NEW r, NEW s, NEW c, NEW a \in BOOLEAN, NEW t,
           Story(d, "talk", x, r, s, c, a, t), Len(d) > 1
    PROVE  Story(d, "ask", Legs!DoneKeep, r, Legs!Remember(s, [leg |-> x, cause |-> "WIN"]), c, a, t)
<1>1. /\ d \in Seq(Legs!Leg) /\ Len(d) <= MaxTried /\ MaxTried \in Nat
      /\ Legs!DoneKeep = -1 /\ Legs!Exhausted = -2
    BY LegsConstants
<1>2. t \in Seq(Int) /\ Len(t) <= Len(d)
    BY DEF Story, InOrder
<1> DEFINE k == Len(t)
<1>3. k \in Nat /\ Len(d) \in Nat
    BY <1>1, <1>2
<1>4. x = k /\ k >= 1 /\ a /\ Len(s) = k - 1
    BY <1>1, <1>3 DEF Story, Position
<1>5. /\ s \in Seq(Told) /\ \A i \in 1 .. Len(s) : s[i].leg = i
      /\ \A i \in 1 .. Len(s) : s[i].cause # "WIN"
      /\ c = k - 1
    BY <1>1, <1>3, <1>4 DEF Story, Entries
<1> DEFINE e == [leg |-> x, cause |-> "WIN"]
<1> DEFINE s2 == Append(s, e)
<1>6. e \in Told /\ e.leg = x /\ e.cause = "WIN"
    BY DEF Told
<1> HIDE DEF e
<1>7. Legs!Remember(s, e) = s2
    BY <1>1, <1>2, <1>3, <1>4 DEF Legs!Remember
<1>8. /\ s2 \in Seq(Told) /\ Len(s2) = k /\ s2[k] = e
      /\ \A i \in 1 .. k - 1 : s2[i] = s[i]
    BY <1>3, <1>4, <1>5, <1>6
<1> HIDE DEF s2
<1>9. Entries(s2, c, a, k)
    <2>1. \A i \in 1 .. k : s2[i].leg = i
        BY <1>3, <1>4, <1>5, <1>6, <1>8
    <2>2. \A i \in 1 .. k : (s2[i].cause = "WIN") <=> i = k
        BY <1>3, <1>4, <1>5, <1>6, <1>8
    <2> QED
        BY <1>3, <1>4, <1>5, <1>8, <2>1, <2>2 DEF Entries
<1>10. Len(d) >= 2
    BY <1>3
<1>11. Position(d, "ask", Legs!DoneKeep, r, s2, a, k)
    BY <1>4, <1>8, <1>10 DEF Position
<1> QED
    BY <1>7, <1>9, <1>11 DEF Story, e

\* A call runs its first document: a refusal, a single leg, or the first of several.
LEMMA StoryStarts ==
    ASSUME NEW d \in Document, NEW x, NEW r, NEW s, NEW c, NEW a \in BOOLEAN, NEW t, NEW old,
           Story(old, "new", x, r, s, c, a, t)
    PROVE  /\ x = 0
           /\ d = <<>> => Story(d, "over", x, r, s, c, a, t)
           /\ Len(d) = 1 =>
                Story(d, "dial", 1, FALSE, <<[leg |-> 1, cause |-> "WIN"]>>, 0, a, Legs!Remember(t, 1))
           /\ Len(d) >= 2 => Story(d, "ask", 1, r, <<>>, 0, a, t)
<1>1. d \in Seq(Legs!Leg) /\ Len(d) <= MaxTried /\ MaxTried \in Nat /\ Legs!Exhausted = -2
    BY LegsConstants
<1>2. old = <<>> /\ x = 0 /\ s = <<>> /\ ~a
    BY DEF Story, Position
<1>3. t \in Seq(Int) /\ Len(t) = 0
    BY <1>2 DEF Story, InOrder
<1>4. t = <<>>
    BY <1>3
<1>5. ASSUME d = <<>>
      PROVE  Story(d, "over", x, r, s, c, a, t)
    <2>1. InOrder(d, t)
        BY <1>3, <1>5 DEF InOrder
    <2>2. ~(Len(d) >= 2)
        BY <1>5
    <2>3. Position(d, "over", x, r, s, a, Len(t))
        BY <1>1, <1>2 DEF Position
    <2> QED
        BY <2>1, <2>2, <2>3 DEF Story
<1>6. ASSUME Len(d) = 1
      PROVE  Story(d, "dial", 1, FALSE, <<[leg |-> 1, cause |-> "WIN"]>>, 0, a, Legs!Remember(t, 1))
    <2> DEFINE t2 == Append(t, 1)
    <2>1. Legs!Remember(t, 1) = t2
        BY <1>1, <1>3, <1>6 DEF Legs!Remember
    <2>2. t2 \in Seq(Int) /\ Len(t2) = 1 /\ t2[1] = 1
        BY <1>3
    <2> HIDE DEF t2
    <2>3. InOrder(d, t2)
        BY <1>6, <2>2 DEF InOrder
    <2> DEFINE s2 == <<[leg |-> 1, cause |-> "WIN"]>>
    <2> HIDE DEF s2
    <2>4. Position(d, "dial", 1, FALSE, s2, a, Len(t2))
        BY <1>2, <1>6, <2>2 DEF Position
    <2>5. ~(Len(d) >= 2)
        BY <1>6
    <2>6. Story(d, "dial", 1, FALSE, s2, 0, a, t2)
        BY <2>3, <2>4, <2>5 DEF Story
    <2> QED
        BY <2>1, <2>6 DEF s2
<1>7. ASSUME Len(d) >= 2
      PROVE  Story(d, "ask", 1, r, <<>>, 0, a, t)
    <2>1. InOrder(d, t)
        BY <1>1, <1>3, <1>7 DEF InOrder
    <2>2. <<>> \in Seq(Told) /\ Len(<<>>) = 0
        OBVIOUS
    <2>3. Entries(<<>>, 0, a, Len(t))
        BY <1>2, <1>3, <2>2 DEF Entries
    <2>4. Position(d, "ask", 1, r, <<>>, a, Len(t))
        BY <1>2, <1>3, <1>7, <2>2 DEF Position
    <2> QED
        BY <2>1, <2>3, <2>4 DEF Story
<1> QED
    BY <1>2, <1>5, <1>6, <1>7

\* The story of every other call is as it was.
Others(u) ==
    \A v \in Call : v # u =>
        /\ doc'[v] = doc[v] /\ phase'[v] = phase[v] /\ dest'[v] = dest[v] /\ rang'[v] = rang[v]
        /\ detail'[v] = detail[v] /\ count'[v] = count[v] /\ answered'[v] = answered[v]
        /\ tried'[v] = tried[v]

LEMMA LegsFrame ==
    ASSUME LegsInv, NEW u \in Call, LegsTyped', LegsCached', Others(u),
           gone \subseteq gone', u \notin gone' => StoryOf(u)'
    PROVE  LegsInv'
<1>1. \A v \in Call \ gone' : StoryOf(v)'
    <2> SUFFICES ASSUME NEW v \in Call \ gone' PROVE StoryOf(v)'
        OBVIOUS
    <2>1. CASE v = u
        BY <2>1
    <2>2. CASE v # u
        <3>1. StoryOf(v)
            BY DEF LegsInv
        <3> QED
            BY <2>2, <3>1 DEF Others, StoryOf
    <2> QED
        BY <2>1, <2>2
<1> QED
    BY <1>1 DEF LegsInv

\* Nobody asks: the phase of one call changes.
LEMMA LegsRests ==
    ASSUME LegsInv, NEW u \in Call, lru' = lru, doc' = doc, gone' = gone, others' = others, restarts' = restarts,
           NEW p \in Phase \ {"new"}, phase' = [phase EXCEPT ![u] = p]
    PROVE  /\ LegsCached'
           /\ lru' \in Seq(LegEntry) /\ Single(lru') /\ Len(lru') <= Capacity
           /\ phase' \in [Call -> Phase] /\ doc' \in [Call -> Document \cup {<<>>}]
           /\ gone' \subseteq Call /\ others' \in [Call -> SUBSET Call] /\ restarts' \in 0 .. MaxRestarts
           /\ phase'[u] = p /\ \A v \in Call : v # u => phase'[v] = phase[v]
<1>1. /\ lru \in Seq(LegEntry) /\ Single(lru) /\ Len(lru) <= Capacity
      /\ phase \in [Call -> Phase] /\ doc \in [Call -> Document \cup {<<>>}]
      /\ gone \subseteq Call /\ others \in [Call -> SUBSET Call] /\ restarts \in 0 .. MaxRestarts
    BY DEF LegsInv, LegsTyped
<1>2. phase' \in [Call -> Phase] /\ phase'[u] = p /\ \A v \in Call : v # u => phase'[v] = phase[v]
    BY <1>1
<1>3. \A i \in 1 .. Len(lru) : lru[i].call \in Call
    <2>1. \A i \in 1 .. Len(lru) : lru[i] \in LegEntry
        BY <1>1
    <2> QED
        BY <2>1 DEF LegEntry
<1>4. LegsCached'
    BY <1>2, <1>3 DEF LegsInv, LegsCached
<1> QED
    BY <1>1, <1>2, <1>4

LEMMA LegsRing ==
    ASSUME LegsInv, NEW u \in Call, Legs!Ring(u)
    PROVE  LegsInv'
<1>1. LegsTyped
    BY DEF LegsInv
<1>2. rang' = [rang EXCEPT ![u] = TRUE] /\ phase[u] = "dial"
    BY DEF Legs!Ring
<1>3. /\ lru' = lru /\ doc' = doc /\ phase' = phase /\ dest' = dest /\ detail' = detail /\ count' = count
      /\ answered' = answered /\ tried' = tried /\ gone' = gone /\ others' = others /\ restarts' = restarts
    BY DEF Legs!Ring
<1>4. rang' \in [Call -> BOOLEAN]
    BY <1>1, <1>2 DEF LegsTyped
<1>5. LegsTyped'
    BY <1>1, <1>3, <1>4 DEF LegsTyped
<1>6. LegsCached'
    BY <1>3 DEF LegsInv, LegsCached
<1>7. Others(u)
    BY <1>1, <1>2, <1>3 DEF Others, LegsTyped
<1>8. ASSUME u \notin gone'
      PROVE  StoryOf(u)'
    <2>1. Story(doc[u], "dial", dest[u], rang[u], detail[u], count[u], answered[u], tried[u])
        BY <1>2, <1>3, <1>8 DEF LegsInv, StoryOf
    <2>2. Story(doc[u], "dial", dest[u], rang'[u], detail[u], count[u], answered[u], tried[u])
        BY <2>1 DEF Story, Position
    <2> QED
        BY <1>2, <1>3, <2>2 DEF StoryOf
<1> QED
    BY <1>3, <1>5, <1>6, <1>7, <1>8, LegsFrame

LEMMA LegsAnswer ==
    ASSUME LegsInv, NEW u \in Call, Legs!Answer(u)
    PROVE  LegsInv'
<1>1. LegsTyped
    BY DEF LegsInv
<1>2. phase[u] = "dial" /\ phase' = [phase EXCEPT ![u] = "talk"] /\ answered' = [answered EXCEPT ![u] = TRUE]
    BY DEF Legs!Answer
<1>3. /\ lru' = lru /\ doc' = doc /\ dest' = dest /\ rang' = rang /\ detail' = detail /\ count' = count
      /\ tried' = tried /\ gone' = gone /\ others' = others /\ restarts' = restarts
    BY DEF Legs!Answer
<1>4. "talk" \in Phase \ {"new"}
    BY DEF Phase
<1>5. /\ LegsCached'
      /\ lru' \in Seq(LegEntry) /\ Single(lru') /\ Len(lru') <= Capacity
      /\ phase' \in [Call -> Phase] /\ doc' \in [Call -> Document \cup {<<>>}]
      /\ gone' \subseteq Call /\ others' \in [Call -> SUBSET Call] /\ restarts' \in 0 .. MaxRestarts
      /\ phase'[u] = "talk" /\ \A v \in Call : v # u => phase'[v] = phase[v]
    BY <1>2, <1>3, <1>4, LegsRests
<1>6. /\ answered' \in [Call -> BOOLEAN] /\ answered'[u] = TRUE
      /\ \A v \in Call : v # u => answered'[v] = answered[v]
    BY <1>1, <1>2 DEF LegsTyped
<1>7. LegsTyped'
    BY <1>1, <1>3, <1>5, <1>6 DEF LegsTyped
<1>8. Others(u)
    BY <1>3, <1>5, <1>6 DEF Others
<1>9. ASSUME u \notin gone'
      PROVE  StoryOf(u)'
    <2>1. Story(doc[u], "dial", dest[u], rang[u], detail[u], count[u], answered[u], tried[u])
        BY <1>2, <1>3, <1>9 DEF LegsInv, StoryOf
    <2>2. /\ dest[u] \in Int /\ answered[u] \in BOOLEAN /\ doc[u] \in Document \cup {<<>>}
        BY <1>1 DEF LegsTyped
    <2>3. doc[u] # <<>>
        BY <2>1 DEF Story, InOrder, Position
    <2>4. Story(doc[u], "talk", dest[u], rang[u], detail[u], count[u], TRUE, tried[u])
        BY <2>1, <2>2, <2>3, StoryAnswers
    <2> QED
        BY <1>3, <1>5, <1>6, <2>4 DEF StoryOf
<1> QED
    BY <1>3, <1>5, <1>7, <1>8, <1>9, LegsFrame

LEMMA LegsOver ==
    ASSUME LegsInv, NEW u \in Call, phase[u] \in {"dial", "talk"}, phase' = [phase EXCEPT ![u] = "over"],
           UNCHANGED <<lru, doc, dest, rang, detail, count, answered, tried, gone, others, restarts>>
    PROVE  LegsInv'
<1>1. LegsTyped
    BY DEF LegsInv
<1>2. "over" \in Phase \ {"new"}
    BY DEF Phase
<1>3. /\ lru' = lru /\ doc' = doc /\ dest' = dest /\ rang' = rang /\ detail' = detail /\ count' = count
      /\ answered' = answered /\ tried' = tried /\ gone' = gone /\ others' = others /\ restarts' = restarts
    OBVIOUS
<1>4. /\ LegsCached'
      /\ lru' \in Seq(LegEntry) /\ Single(lru') /\ Len(lru') <= Capacity
      /\ phase' \in [Call -> Phase] /\ doc' \in [Call -> Document \cup {<<>>}]
      /\ gone' \subseteq Call /\ others' \in [Call -> SUBSET Call] /\ restarts' \in 0 .. MaxRestarts
      /\ phase'[u] = "over" /\ \A v \in Call : v # u => phase'[v] = phase[v]
    BY <1>2, <1>3, LegsRests
<1>5. LegsTyped'
    BY <1>1, <1>3, <1>4 DEF LegsTyped
<1>6. Others(u)
    BY <1>3, <1>4 DEF Others
<1>7. ASSUME u \notin gone'
      PROVE  StoryOf(u)'
    <2>1. Story(doc[u], phase[u], dest[u], rang[u], detail[u], count[u], answered[u], tried[u])
        BY <1>3, <1>7 DEF LegsInv, StoryOf
    <2>2. /\ dest[u] \in Int /\ answered[u] \in BOOLEAN
        BY <1>1 DEF LegsTyped
    <2>3. Story(doc[u], "over", dest[u], rang[u], detail[u], count[u], answered[u], tried[u])
        BY <2>1, <2>2, StoryHangsUp
    <2> QED
        BY <1>3, <1>4, <2>3 DEF StoryOf
<1> QED
    BY <1>3, <1>4, <1>5, <1>6, <1>7, LegsFrame

\* What follows the bridge of a leg, whatever its end was.
LEMMA LegsAfterBridge ==
    ASSUME LegsInv, NEW u \in Call, NEW cause \in Cause \cup {"WIN"}, Legs!AfterBridge(u, cause),
           lru' = lru, doc' = doc, rang' = rang, answered' = answered, tried' = tried, gone' = gone,
           others' = others, restarts' = restarts,
           u \notin gone =>
               Story(doc[u], "ask", dest'[u], rang[u], detail'[u], count'[u], answered[u], tried[u])
    PROVE  LegsInv'
<1>1. LegsTyped
    BY DEF LegsInv
<1>2. "ask" \in Phase \ {"new"}
    BY DEF Phase
<1>3. phase' = [phase EXCEPT ![u] = "ask"]
    BY DEF Legs!AfterBridge
<1>4. /\ LegsCached'
      /\ lru' \in Seq(LegEntry) /\ Single(lru') /\ Len(lru') <= Capacity
      /\ phase' \in [Call -> Phase] /\ doc' \in [Call -> Document \cup {<<>>}]
      /\ gone' \subseteq Call /\ others' \in [Call -> SUBSET Call] /\ restarts' \in 0 .. MaxRestarts
      /\ phase'[u] = "ask" /\ \A v \in Call : v # u => phase'[v] = phase[v]
    BY <1>2, <1>3, LegsRests
<1>5. dest' \in [Call -> Int] /\ \A v \in Call : v # u => dest'[v] = dest[v]
    <2>1. dest \in [Call -> Int] /\ Legs!DoneKeep \in Int
        BY <1>1 DEF LegsTyped, Legs!DoneKeep
    <2>2. Legs!AfterFailure(u) \in Int
        BY <2>1 DEF Legs!AfterFailure, Legs!Exhausted
    <2>3. dest' = [dest EXCEPT ![u] = IF cause = "WIN" THEN Legs!DoneKeep ELSE Legs!AfterFailure(u)]
        BY DEF Legs!AfterBridge
    <2> QED
        BY <2>1, <2>2, <2>3
<1>6. count' \in [Call -> Nat] /\ \A v \in Call : v # u => count'[v] = count[v]
    <2>1. count \in [Call -> Nat]
        BY <1>1 DEF LegsTyped
    <2>2. count' = count \/ count' = [count EXCEPT ![u] = count[u] + 1]
        BY <2>1 DEF Legs!AfterBridge
    <2> QED
        BY <2>1, <2>2
<1>7. detail' \in [Call -> Seq(Told)] /\ \A v \in Call : v # u => detail'[v] = detail[v]
    <2> DEFINE e == [leg |-> dest[u], cause |-> cause]
    <2>1. detail \in [Call -> Seq(Told)] /\ dest[u] \in Int
        BY <1>1 DEF LegsTyped
    <2>2. e \in Told
        BY <2>1 DEF Told
    <2>3. detail' = [detail EXCEPT ![u] = Legs!Remember(detail[u], e)]
        BY <2>1 DEF Legs!AfterBridge
    <2> HIDE DEF e
    <2>4. Legs!Remember(detail[u], e) \in Seq(Told)
        BY <2>1, <2>2 DEF Legs!Remember
    <2> QED
        BY <2>1, <2>3, <2>4
<1>8. LegsTyped'
    BY <1>1, <1>4, <1>5, <1>6, <1>7 DEF LegsTyped
<1>9. Others(u)
    BY <1>4, <1>5, <1>6, <1>7 DEF Others
<1>10. u \notin gone' => StoryOf(u)'
    BY <1>4 DEF StoryOf
<1> QED
    BY <1>4, <1>8, <1>9, <1>10, LegsFrame

LEMMA LegsLegFails ==
    ASSUME LegsInv, NEW u \in Call, Legs!LegFails(u)
    PROVE  LegsInv'
<1>1. LegsTyped
    BY DEF LegsInv
<1>2. phase[u] = "dial" /\ UNCHANGED <<lru, doc, rang, answered, tried, gone, others, restarts>>
    BY DEF Legs!LegFails
<1>3. ASSUME NEW cause \in Cause, Len(doc[u]) > 1, Legs!AfterBridge(u, cause)
      PROVE  LegsInv'
    <2>1. ASSUME u \notin gone
          PROVE  Story(doc[u], "ask", dest'[u], rang[u], detail'[u], count'[u], answered[u], tried[u])
        <3>1. Story(doc[u], "dial", dest[u], rang[u], detail[u], count[u], answered[u], tried[u])
            BY <1>2, <2>1 DEF LegsInv, StoryOf
        <3>2. /\ dest[u] \in Int /\ answered[u] \in BOOLEAN /\ rang[u] \in BOOLEAN
              /\ doc[u] \in Document \cup {<<>>}
            BY <1>1 DEF LegsTyped
        <3>3. doc[u] \in Document
            BY <1>3, <3>2
        <3>4. /\ count[u] # MaxTried /\ cause # "WIN"
              /\ Story(doc[u], "ask",
                    IF dest[u] = Len(doc[u]) \/ (doc[u][dest[u]].pre_ring_only /\ rang[u])
                    THEN Legs!Exhausted ELSE dest[u] + 1,
                    rang[u], Legs!Remember(detail[u], [leg |-> dest[u], cause |-> cause]),
                    count[u] + 1, answered[u], tried[u])
            BY <1>3, <3>1, <3>2, <3>3, StoryFails
        <3>5. dest'[u] = IF dest[u] = Len(doc[u]) \/ (doc[u][dest[u]].pre_ring_only /\ rang[u])
                         THEN Legs!Exhausted ELSE dest[u] + 1
            BY <1>1, <1>3, <3>4 DEF Legs!AfterBridge, Legs!AfterFailure, LegsTyped
        <3>6. detail'[u] = Legs!Remember(detail[u], [leg |-> dest[u], cause |-> cause])
            BY <1>1, <1>3 DEF Legs!AfterBridge, LegsTyped
        <3>7. count'[u] = count[u] + 1
            BY <1>1, <1>3, <3>4 DEF Legs!AfterBridge, LegsTyped
        <3> QED
            BY <3>4, <3>5, <3>6, <3>7
    <2> QED
        BY <1>2, <1>3, <2>1, LegsAfterBridge
<1>4. CASE phase' = [phase EXCEPT ![u] = "over"] /\ UNCHANGED <<detail, count, dest>>
    BY <1>2, <1>4, LegsOver
<1> QED
    BY <1>3, <1>4 DEF Legs!LegFails

LEMMA LegsCalleeHangsUp ==
    ASSUME LegsInv, NEW u \in Call, Legs!CalleeHangsUp(u)
    PROVE  LegsInv'
<1>1. LegsTyped
    BY DEF LegsInv
<1>2. phase[u] = "talk" /\ UNCHANGED <<lru, doc, rang, answered, tried, gone, others, restarts>>
    BY DEF Legs!CalleeHangsUp
<1>3. ASSUME Len(doc[u]) > 1, Legs!AfterBridge(u, "WIN")
      PROVE  LegsInv'
    <2>1. ASSUME u \notin gone
          PROVE  Story(doc[u], "ask", dest'[u], rang[u], detail'[u], count'[u], answered[u], tried[u])
        <3>1. Story(doc[u], "talk", dest[u], rang[u], detail[u], count[u], answered[u], tried[u])
            BY <1>2, <2>1 DEF LegsInv, StoryOf
        <3>2. /\ dest[u] \in Int /\ answered[u] \in BOOLEAN
              /\ doc[u] \in Document \cup {<<>>}
            BY <1>1 DEF LegsTyped
        <3>3. doc[u] \in Document
            BY <1>3, <3>2
        <3>4. Story(doc[u], "ask", Legs!DoneKeep, rang[u],
                    Legs!Remember(detail[u], [leg |-> dest[u], cause |-> "WIN"]),
                    count[u], answered[u], tried[u])
            BY <1>3, <3>1, <3>2, <3>3, StoryWins
        <3>5. dest'[u] = Legs!DoneKeep /\ count'[u] = count[u]
            BY <1>1, <1>3 DEF Legs!AfterBridge, LegsTyped
        <3>6. detail'[u] = Legs!Remember(detail[u], [leg |-> dest[u], cause |-> "WIN"])
            BY <1>1, <1>3 DEF Legs!AfterBridge, LegsTyped
        <3> QED
            BY <3>4, <3>5, <3>6
    <2> QED
        BY <1>2, <1>3, <2>1, LegsAfterBridge
<1>4. CASE phase' = [phase EXCEPT ![u] = "over"] /\ UNCHANGED <<detail, count, dest>>
    BY <1>2, <1>4, LegsOver
<1> QED
    BY <1>3, <1>4 DEF Legs!CalleeHangsUp

LEMMA Several ==
    ASSUME NEW d \in Document, Len(d) >= 2
    PROVE  d # <<>> /\ Len(d) # 1 /\ DOMAIN d = 1 .. Len(d)
<1>1. d \in Seq(Legs!Leg)
    BY LegsConstants
<1>2. Len(d) \in Nat /\ DOMAIN d = 1 .. Len(d)
    BY <1>1
<1>3. \A n \in Nat : n >= 2 => n # 1 /\ n # 0
    OBVIOUS
<1>4. Len(<<>>) = 0
    OBVIOUS
<1> QED
    BY <1>2, <1>3, <1>4

\* Running a document writes the variables of one call.
LEMMA LegsRun ==
    ASSUME LegsTyped, NEW u \in Call, NEW d \in Document, Legs!Run(u, d), answered' = answered
    PROVE  /\ doc' \in [Call -> Document \cup {<<>>}] /\ phase' \in [Call -> Phase]
           /\ dest' \in [Call -> Int] /\ rang' \in [Call -> BOOLEAN]
           /\ detail' \in [Call -> Seq(Told)] /\ count' \in [Call -> Nat]
           /\ answered' \in [Call -> BOOLEAN] /\ tried' \in [Call -> Seq(Int)]
           /\ Others(u) /\ doc'[u] = d /\ phase'[u] # "new"
           /\ d = <<>> =>
                /\ phase'[u] = "over" /\ dest'[u] = dest[u] /\ rang'[u] = rang[u]
                /\ detail'[u] = detail[u] /\ count'[u] = count[u] /\ tried'[u] = tried[u]
           /\ Len(d) = 1 =>
                /\ phase'[u] = "dial" /\ dest'[u] = 1 /\ rang'[u] = FALSE
                /\ detail'[u] = <<[leg |-> 1, cause |-> "WIN"]>> /\ count'[u] = 0
                /\ tried'[u] = Legs!Remember(tried[u], 1)
           /\ Len(d) >= 2 /\ dest[u] \in 1 .. Len(d) =>
                /\ phase'[u] = "dial" /\ dest'[u] = dest[u] /\ rang'[u] = FALSE
                /\ detail'[u] = detail[u] /\ count'[u] = count[u]
                /\ tried'[u] = Legs!Remember(tried[u], dest[u])
           /\ Len(d) >= 2 /\ dest[u] \in {Legs!DoneKeep, Legs!Exhausted} =>
                /\ phase'[u] = "over" /\ dest'[u] = dest[u] /\ rang'[u] = rang[u]
                /\ detail'[u] = detail[u] /\ count'[u] = count[u] /\ tried'[u] = tried[u]
           /\ Len(d) >= 2 /\ dest[u] = 0 =>
                /\ phase'[u] = "ask" /\ dest'[u] = 1 /\ rang'[u] = rang[u]
                /\ detail'[u] = <<>> /\ count'[u] = 0 /\ tried'[u] = tried[u]
<1> DEFINE ext == Legs!Extension(d, dest[u])
<1> DEFINE k == IF Len(d) = 1 THEN 1 ELSE dest[u]
<1>1. /\ phase \in [Call -> Phase] /\ doc \in [Call -> Document \cup {<<>>}]
      /\ dest \in [Call -> Int] /\ rang \in [Call -> BOOLEAN]
      /\ detail \in [Call -> Seq(Told)] /\ count \in [Call -> Nat]
      /\ answered \in [Call -> BOOLEAN] /\ tried \in [Call -> Seq(Int)]
    BY DEF LegsTyped
<1>2. d \in Seq(Legs!Leg) /\ Len(d) \in Nat /\ Legs!DoneKeep = -1 /\ Legs!Exhausted = -2
    <2>1. d \in Seq(Legs!Leg) /\ Legs!DoneKeep = -1 /\ Legs!Exhausted = -2
        BY LegsConstants
    <2> QED
        BY <2>1
<1>3. /\ doc' = [doc EXCEPT ![u] = d]
      /\ phase' = [phase EXCEPT ![u] = IF ext = "leg" THEN "dial"
                                       ELSE IF ext = "pre" THEN "ask" ELSE "over"]
      /\ dest' = [dest EXCEPT ![u] = IF ext = "leg" THEN k ELSE IF ext = "pre" THEN 1 ELSE dest[u]]
      /\ tried' = IF ext = "leg" THEN [tried EXCEPT ![u] = Legs!Remember(tried[u], k)] ELSE tried
      /\ rang' = IF ext = "leg" THEN [rang EXCEPT ![u] = FALSE] ELSE rang
      /\ detail' = IF ext = "pre" THEN [detail EXCEPT ![u] = <<>>]
                   ELSE IF Len(d) = 1 THEN [detail EXCEPT ![u] = <<[leg |-> 1, cause |-> "WIN"]>>]
                   ELSE detail
      /\ count' = IF ext = "pre" \/ Len(d) = 1 THEN [count EXCEPT ![u] = 0] ELSE count
    BY <1>1 DEF Legs!Run
<1>4. /\ d = <<>> => ext = "hangup" /\ ~(Len(d) = 1) /\ ~(Len(d) >= 2)
      /\ Len(d) = 1 => ext = "leg" /\ k = 1
      /\ Len(d) >= 2 /\ dest[u] \in 1 .. Len(d) => ext = "leg" /\ k = dest[u]
      /\ Len(d) >= 2 /\ dest[u] \in {Legs!DoneKeep, Legs!Exhausted} => ext = "hangup"
      /\ Len(d) >= 2 /\ dest[u] = 0 => ext = "pre"
    <2>1. d = <<>> => ext = "hangup" /\ ~(Len(d) = 1) /\ ~(Len(d) >= 2)
        BY DEF Legs!Extension
    <2>2. Len(d) = 1 => ext = "leg" /\ k = 1
        BY <1>2 DEF Legs!Extension
    <2>3. Len(d) >= 2 /\ dest[u] \in 1 .. Len(d) => ext = "leg" /\ k = dest[u]
        <3> SUFFICES ASSUME Len(d) >= 2, dest[u] \in 1 .. Len(d) PROVE ext = "leg" /\ k = dest[u]
            OBVIOUS
        <3>1. d # <<>> /\ Len(d) # 1 /\ DOMAIN d = 1 .. Len(d)
            BY Several
        <3> QED
            BY <3>1 DEF Legs!Extension
    <2>4. Len(d) >= 2 /\ dest[u] \in {Legs!DoneKeep, Legs!Exhausted} => ext = "hangup"
        BY <1>2 DEF Legs!Extension
    <2>5. Len(d) >= 2 /\ dest[u] = 0 => ext = "pre"
        <3> SUFFICES ASSUME Len(d) >= 2, dest[u] = 0 PROVE ext = "pre"
            OBVIOUS
        <3>1. d # <<>> /\ Len(d) # 1 /\ DOMAIN d = 1 .. Len(d)
            BY Several
        <3>2. dest[u] \notin DOMAIN d
            BY <1>2, <3>1
        <3>3. dest[u] \notin {Legs!DoneKeep, Legs!Exhausted}
            BY <1>2
        <3> QED
            BY <3>1, <3>2, <3>3 DEF Legs!Extension
    <2> QED
        BY <2>1, <2>2, <2>3, <2>4, <2>5
<1>5. k \in Int
    BY <1>1
<1> HIDE DEF ext, k
<1>6. doc' \in [Call -> Document \cup {<<>>}] /\ doc'[u] = d /\ \A v \in Call : v # u => doc'[v] = doc[v]
    BY <1>1, <1>3
<1>7. /\ phase' \in [Call -> Phase]
      /\ phase'[u] = IF ext = "leg" THEN "dial" ELSE IF ext = "pre" THEN "ask" ELSE "over"
      /\ \A v \in Call : v # u => phase'[v] = phase[v]
    BY <1>1, <1>3 DEF Phase
<1>8. /\ dest' \in [Call -> Int]
      /\ dest'[u] = IF ext = "leg" THEN k ELSE IF ext = "pre" THEN 1 ELSE dest[u]
      /\ \A v \in Call : v # u => dest'[v] = dest[v]
    BY <1>1, <1>3, <1>5
<1>9. /\ tried' \in [Call -> Seq(Int)]
      /\ tried'[u] = IF ext = "leg" THEN Legs!Remember(tried[u], k) ELSE tried[u]
      /\ \A v \in Call : v # u => tried'[v] = tried[v]
    <2>1. Legs!Remember(tried[u], k) \in Seq(Int)
        BY <1>1, <1>5 DEF Legs!Remember
    <2> QED
        BY <1>1, <1>3, <2>1
<1>10. /\ rang' \in [Call -> BOOLEAN] /\ rang'[u] = IF ext = "leg" THEN FALSE ELSE rang[u]
       /\ \A v \in Call : v # u => rang'[v] = rang[v]
    BY <1>1, <1>3
<1>11. /\ detail' \in [Call -> Seq(Told)]
       /\ detail'[u] = IF ext = "pre" THEN <<>>
                       ELSE IF Len(d) = 1 THEN <<[leg |-> 1, cause |-> "WIN"]>> ELSE detail[u]
       /\ \A v \in Call : v # u => detail'[v] = detail[v]
    <2> DEFINE e == [leg |-> 1, cause |-> "WIN"]
    <2>1. e \in Told
        BY DEF Told
    <2> HIDE DEF e
    <2>2. <<>> \in Seq(Told)
        OBVIOUS
    <2>3. <<e>> \in Seq(Told)
        BY <2>1
    <2>4. detail' = IF ext = "pre" THEN [detail EXCEPT ![u] = <<>>]
                    ELSE IF Len(d) = 1 THEN [detail EXCEPT ![u] = <<e>>] ELSE detail
        BY <1>3 DEF e
    <2>5. /\ detail' \in [Call -> Seq(Told)]
          /\ detail'[u] = IF ext = "pre" THEN <<>> ELSE IF Len(d) = 1 THEN <<e>> ELSE detail[u]
          /\ \A v \in Call : v # u => detail'[v] = detail[v]
        BY <1>1, <2>2, <2>3, <2>4
    <2> QED
        BY <2>5 DEF e
<1>12. /\ count' \in [Call -> Nat] /\ count'[u] = IF ext = "pre" \/ Len(d) = 1 THEN 0 ELSE count[u]
       /\ \A v \in Call : v # u => count'[v] = count[v]
    BY <1>1, <1>3
<1>13. Others(u)
    BY <1>6, <1>7, <1>8, <1>9, <1>10, <1>11, <1>12 DEF Others
<1>14. Len(d) >= 2 => Len(d) # 1
    BY Several
<1>15. answered' \in [Call -> BOOLEAN] /\ phase'[u] # "new"
    BY <1>1, <1>7
<1>16. d = <<>> =>
        /\ phase'[u] = "over" /\ dest'[u] = dest[u] /\ rang'[u] = rang[u]
        /\ detail'[u] = detail[u] /\ count'[u] = count[u] /\ tried'[u] = tried[u]
    BY <1>4, <1>7, <1>8, <1>9, <1>10, <1>11, <1>12
<1>17. Len(d) = 1 =>
        /\ phase'[u] = "dial" /\ dest'[u] = 1 /\ rang'[u] = FALSE
        /\ detail'[u] = <<[leg |-> 1, cause |-> "WIN"]>> /\ count'[u] = 0
        /\ tried'[u] = Legs!Remember(tried[u], 1)
    BY <1>4, <1>7, <1>8, <1>9, <1>10, <1>11, <1>12
<1>18. Len(d) >= 2 /\ dest[u] \in 1 .. Len(d) =>
        /\ phase'[u] = "dial" /\ dest'[u] = dest[u] /\ rang'[u] = FALSE
        /\ detail'[u] = detail[u] /\ count'[u] = count[u]
        /\ tried'[u] = Legs!Remember(tried[u], dest[u])
    BY <1>4, <1>7, <1>8, <1>9, <1>10, <1>11, <1>12, <1>14
<1>19. Len(d) >= 2 /\ dest[u] \in {Legs!DoneKeep, Legs!Exhausted} =>
        /\ phase'[u] = "over" /\ dest'[u] = dest[u] /\ rang'[u] = rang[u]
        /\ detail'[u] = detail[u] /\ count'[u] = count[u] /\ tried'[u] = tried[u]
    BY <1>4, <1>7, <1>8, <1>9, <1>10, <1>11, <1>12, <1>14
<1>20. Len(d) >= 2 /\ dest[u] = 0 =>
        /\ phase'[u] = "ask" /\ dest'[u] = 1 /\ rang'[u] = rang[u]
        /\ detail'[u] = <<>> /\ count'[u] = 0 /\ tried'[u] = tried[u]
    BY <1>4, <1>7, <1>8, <1>9, <1>10, <1>11, <1>12
<1> QED
    BY <1>6, <1>7, <1>8, <1>9, <1>10, <1>11, <1>12, <1>13, <1>15, <1>16, <1>17, <1>18, <1>19, <1>20

\* The cache after a call asked keeps what it holds of others, and at most the new
\* document of that call.
LEMMA LegsPut ==
    ASSUME LegsInv, NEW u \in Call, NEW e \in LegEntry, e.call = u, NEW t, MovedToEnd(lru, t, e),
           \/ lru' = t /\ Len(t) <= Capacity
           \/ lru' = Tail(t) /\ Len(t) = Capacity + 1,
           Others(u), doc'[u] = e.doc, phase'[u] # "new", gone \subseteq gone'
    PROVE  /\ lru' \in Seq(LegEntry) /\ Single(lru') /\ Len(lru') <= Capacity
           /\ LegsCached'
<1>1. lru \in Seq(LegEntry) /\ Single(lru) /\ Len(lru) <= Capacity /\ Capacity \in Nat \ {0}
    BY LegsAssumption DEF Legs!FailoverConstants, LegsInv, LegsTyped
<1>2. t \in Seq(LegEntry) /\ Len(t) \in 1 .. Len(lru) + 1 /\ t[Len(t)] = e /\ Single(t)
    BY <1>1, MovedIs
<1>3. \A j \in 1 .. Len(t) - 1 : \E h \in 1 .. Len(lru) : lru[h].call # u /\ t[j] = lru[h]
    <2>1. OfOthers(lru, t, e)
        BY <1>1, MovedIs
    <2> QED
        BY <2>1 DEF OfOthers
<1>4. \A j \in 1 .. Len(t) : t[j] = e \/ \E h \in 1 .. Len(lru) : lru[h].call # u /\ t[j] = lru[h]
    <2> SUFFICES ASSUME NEW j \in 1 .. Len(t)
                 PROVE  t[j] = e \/ \E h \in 1 .. Len(lru) : lru[h].call # u /\ t[j] = lru[h]
        OBVIOUS
    <2>1. j = Len(t) \/ j \in 1 .. Len(t) - 1
        BY <1>2
    <2> QED
        BY <1>2, <1>3, <2>1
<1>5. /\ lru' \in Seq(LegEntry) /\ Single(lru') /\ Len(lru') <= Capacity
      /\ \A j \in 1 .. Len(lru') : \E m \in 1 .. Len(t) : lru'[j] = t[m]
    <2>1. CASE lru' = t /\ Len(t) <= Capacity
        BY <1>2, <2>1
    <2>2. CASE lru' = Tail(t) /\ Len(t) = Capacity + 1
        <3>1. /\ lru' \in Seq(LegEntry) /\ Len(lru') = Capacity
              /\ \A j \in 1 .. Capacity : j + 1 \in 1 .. Len(t) /\ lru'[j] = t[j + 1]
            BY <1>1, <1>2, <2>2
        <3>2. Single(lru')
            <4> SUFFICES ASSUME NEW j \in 1 .. Capacity, NEW k \in 1 .. Capacity, lru'[j].call = lru'[k].call
                         PROVE  j = k
                BY <3>1 DEF Single
            <4>1. j + 1 = k + 1
                BY <1>2, <3>1 DEF Single
            <4> QED
                BY <4>1
        <3> QED
            BY <1>1, <3>1, <3>2
    <2> QED
        BY <2>1, <2>2
<1>6. \A h \in 1 .. Len(lru) : lru[h].call \in Call
    <2>1. \A h \in 1 .. Len(lru) : lru[h] \in LegEntry
        BY <1>1
    <2> QED
        BY <2>1 DEF LegEntry
<1>7. \A j \in 1 .. Len(lru') : lru'[j] = e \/ \E h \in 1 .. Len(lru) : lru[h].call # u /\ lru'[j] = lru[h]
    BY <1>4, <1>5
<1>8. \A h \in 1 .. Len(lru) : lru[h].call # u /\ lru[h].call \notin gone' =>
        lru[h].doc = doc'[lru[h].call] /\ phase'[lru[h].call] # "new"
    BY <1>6 DEF LegsInv, LegsCached, Others
<1>9. ASSUME NEW j \in 1 .. Len(lru'), lru'[j].call \notin gone'
      PROVE  lru'[j].doc = doc'[lru'[j].call] /\ phase'[lru'[j].call] # "new"
    BY <1>7, <1>8, <1>9
<1> QED
    BY <1>5, <1>9 DEF LegsCached

LEMMA LegsRouteNew ==
    ASSUME LegsInv, NEW u \in Call, Legs!RouteNew(u)
    PROVE  LegsInv'
<1>1. PICK d \in Document :
        /\ lru' = IF Len(d) >= 2 THEN Legs!Put(u, d) ELSE lru
        /\ Legs!Run(u, d)
    BY DEF Legs!RouteNew
<1>2. /\ phase[u] \in {"new", "ask"} /\ (phase[u] = "new" \/ ~Legs!Cached(u))
      /\ gone' = IF phase[u] = "ask" THEN gone \cup {u} ELSE gone
      /\ Legs!Asked(u) /\ answered' = answered /\ restarts' = restarts
    BY DEF Legs!RouteNew
<1>3. LegsTyped
    BY DEF LegsInv
<1>4. /\ lru \in Seq(LegEntry) /\ Single(lru) /\ Len(lru) <= Capacity /\ Capacity \in Nat \ {0}
      /\ gone \subseteq Call /\ others \in [Call -> SUBSET Call] /\ restarts \in 0 .. MaxRestarts
    BY <1>3, LegsAssumption DEF Legs!FailoverConstants, LegsTyped
<1>5. /\ doc' \in [Call -> Document \cup {<<>>}] /\ phase' \in [Call -> Phase]
      /\ dest' \in [Call -> Int] /\ rang' \in [Call -> BOOLEAN]
      /\ detail' \in [Call -> Seq(Told)] /\ count' \in [Call -> Nat]
      /\ answered' \in [Call -> BOOLEAN] /\ tried' \in [Call -> Seq(Int)]
      /\ Others(u) /\ doc'[u] = d /\ phase'[u] # "new"
    BY <1>1, <1>2, <1>3, LegsRun
<1>6. gone \subseteq gone' /\ gone' \subseteq Call /\ others' \in [Call -> SUBSET Call]
    BY <1>2, <1>4 DEF Legs!Asked
<1>7. d \in Seq(Legs!Leg) /\ Len(d) \in Nat
    <2>1. d \in Seq(Legs!Leg)
        BY LegsConstants
    <2> QED
        BY <2>1
<1>8. lru' \in Seq(LegEntry) /\ Single(lru') /\ Len(lru') <= Capacity /\ LegsCached'
    <2>1. CASE Len(d) >= 2
        <3> DEFINE e == [call |-> u, doc |-> d]
        <3> DEFINE t == Append(Legs!Without(u), e)
        <3>1. e \in LegEntry /\ e.call = u /\ e.doc = d
            BY DEF LegEntry
        <3>2. lru' = IF Len(t) > Capacity THEN Tail(t) ELSE t
            BY <1>1, <2>1 DEF Legs!Put
        <3> HIDE DEF e
        <3>3. MovedToEnd(lru, t, e)
            <4>1. CASE Legs!Cached(u)
                <5>1. Legs!Place(u) \in 1 .. Len(lru) /\ lru[Legs!Place(u)].call = u
                    BY <1>4, <4>1 DEF Legs!Cached, Legs!Place
                <5>2. t = Append(Dropped(lru, Legs!Place(u)), e)
                    BY <4>1 DEF Legs!Without, Legs!RemoveAt, Dropped
                <5> QED
                    BY <3>1, <5>1, <5>2 DEF MovedToEnd
            <4>2. CASE ~Legs!Cached(u)
                BY <1>4, <3>1, <4>2 DEF Legs!Cached, Legs!Without, MovedToEnd
            <4> QED
                BY <4>1, <4>2
        <3> HIDE DEF t
        <3>4. Len(t) \in 1 .. Len(lru) + 1
            BY <1>4, <3>1, <3>3, MovedIs
        <3>5. \/ lru' = t /\ Len(t) <= Capacity
              \/ lru' = Tail(t) /\ Len(t) = Capacity + 1
            BY <1>4, <3>2, <3>4
        <3> QED
            BY <1>5, <1>6, <3>1, <3>3, <3>5, LegsPut
    <2>2. CASE ~(Len(d) >= 2)
        <3>1. lru' = lru
            BY <1>1, <2>2
        <3>2. \A h \in 1 .. Len(lru) : lru[h].call \in Call
            <4>1. \A h \in 1 .. Len(lru) : lru[h] \in LegEntry
                BY <1>4
            <4> QED
                BY <4>1 DEF LegEntry
        <3>3. ASSUME NEW h \in 1 .. Len(lru), lru[h].call \notin gone'
              PROVE  lru[h].doc = doc'[lru[h].call] /\ phase'[lru[h].call] # "new"
            <4>1. lru[h].doc = doc[lru[h].call] /\ phase[lru[h].call] # "new"
                BY <1>6, <3>3 DEF LegsInv, LegsCached
            <4>2. CASE lru[h].call = u
                BY <1>2, <3>3, <4>1, <4>2
            <4>3. CASE lru[h].call # u
                BY <1>5, <3>2, <4>1, <4>3 DEF Others
            <4> QED
                BY <4>2, <4>3
        <3> QED
            BY <1>4, <3>1, <3>3 DEF LegsCached
    <2> QED
        BY <2>1, <2>2
<1>9. LegsTyped'
    BY <1>2, <1>4, <1>5, <1>6, <1>8 DEF LegsTyped
<1>10. ASSUME u \notin gone'
       PROVE  StoryOf(u)'
    <2>1. phase[u] = "new"
        BY <1>2, <1>10
    <2>2. Story(doc[u], "new", dest[u], rang[u], detail[u], count[u], answered[u], tried[u])
        BY <1>6, <1>10, <2>1 DEF LegsInv, StoryOf
    <2>3. answered[u] \in BOOLEAN
        BY <1>3 DEF LegsTyped
    <2>4. dest[u] = 0
        BY <2>2, <2>3, StoryStarts
    <2>5. CASE d = <<>>
        <3>1. /\ phase'[u] = "over" /\ dest'[u] = dest[u] /\ rang'[u] = rang[u]
              /\ detail'[u] = detail[u] /\ count'[u] = count[u] /\ tried'[u] = tried[u]
            BY <1>1, <1>2, <1>3, <2>5, LegsRun
        <3>2. Story(d, "over", dest[u], rang[u], detail[u], count[u], answered[u], tried[u])
            BY <2>2, <2>3, <2>5, StoryStarts
        <3> QED
            BY <1>2, <1>5, <3>1, <3>2 DEF StoryOf
    <2>6. CASE Len(d) = 1
        <3>1. /\ phase'[u] = "dial" /\ dest'[u] = 1 /\ rang'[u] = FALSE
              /\ detail'[u] = <<[leg |-> 1, cause |-> "WIN"]>> /\ count'[u] = 0
              /\ tried'[u] = Legs!Remember(tried[u], 1)
            BY <1>1, <1>2, <1>3, <2>6, LegsRun
        <3>2. Story(d, "dial", 1, FALSE, <<[leg |-> 1, cause |-> "WIN"]>>, 0, answered[u],
                    Legs!Remember(tried[u], 1))
            BY <2>2, <2>3, <2>6, StoryStarts
        <3> QED
            BY <1>2, <1>5, <3>1, <3>2 DEF StoryOf
    <2>7. CASE Len(d) >= 2
        <3>1. /\ phase'[u] = "ask" /\ dest'[u] = 1 /\ rang'[u] = rang[u]
              /\ detail'[u] = <<>> /\ count'[u] = 0 /\ tried'[u] = tried[u]
            BY <1>1, <1>2, <1>3, <2>4, <2>7, LegsRun
        <3>2. Story(d, "ask", 1, rang[u], <<>>, 0, answered[u], tried[u])
            BY <2>2, <2>3, <2>7, StoryStarts
        <3> QED
            BY <1>2, <1>5, <3>1, <3>2 DEF StoryOf
    <2>8. d = <<>> \/ Len(d) = 1 \/ Len(d) >= 2
        <3>1. Len(d) = 0 => d = <<>>
            BY <1>7
        <3>2. \A m \in Nat : m = 0 \/ m = 1 \/ m >= 2
            OBVIOUS
        <3> QED
            BY <1>7, <3>1, <3>2
    <2> QED
        BY <2>5, <2>6, <2>7, <2>8
<1> QED
    BY <1>5, <1>6, <1>8, <1>9, <1>10, LegsFrame

LEMMA LegsReEnter ==
    ASSUME LegsInv, NEW u \in Call, Legs!ReEnter(u)
    PROVE  LegsInv'
<1>1. PICK i \in DOMAIN lru : lru[i].call = u /\ Legs!Run(u, lru[i].doc)
    BY DEF Legs!ReEnter
<1>2. /\ phase[u] = "ask" /\ lru' = Legs!Get(u) /\ Legs!Asked(u)
      /\ answered' = answered /\ gone' = gone /\ restarts' = restarts
    BY DEF Legs!ReEnter
<1>3. LegsTyped
    BY DEF LegsInv
<1>4. /\ lru \in Seq(LegEntry) /\ Single(lru) /\ Len(lru) <= Capacity /\ Capacity \in Nat \ {0}
      /\ gone \subseteq Call /\ others \in [Call -> SUBSET Call] /\ restarts \in 0 .. MaxRestarts
    BY <1>3, LegsAssumption DEF Legs!FailoverConstants, LegsTyped
<1>5. i \in 1 .. Len(lru) /\ lru[i] \in LegEntry
    BY <1>1, <1>4
<1> DEFINE d == lru[i].doc
<1>6. d \in Document
    BY <1>5 DEF LegEntry
<1>7. Legs!Run(u, d)
    BY <1>1
<1>8. lru[i].doc = d
    OBVIOUS
<1> HIDE DEF d
<1>9. /\ doc' \in [Call -> Document \cup {<<>>}] /\ phase' \in [Call -> Phase]
      /\ dest' \in [Call -> Int] /\ rang' \in [Call -> BOOLEAN]
      /\ detail' \in [Call -> Seq(Told)] /\ count' \in [Call -> Nat]
      /\ answered' \in [Call -> BOOLEAN] /\ tried' \in [Call -> Seq(Int)]
      /\ Others(u) /\ doc'[u] = d /\ phase'[u] # "new"
    BY <1>2, <1>3, <1>6, <1>7, LegsRun
<1>10. gone \subseteq gone' /\ gone' \subseteq Call /\ others' \in [Call -> SUBSET Call]
    BY <1>2, <1>4 DEF Legs!Asked
<1>11. lru' = Append(Dropped(lru, i), lru[i])
    <2>1. Legs!Place(u) = i
        BY <1>1, <1>4, <1>5 DEF Legs!Place, Single
    <2>2. Legs!Cached(u)
        BY <1>1 DEF Legs!Cached
    <2> QED
        BY <1>2, <2>1, <2>2 DEF Legs!Get, Legs!Without, Legs!RemoveAt, Dropped
<1>12. MovedToEnd(lru, lru', lru[i])
    BY <1>5, <1>11 DEF MovedToEnd
<1>13. Len(lru') = Len(lru)
    <2>1. Len(Dropped(lru, i)) = Len(lru) - 1 /\ Dropped(lru, i) \in Seq(LegEntry)
        BY <1>4, <1>5, DroppedIs
    <2> QED
        BY <1>4, <1>5, <1>11, <2>1
<1>14. lru' \in Seq(LegEntry) /\ Single(lru') /\ Len(lru') <= Capacity /\ LegsCached'
    <2>1. Len(lru') <= Capacity
        BY <1>4, <1>13
    <2> QED
        BY <1>1, <1>5, <1>8, <1>9, <1>10, <1>12, <2>1, LegsPut
<1>15. LegsTyped'
    BY <1>2, <1>4, <1>9, <1>10, <1>14 DEF LegsTyped
<1>16. ASSUME u \notin gone'
       PROVE  StoryOf(u)'
    <2>1. d = doc[u]
        BY <1>1, <1>2, <1>5, <1>8, <1>16 DEF LegsInv, LegsCached
    <2>2. Story(d, "ask", dest[u], rang[u], detail[u], count[u], answered[u], tried[u])
        BY <1>2, <1>16, <2>1 DEF LegsInv, StoryOf
    <2>3. answered[u] \in BOOLEAN /\ dest[u] \in Int
        BY <1>3 DEF LegsTyped
    <2>4. Len(d) >= 2
        BY <2>2 DEF Story, Position
    <2>5. CASE dest[u] \in 1 .. Len(d)
        <3>1. /\ phase'[u] = "dial" /\ dest'[u] = dest[u] /\ rang'[u] = FALSE
              /\ detail'[u] = detail[u] /\ count'[u] = count[u]
              /\ tried'[u] = Legs!Remember(tried[u], dest[u])
            BY <1>2, <1>3, <1>6, <1>7, <2>4, <2>5, LegsRun
        <3>2. Story(d, "dial", dest[u], FALSE, detail[u], count[u], answered[u],
                    Legs!Remember(tried[u], dest[u]))
            BY <1>6, <2>2, <2>3, <2>5, StoryDials
        <3> QED
            BY <1>2, <1>9, <3>1, <3>2 DEF StoryOf
    <2>6. CASE dest[u] \notin 1 .. Len(d)
        <3>1. /\ dest[u] \in {Legs!DoneKeep, Legs!Exhausted}
              /\ Story(d, "over", dest[u], rang[u], detail[u], count[u], answered[u], tried[u])
            BY <2>2, <2>3, <2>6, StoryEnds
        <3>2. /\ phase'[u] = "over" /\ dest'[u] = dest[u] /\ rang'[u] = rang[u]
              /\ detail'[u] = detail[u] /\ count'[u] = count[u] /\ tried'[u] = tried[u]
            BY <1>2, <1>3, <1>6, <1>7, <2>4, <3>1, LegsRun
        <3> QED
            BY <1>2, <1>9, <3>1, <3>2 DEF StoryOf
    <2> QED
        BY <2>5, <2>6
<1> QED
    BY <1>9, <1>10, <1>14, <1>15, <1>16, LegsFrame

LEMMA LegsRestart ==
    ASSUME LegsInv, Legs!Restart
    PROVE  LegsInv'
<1>1. lru' = <<>> /\ <<>> \in Seq(LegEntry) /\ Len(lru') = 0
    BY DEF Legs!Restart
<1>2. Single(lru') /\ LegsCached'
    BY <1>1 DEF Single, LegsCached
<1>3. Capacity \in Nat /\ MaxRestarts \in Nat
    BY LegsAssumption DEF Legs!FailoverConstants
<1>4. restarts' \in 0 .. MaxRestarts
    BY <1>3 DEF Legs!Restart, LegsInv, LegsTyped
<1>5. UNCHANGED <<doc, phase, dest, rang, detail, count, answered, tried, gone, others>>
    BY DEF Legs!Restart
<1>6. LegsTyped'
    BY <1>1, <1>2, <1>3, <1>4, <1>5 DEF LegsInv, LegsTyped
<1>7. \A u \in Call \ gone' : StoryOf(u)'
    BY <1>5 DEF LegsInv, StoryOf
<1> QED
    BY <1>2, <1>6, <1>7 DEF LegsInv

LEMMA LegsInit ==
    ASSUME Legs!Init
    PROVE  LegsInv
<1>1. lru = <<>> /\ <<>> \in Seq(LegEntry) /\ Len(lru) = 0 /\ <<>> \in Seq(Told) /\ <<>> \in Seq(Int)
    BY DEF Legs!Init
<1>2. Single(lru) /\ LegsCached
    BY <1>1 DEF Single, LegsCached
<1>3. Capacity \in Nat /\ MaxRestarts \in Nat
    BY LegsAssumption DEF Legs!FailoverConstants
<1>4. LegsTyped
    BY <1>1, <1>2, <1>3 DEF Legs!Init, LegsTyped, Phase
<1>5. ASSUME NEW u \in Call
      PROVE  StoryOf(u)
    <2>1. InOrder(<<>>, <<>>)
        BY <1>1 DEF InOrder
    <2>2. Position(<<>>, "new", 0, FALSE, <<>>, FALSE, 0)
        BY DEF Position
    <2>3. Len(<<>>) = 0 /\ ~(0 >= 2)
        OBVIOUS
    <2>4. Story(<<>>, "new", 0, FALSE, <<>>, 0, FALSE, <<>>)
        BY <2>1, <2>2, <2>3 DEF Story
    <2> QED
        BY <2>4 DEF Legs!Init, StoryOf
<1> QED
    BY <1>2, <1>4, <1>5 DEF LegsInv

LEMMA LegsNext ==
    ASSUME LegsInv, [Legs!Next]_failoverVars
    PROVE  LegsInv'
<1>1. CASE UNCHANGED failoverVars
    <2>1. /\ lru' = lru /\ doc' = doc /\ phase' = phase /\ dest' = dest /\ rang' = rang /\ detail' = detail
          /\ count' = count /\ answered' = answered /\ tried' = tried /\ gone' = gone /\ others' = others
          /\ restarts' = restarts
        BY <1>1 DEF failoverVars
    <2> QED
        BY <2>1 DEF LegsInv, LegsTyped, LegsCached, StoryOf
<1>2. ASSUME NEW u \in Call, Legs!Ask(u)
      PROVE  LegsInv'
    BY <1>2, LegsRouteNew, LegsReEnter DEF Legs!Ask
<1>3. ASSUME NEW u \in Call, Legs!Ring(u)
      PROVE  LegsInv'
    BY <1>3, LegsRing
<1>4. ASSUME NEW u \in Call, Legs!Dialled(u)
      PROVE  LegsInv'
    BY <1>4, LegsLegFails, LegsAnswer DEF Legs!Dialled
<1>5. ASSUME NEW u \in Call, Legs!Talked(u)
      PROVE  LegsInv'
    BY <1>5, LegsCalleeHangsUp DEF Legs!Talked
<1>6. ASSUME NEW u \in Call, Legs!CallerHangsUp(u)
      PROVE  LegsInv'
    BY <1>6, LegsOver DEF Legs!CallerHangsUp
<1>7. CASE Legs!Restart
    BY <1>7, LegsRestart
<1> QED
    BY <1>1, <1>2, <1>3, <1>4, <1>5, <1>6, <1>7 DEF Legs!Next

\* What the record of one call tells follows from its story.
LEMMA StoryIsTold ==
    ASSUME LegsInv, NEW u \in Call \ gone
    PROVE  /\ tried[u] = [i \in 1 .. Len(tried[u]) |-> i] /\ Len(tried[u]) <= Len(doc[u])
           /\ dest[u] = Legs!Exhausted =>
                \/ Len(tried[u]) = Len(doc[u])
                \/ doc[u][Len(tried[u])].pre_ring_only /\ rang[u]
           /\ Len(doc[u]) > 1 =>
                /\ count[u] = Legs!Cardinality({i \in DOMAIN detail[u] : detail[u][i].cause # "WIN"})
                /\ LET told == Legs!SwitchDetail(u)
                   IN  /\ Len(told) = Len(tried[u]) \/ (~answered[u] /\ Len(told) = Len(tried[u]) - 1)
                       /\ \A i \in DOMAIN told :
                            /\ told[i].leg = tried[u][i]
                            /\ (told[i].cause = "WIN") <=> (answered[u] /\ i = Len(told))
<1> DEFINE t == tried[u]
<1> DEFINE s == detail[u]
<1> DEFINE k == Len(t)
<1> DEFINE n == Len(doc[u])
<1>1. Story(doc[u], phase[u], dest[u], rang[u], s, count[u], answered[u], t)
    BY DEF LegsInv, StoryOf
<1>2. /\ doc[u] \in Document \cup {<<>>} /\ answered[u] \in BOOLEAN /\ phase[u] \in Phase
      /\ dest[u] \in Int
    BY DEF LegsInv, LegsTyped
<1>3. Legs!DoneKeep = -1 /\ Legs!Exhausted = -2 /\ n \in Nat
    <2>1. doc[u] \in Seq(Legs!Leg) /\ Legs!DoneKeep = -1 /\ Legs!Exhausted = -2
        BY <1>2, LegsConstants
    <2> QED
        BY <2>1
<1>4. t \in Seq(Int) /\ k <= n /\ k \in Nat /\ \A i \in 1 .. k : t[i] = i
    BY <1>1 DEF Story, InOrder
<1>5. t = [i \in 1 .. k |-> i]
    BY <1>4
<1>6. ASSUME dest[u] = Legs!Exhausted
      PROVE  k = n \/ (doc[u][k].pre_ring_only /\ rang[u])
    <2> HIDE DEF t, s, k, n
    <2>1. dest[u] # k /\ dest[u] # k + 1 /\ dest[u] # 0 /\ dest[u] # Legs!DoneKeep
        BY <1>3, <1>4, <1>6
    <2>2. Position(doc[u], phase[u], dest[u], rang[u], s, answered[u], k)
        BY <1>1 DEF Story, k
    <2> QED
        BY <1>6, <2>1, <2>2 DEF Position, n
<1>7. ASSUME n > 1
      PROVE  /\ count[u] = Legs!Cardinality({i \in DOMAIN s : s[i].cause # "WIN"})
             /\ LET told == Legs!SwitchDetail(u)
                IN  /\ Len(told) = k \/ (~answered[u] /\ Len(told) = k - 1)
                    /\ \A i \in DOMAIN told :
                        /\ told[i].leg = t[i]
                        /\ (told[i].cause = "WIN") <=> (answered[u] /\ i = Len(told))
    <2>1. Entries(s, count[u], answered[u], k)
        BY <1>1, <1>3, <1>7 DEF Story
    <2>2. /\ s \in Seq(Told) /\ Len(s) \in {k, k - 1} /\ (answered[u] => k >= 1)
          /\ \A i \in 1 .. Len(s) : s[i].leg = i
          /\ \A i \in 1 .. Len(s) : (s[i].cause = "WIN") <=> (answered[u] /\ i = k)
          /\ count[u] = IF answered[u] THEN k - 1 ELSE Len(s)
        BY <2>1 DEF Entries
    <2>3. Len(s) \in Nat /\ DOMAIN s = 1 .. Len(s)
        BY <2>2
    <2>4. count[u] \in Nat /\ {i \in DOMAIN s : s[i].cause # "WIN"} = 1 .. count[u]
        <3> HIDE DEF t, s, k, n
        <3>1. CASE answered[u]
            <4>1. k >= 1 /\ count[u] = k - 1
                BY <2>2, <3>1
            <4>2. \A i \in 1 .. Len(s) : s[i].cause # "WIN" <=> i # k
                BY <2>2, <3>1
            <4>3. \A i : i \in 1 .. Len(s) /\ i # k <=> i \in 1 .. k - 1
                BY <1>4, <2>2, <4>1
            <4> QED
                BY <1>4, <2>3, <4>1, <4>2, <4>3
        <3>2. CASE ~answered[u]
            BY <1>4, <2>2, <2>3, <3>2
        <3> QED
            BY <3>1, <3>2
    <2>5. Cardinality(1 .. count[u]) = count[u]
        BY <2>4, FS_Interval
    <2>6. count[u] = Legs!Cardinality({i \in DOMAIN s : s[i].cause # "WIN"})
        BY <2>4, <2>5 DEF Legs!Cardinality, Cardinality
    <2> DEFINE told == Legs!SwitchDetail(u)
    <2>7. CASE answered[u] /\ Len(s) = k - 1
        <3>1. ~Legs!HasWin(s)
            BY <1>4, <2>2, <2>3, <2>7 DEF Legs!HasWin
        <3>2. k >= 1 /\ Legs!Last(t) = k
            BY <1>4, <2>2, <2>7 DEF Legs!Last
        <3> DEFINE w == [leg |-> k, cause |-> "WIN"]
        <3>3. told = Append(s, w)
            BY <2>7, <3>1, <3>2 DEF Legs!SwitchDetail
        <3>4. w.leg = k /\ w.cause = "WIN" /\ w \in Told
            BY <1>4 DEF Told
        <3> HIDE DEF w, told
        <3>5. Len(told) = k /\ DOMAIN told = 1 .. k /\ told[k] = w /\ \A i \in 1 .. k - 1 : told[i] = s[i]
            BY <1>4, <2>2, <2>7, <3>2, <3>3, <3>4
        <3>6. ASSUME NEW i \in 1 .. k
              PROVE  told[i].leg = t[i] /\ ((told[i].cause = "WIN") <=> i = k)
            <4>1. CASE i = k
                BY <1>4, <3>4, <3>5, <4>1
            <4>2. CASE i # k
                <5>1. i \in 1 .. k - 1
                    BY <1>4, <4>2
                <5> QED
                    BY <1>4, <2>2, <2>7, <3>5, <4>2, <5>1
            <4> QED
                BY <4>1, <4>2
        <3> QED
            BY <2>6, <2>7, <3>5, <3>6 DEF told
    <2>8. CASE ~(answered[u] /\ Len(s) = k - 1)
        <3>1. ~(answered[u] /\ ~Legs!HasWin(s))
            <4> SUFFICES ASSUME answered[u] PROVE Legs!HasWin(s)
                OBVIOUS
            <4> HIDE DEF t, s, k, n
            <4>0. Len(s) = k /\ k >= 1 /\ k \in Nat
                BY <1>4, <2>2, <2>8
            <4>1. Len(s) = k /\ k \in 1 .. Len(s)
                BY ONLY <4>0
            <4>2. s[k].cause = "WIN"
                BY <2>2, <4>1
            <4> QED
                BY <2>3, <4>1, <4>2 DEF Legs!HasWin
        <3>2. told = s
            BY <3>1 DEF Legs!SwitchDetail
        <3>3. Len(s) = k \/ (~answered[u] /\ Len(s) = k - 1)
            BY <2>2, <2>8
        <3>4. ASSUME NEW i \in DOMAIN s
              PROVE  s[i].leg = t[i] /\ ((s[i].cause = "WIN") <=> (answered[u] /\ i = Len(s)))
            <4>1. i \in 1 .. Len(s) /\ i \in 1 .. k
                BY <1>4, <2>2, <2>3
            <4>2. s[i].leg = t[i]
                BY <1>4, <2>2, <4>1
            <4>3. answered[u] => Len(s) = k
                BY <2>2, <2>8
            <4> QED
                BY <2>2, <4>1, <4>2, <4>3
        <3> QED
            BY <2>6, <3>2, <3>3, <3>4
    <2> QED
        BY <2>7, <2>8
<1> QED
    BY <1>4, <1>5, <1>6, <1>7

\* Unless its document was gone, a call dials the legs of its first document in their
\* order, none twice and nothing after one was answered, is given up only when no leg may
\* follow, and its record tells the legs that were dialled and says WIN of the one that
\* was answered (api/dialplan_xml.py and _save_cdr of esl_client.py): for any documents,
\* whatever calls share the cache and however often the process starts anew.
THEOREM LegsAlwaysTold == DialplanSpec => []LegsAreTold
<1> DEFINE Inv == scenario = "legs" => LegsInv
<1>1. DialplanInit => Inv
    BY LegsInit DEF DialplanInit
<1>2. Inv /\ [DialplanNext]_<<scenario, failoverVars, routeVars, ruleVars>> => Inv'
    <2> SUFFICES ASSUME Inv, [DialplanNext]_<<scenario, failoverVars, routeVars, ruleVars>>, scenario' = "legs"
                 PROVE  LegsInv'
        OBVIOUS
    <2>1. scenario = "legs" /\ [Legs!Next]_failoverVars
        BY DEF DialplanNext
    <2> QED
        BY <2>1, LegsNext
<1>3. Inv => LegsAreTold
    <2> SUFFICES ASSUME LegsInv
                 PROVE  /\ Legs!TypeOK /\ Legs!LegsInOrder /\ Legs!GivenUpLate
                        /\ Legs!RecordTellsLegs /\ Legs!FailuresCounted
        BY DEF LegsAreTold
    <2>1. Legs!TypeOK
        <3>1. \A i \in DOMAIN lru : lru[i] \in LegEntry
            BY DEF LegsInv, LegsTyped
        <3>2. \A i \in DOMAIN lru : lru[i].call \in Call /\ lru[i].doc \in Document
            BY <3>1 DEF LegEntry
        <3>3. DOMAIN lru = 1 .. Len(lru)
            BY DEF LegsInv, LegsTyped
        <3> QED
            BY <3>2, <3>3 DEF LegsInv, LegsTyped, Legs!TypeOK, Single, Phase
    <2>2. Legs!LegsInOrder
        BY StoryIsTold DEF Legs!LegsInOrder
    <2>3. Legs!GivenUpLate
        BY StoryIsTold DEF Legs!GivenUpLate
    <2>4. Legs!FailuresCounted
        BY StoryIsTold DEF Legs!FailuresCounted
    <2>5. Legs!RecordTellsLegs
        BY StoryIsTold DEF Legs!RecordTellsLegs
    <2> QED
        BY <2>1, <2>2, <2>3, <2>4, <2>5
<1> QED
    BY <1>1, <1>2, <1>3, PTL DEF DialplanSpec
-----------------------------------------------------------------------------
(* The order of candidates. *)

PrefixRow == [gw : Nat, len : Nat, prio : Int]

Earlier(rows, r) == {s \in rows : InTurn(s, r)}
Turn(rows, r) == Cardinality(Earlier(rows, r)) + 1

\* One row is before the other, never both.
LEMMA TurnsAreStrict ==
    ASSUME NEW r \in PrefixRow, NEW s \in PrefixRow
    PROVE  /\ ~InTurn(r, r)
           /\ r # s => InTurn(r, s) \/ InTurn(s, r)
           /\ InTurn(r, s) => ~InTurn(s, r)
BY DEF PrefixRow, InTurn, Before

LEMMA TurnsAreTransitive ==
    ASSUME NEW r \in PrefixRow, NEW s \in PrefixRow, NEW t \in PrefixRow, InTurn(r, s), InTurn(s, t)
    PROVE  InTurn(r, t)
BY DEF PrefixRow, InTurn, Before

\* The turn of a row is a position, and a later row has a later turn.
LEMMA TurnsGrow ==
    ASSUME NEW rows \in SUBSET PrefixRow, IsFiniteSet(rows), NEW r \in rows
    PROVE  /\ Turn(rows, r) \in 1 .. Cardinality(rows)
           /\ \A s \in rows : InTurn(r, s) => Turn(rows, r) < Turn(rows, s)
<1>1. ASSUME NEW s \in rows
      PROVE  /\ IsFiniteSet(Earlier(rows, s)) /\ Cardinality(Earlier(rows, s)) \in Nat
             /\ Cardinality(Earlier(rows, s)) < Cardinality(rows) /\ Cardinality(rows) \in Nat
    <2>1. Earlier(rows, s) \in SUBSET rows /\ s \notin Earlier(rows, s)
        BY TurnsAreStrict DEF Earlier
    <2>2. /\ IsFiniteSet(Earlier(rows, s)) /\ Cardinality(Earlier(rows, s)) <= Cardinality(rows)
          /\ Cardinality(rows) = Cardinality(Earlier(rows, s)) => rows = Earlier(rows, s)
        BY <2>1, FS_Subset
    <2> QED
        BY <2>1, <2>2, FS_CardinalityType
<1>2. ASSUME NEW s \in rows, InTurn(r, s) PROVE Turn(rows, r) < Turn(rows, s)
    <2>1. Earlier(rows, r) \in SUBSET Earlier(rows, s)
        BY <1>2, TurnsAreTransitive DEF Earlier
    <2>2. r \in Earlier(rows, s) /\ r \notin Earlier(rows, r)
        BY <1>2, TurnsAreStrict DEF Earlier
    <2>3. /\ Cardinality(Earlier(rows, r)) <= Cardinality(Earlier(rows, s))
          /\ Cardinality(Earlier(rows, s)) = Cardinality(Earlier(rows, r)) => Earlier(rows, s) = Earlier(rows, r)
        BY <1>1, <2>1, FS_Subset
    <2> QED
        BY <1>1, <2>2, <2>3 DEF Turn
<1> QED
    BY <1>1, <1>2 DEF Turn

\* Every turn is that of one row.
LEMMA TurnsAreTaken ==
    ASSUME NEW rows \in SUBSET PrefixRow, IsFiniteSet(rows)
    PROVE  /\ Cardinality(rows) \in Nat
           /\ \A i \in 1 .. Cardinality(rows) : \E r \in rows : Turn(rows, r) = i
           /\ \A r, s \in rows : Turn(rows, r) = Turn(rows, s) => r = s
<1> DEFINE n == Cardinality(rows)
<1> DEFINE turn == [r \in rows |-> Turn(rows, r)]
<1>1. n \in Nat
    BY FS_CardinalityType
<1>2. \A r, s \in rows : Turn(rows, r) = Turn(rows, s) => r = s
    <2>1. \A r \in rows : Turn(rows, r) \in Nat
        BY <1>1, TurnsGrow
    <2> QED
        BY <2>1, TurnsGrow, TurnsAreStrict
<1>3. turn \in Injection(rows, 1 .. n)
    BY <1>2, TurnsGrow DEF Injection, IsInjective
<1>4. IsFiniteSet(1 .. n) /\ Cardinality(1 .. n) = n
    BY <1>1, FS_Interval
<1>5. turn \in Surjection(rows, 1 .. n)
    BY <1>3, <1>4, FS_Injection
<1> QED
    BY <1>1, <1>2, <1>5 DEF Surjection

\* The row whose turn is the i-th.
RowAt(rows, i) == CHOOSE r \in rows : Turn(rows, r) = i

\* The gateways of rows, one for each, in the order of their rows.
LEMMA OrderedIs ==
    ASSUME NEW rows \in SUBSET PrefixRow, IsFiniteSet(rows)
    PROVE  /\ Ordered(rows) \in Seq({r.gw : r \in rows}) /\ Len(Ordered(rows)) = Cardinality(rows)
           /\ Cardinality(rows) \in Nat
           /\ \A i \in 1 .. Cardinality(rows) : RowAt(rows, i) \in rows /\ Ordered(rows)[i] = RowAt(rows, i).gw
           /\ \A r \in rows : Turn(rows, r) \in 1 .. Cardinality(rows) /\ RowAt(rows, Turn(rows, r)) = r
           /\ \A i, j \in 1 .. Cardinality(rows) : InTurn(RowAt(rows, i), RowAt(rows, j)) => i < j
<1>1. Ordered(rows) = [i \in 1 .. Cardinality(rows) |-> RowAt(rows, i).gw]
    BY DEF Ordered, RowAt, Turn, Earlier
<1>2. \A i \in 1 .. Cardinality(rows) : RowAt(rows, i) \in rows /\ Turn(rows, RowAt(rows, i)) = i
    BY TurnsAreTaken DEF RowAt
<1>3. Cardinality(rows) \in Nat
    BY TurnsAreTaken
<1>4. \A r \in rows : Turn(rows, r) \in 1 .. Cardinality(rows) /\ RowAt(rows, Turn(rows, r)) = r
    BY <1>2, TurnsGrow, TurnsAreTaken
<1>5. \A i, j \in 1 .. Cardinality(rows) : InTurn(RowAt(rows, i), RowAt(rows, j)) => i < j
    BY <1>2, TurnsGrow
<1>6. Ordered(rows) \in [1 .. Cardinality(rows) -> {r.gw : r \in rows}]
    BY <1>1, <1>2
<1>7. Ordered(rows) \in Seq({r.gw : r \in rows}) /\ Len(Ordered(rows)) = Cardinality(rows)
    BY <1>3, <1>6
<1> QED
    BY <1>1, <1>2, <1>3, <1>4, <1>5, <1>7

\* Each of the gateways has its turn.
LEMMA OrderedHasAll ==
    ASSUME NEW rows \in SUBSET PrefixRow, IsFiniteSet(rows)
    PROVE  ToSet(Ordered(rows)) = {r.gw : r \in rows}
<1>1. Ordered(rows) \in Seq({r.gw : r \in rows})
    BY OrderedIs
<1>2. ASSUME NEW r \in rows PROVE r.gw \in ToSet(Ordered(rows))
    <2>1. /\ Turn(rows, r) \in 1 .. Cardinality(rows) /\ Len(Ordered(rows)) = Cardinality(rows)
          /\ Ordered(rows)[Turn(rows, r)] = r.gw
        BY OrderedIs
    <2>2. Turn(rows, r) \in DOMAIN Ordered(rows)
        BY <1>1, <2>1
    <2> QED
        BY <2>1, <2>2 DEF ToSet
<1> QED
    BY <1>1, <1>2 DEF ToSet

-----------------------------------------------------------------------------
(* Routes. *)

RouteTyped ==
    /\ setup \in Setup /\ routes \in SUBSET setup.routes /\ poor \in SUBSET Ap
    /\ listed \in SUBSET Ap /\ named \in SUBSET Ap

RouteInv ==
    /\ RouteTyped
    /\ FirstLegIsBest /\ EveryCarrierIsALeg
    /\ RefusedOnlyByAll /\ TrunkAccessHolds /\ (setup.context # "trunk" => PoorIsRefused)

\* The rows that are left can be ordered, and are of the gateways that can carry the call.
LEMMA KeptIs ==
    ASSUME RouteTyped, NEW a
    PROVE  /\ Kept(a) \in SUBSET PrefixRow /\ IsFiniteSet(Kept(a))
           /\ {r.gw : r \in Kept(a)} = {g \in Gateway : CanCarry(a, g)}
           /\ \A g : CanCarry(a, g) <=> g \in {r.gw : r \in Kept(a)}
<1>1. routes \in SUBSET PrefixRow /\ IsFiniteSet(routes) /\ \A r \in routes : r.gw \in Gateway
    <2>1. /\ setup.gateways \subseteq Nat
          /\ setup.routes \subseteq [gw : setup.gateways, len : Nat, prio : Int] /\ IsFiniteSet(setup.routes)
        BY SetupTypes DEF RouteTyped
    <2> QED
        BY <2>1, FS_Subset DEF RouteTyped, PrefixRow, Gateway
<1>2. Kept(a) \in SUBSET routes
    BY DEF Kept, Eligible
<1>3. \A g : CanCarry(a, g) <=> g \in {r.gw : r \in Kept(a)}
    BY DEF CanCarry, Kept
<1>4. \A r \in Kept(a) : r.gw \in Gateway
    BY <1>1, <1>2
<1> QED
    BY <1>1, <1>2, <1>3, <1>4, FS_Subset

\* Of the gateways before the i-th none is of a row whose turn is later.
LEMMA TriedFirst ==
    ASSUME NEW rows \in SUBSET PrefixRow, IsFiniteSet(rows),
           NEW i \in 1 .. Cardinality(rows), NEW r \in rows, InTurn(r, RowAt(rows, i))
    PROVE  r.gw \in {Ordered(rows)[k] : k \in 1 .. (i - 1)}
<1> DEFINE j == Turn(rows, r)
<1>1. j \in 1 .. Cardinality(rows) /\ RowAt(rows, j) = r /\ Ordered(rows)[j] = r.gw
    BY OrderedIs
<1> HIDE DEF j
<1>2. \A k, l \in 1 .. Cardinality(rows) : InTurn(RowAt(rows, k), RowAt(rows, l)) => k < l
    BY OrderedIs
<1>3. j < i
    BY <1>1, <1>2
<1>4. Cardinality(rows) \in Nat
    BY FS_CardinalityType
<1>5. j \in 1 .. (i - 1)
    BY <1>1, <1>3, <1>4
<1> QED
    BY <1>1, <1>5

\* The reserved gateway is in front, and the gateways of all rows are legs.
LEMMA WithFirstIs ==
    ASSUME NEW rows \in SUBSET PrefixRow, IsFiniteSet(rows), NEW i \in 1 .. Cardinality(rows)
    PROVE  LET g == Ordered(rows)[i]
               legs == WithFirst(rows, g)
           IN  /\ Head(legs) = g /\ legs[1] = g
               /\ ToSet(legs) = {r.gw : r \in rows}
               /\ g # Ordered(rows)[1] => \A k \in DOMAIN legs : legs[k] = g => k = 1
<1> DEFINE g == Ordered(rows)[i]
<1> DEFINE legs == WithFirst(rows, g)
<1> DEFINE rest == {r \in rows : r.gw # g}
<1>1. /\ Ordered(rows) \in Seq({r.gw : r \in rows}) /\ Len(Ordered(rows)) = Cardinality(rows)
      /\ Cardinality(rows) \in Nat /\ g \in {r.gw : r \in rows}
    BY OrderedIs
<1>2. ToSet(Ordered(rows)) = {r.gw : r \in rows}
    BY OrderedHasAll
<1>3. CASE g = Ordered(rows)[1]
    <2>1. legs = Ordered(rows)
        BY <1>3 DEF WithFirst
    <2> QED
        BY <1>1, <1>2, <1>3, <2>1
<1>4. CASE g # Ordered(rows)[1]
    <2>1. rest \in SUBSET PrefixRow /\ IsFiniteSet(rest)
        BY FS_Subset
    <2>2. /\ Ordered(rest) \in Seq({r.gw : r \in rest}) /\ Len(Ordered(rest)) = Cardinality(rest)
          /\ Cardinality(rest) \in Nat
        BY <2>1, OrderedIs
    <2>3. ToSet(Ordered(rest)) = {r.gw : r \in rest}
        BY <2>1, OrderedHasAll
    <2>4. legs = <<g>> \o Ordered(rest)
        BY <1>4 DEF WithFirst
    <2>5. /\ Head(legs) = g /\ legs[1] = g /\ DOMAIN legs = 1 .. (Len(Ordered(rest)) + 1)
          /\ \A k \in 2 .. (Len(Ordered(rest)) + 1) : legs[k] = Ordered(rest)[k - 1]
        BY <2>2, <2>4
    <2>6. ASSUME NEW k \in DOMAIN legs, k # 1 PROVE legs[k] \in {r.gw : r \in rest}
        <3>1. k \in 2 .. (Len(Ordered(rest)) + 1) /\ k - 1 \in 1 .. Len(Ordered(rest))
            BY <2>2, <2>5, <2>6
        <3> QED
            BY <2>2, <2>5, <3>1
    <2>7. \A k \in DOMAIN legs : legs[k] = g => k = 1
        BY <2>6
    <2>8. ToSet(legs) \subseteq {r.gw : r \in rows}
        BY <1>1, <2>5, <2>6 DEF ToSet
    <2>9. ASSUME NEW r \in rows PROVE r.gw \in ToSet(legs)
        <3>1. CASE r.gw = g
            <4>1. 1 \in DOMAIN legs
                BY <2>2, <2>5
            <4> QED
                BY <2>5, <3>1, <4>1 DEF ToSet
        <3>2. CASE r.gw # g
            <4>1. r.gw \in ToSet(Ordered(rest))
                BY <2>3, <3>2
            <4>2. PICK k \in DOMAIN Ordered(rest) : Ordered(rest)[k] = r.gw
                BY <4>1 DEF ToSet
            <4>3. k \in 1 .. Len(Ordered(rest))
                BY <2>2, <4>2
            <4>4. k + 1 \in DOMAIN legs /\ legs[k + 1] = r.gw
                <5>1. k + 1 \in 2 .. (Len(Ordered(rest)) + 1) /\ (k + 1) - 1 = k
                    BY <2>2, <4>3
                <5>2. k + 1 \in DOMAIN legs
                    BY <2>2, <2>5, <4>3
                <5> QED
                    BY <2>5, <4>2, <5>1, <5>2
            <4> QED
                BY <4>4 DEF ToSet
        <3> QED
            BY <3>1, <3>2
    <2> QED
        BY <2>5, <2>7, <2>8, <2>9
<1> QED
    BY <1>3, <1>4

\* Kinds of answer of a call that was routed, and of one that never was.
BusyKind == {"busy_redis", "busy_global", "busy_ap"}
RoutedKind == {"no_route", "gw_rules", "busy_gw", "legs"} \cup BusyKind
OtherKind == {"no_ap", "ap_rules", "no_balance", "rules"}

\* Limits of others than the gateways are only asked once a gateway could carry the call.
LEMMA BusyReply ==
    ASSUME RouteTyped, NEW a, Kept(a) # {}, NEW k \in BusyKind, NEW refused \in SUBSET Limited,
           Reply(k, a, <<>>, refused)
    PROVE  /\ FirstLegIsBest' /\ EveryCarrierIsALeg' /\ RefusedOnlyByAll'
           /\ answer'.ap = a /\ answer'.kind = k /\ UNCHANGED tables
<1>1. answer' = [kind |-> k, ap |-> a, legs |-> <<>>, refused |-> refused] /\ UNCHANGED tables
    BY DEF Reply
<1>2. \E g \in Gateway : CanCarry(a, g)
    BY KeptIs
<1>3. (\E g \in Gateway : CanCarry(a, g))'
    BY <1>1, <1>2 DEF tables, CanCarry, Eligible, PolicyAllows, Registered, Gateway
<1>4. answer'.kind \notin {"legs", "no_route", "gw_rules", "busy_gw"} /\ answer'.ap = a /\ answer'.refused = refused
    BY <1>1 DEF BusyKind
<1>5. RefusedOnlyByAll'
    BY <1>1, <1>3, <1>4 DEF RefusedOnlyByAll, tables, Limited
<1> QED
    BY <1>1, <1>4, <1>5 DEF FirstLegIsBest, EveryCarrierIsALeg

\* What a call is answered with, once its access point is known.
LEMMA RouteViaStep ==
    ASSUME RouteTyped, NEW a, RouteVia(a)
    PROVE  /\ FirstLegIsBest' /\ EveryCarrierIsALeg' /\ RefusedOnlyByAll'
           /\ answer'.ap = a /\ answer'.kind \in RoutedKind /\ UNCHANGED tables
<1> DEFINE rows == Kept(a)
<1> DEFINE todo == Ordered(rows)
<1> USE DEF Reply, FirstLegIsBest, EveryCarrierIsALeg, RefusedOnlyByAll, RoutedKind
<1>1. /\ rows \in SUBSET PrefixRow /\ IsFiniteSet(rows)
      /\ {r.gw : r \in rows} = {g \in Gateway : CanCarry(a, g)}
      /\ \A g : CanCarry(a, g) <=> g \in {r.gw : r \in rows}
    BY KeptIs
<1>2. CASE Eligible(a) = {} /\ Reply("no_route", a, <<>>, {})
    <2>1. \A g \in up \ (Registered \ mine) :
            (\E r \in routes : r.gw = g) => a # NoAp /\ ~PolicyAllows(a, g)
        BY <1>2 DEF Eligible
    <2> QED
        BY <1>2, <2>1 DEF tables, PolicyAllows, Registered, Gateway
<1>3. CASE Eligible(a) # {} /\ Kept(a) = {} /\ Reply("gw_rules", a, <<>>, {})
    <2>1. \A r \in Eligible(a) : r.gw \in gwRefuses
        BY <1>3 DEF Kept
    <2> QED
        BY <1>3, <2>1 DEF tables, Eligible, PolicyAllows, Registered, Gateway
<1>4. CASE Kept(a) # {} /\ ToSet(todo) \subseteq Limited /\ Reply("busy_gw", a, <<>>, ToSet(todo))
    <2>1. ToSet(todo) = {g \in Gateway : CanCarry(a, g)}
        BY <1>1, OrderedHasAll
    <2> QED
        BY <1>4, <2>1 DEF tables, CanCarry, Eligible, PolicyAllows, Registered, Gateway, Limited
<1>5. ASSUME NEW i \in DOMAIN todo,
             {todo[k] : k \in 1..(i - 1)} \subseteq Limited,
             Reply("legs", a, WithFirst(Kept(a), todo[i]), {todo[k] : k \in 1..(i - 1)})
      PROVE  /\ FirstLegIsBest' /\ EveryCarrierIsALeg' /\ RefusedOnlyByAll'
             /\ answer'.ap = a /\ answer'.kind = "legs" /\ UNCHANGED tables
    <2> DEFINE g == todo[i]
    <2> DEFINE legs == WithFirst(rows, g)
    <2> DEFINE refused == {todo[k] : k \in 1..(i - 1)}
    <2>1. i \in 1 .. Cardinality(rows) /\ Cardinality(rows) \in Nat
        <3>1. /\ todo \in Seq({r.gw : r \in rows}) /\ Len(todo) = Cardinality(rows)
              /\ Cardinality(rows) \in Nat
            BY <1>1, OrderedIs
        <3> QED
            BY <1>5, <3>1
    <2>2. /\ Head(legs) = g /\ legs[1] = g /\ ToSet(legs) = {r.gw : r \in rows}
          /\ g # todo[1] => \A k \in DOMAIN legs : legs[k] = g => k = 1
        BY <1>1, <2>1, WithFirstIs
    <2>3. RowAt(rows, i) \in rows /\ g = RowAt(rows, i).gw
        BY <1>1, <2>1, OrderedIs
    <2>4. ASSUME NEW h \in Gateway, CanCarry(a, h), Ahead(a, h, g) PROVE h \in refused
        <3>1. PICK r \in rows : r.gw = h /\ InTurn(r, RowAt(rows, i))
            <4>1. CASE h \notin full /\ g \in full
                BY <1>1, <2>3, <2>4, <4>1 DEF InTurn
            <4>2. CASE /\ h \in full <=> g \in full
                       /\ \E r \in Eligible(a) : r.gw = h /\ \A s \in Eligible(a) : s.gw = g => Before(r, s)
                <5>1. PICK r \in Eligible(a) : r.gw = h /\ \A s \in Eligible(a) : s.gw = g => Before(r, s)
                    BY <4>2
                <5>2. r \in rows /\ RowAt(rows, i) \in Eligible(a)
                    BY <2>3, <2>4, <5>1 DEF Kept, CanCarry
                <5> QED
                    BY <2>3, <4>2, <5>1, <5>2 DEF InTurn
            <4> QED
                BY <2>4, <4>1, <4>2 DEF Ahead
        <3> QED
            BY <1>1, <2>1, <3>1, TriedFirst
    <2>5. CanCarry(a, g)
        BY <1>1, <2>3
    <2>6. refused # {} /\ legs[1] \notin refused => \A k \in DOMAIN legs : legs[k] = legs[1] => k = 1
        <3>1. CASE g = todo[1]
            <4>1. i = 1 \/ 1 \in 1 .. (i - 1)
                BY <2>1
            <4>2. i = 1 => refused = {}
                BY <2>1
            <4>3. 1 \in 1 .. (i - 1) => g \in refused
                BY <3>1
            <4> QED
                BY <2>2, <4>1, <4>2, <4>3
        <3> QED
            BY <2>2, <3>1
    <2>7. ToSet(legs) = {h \in Gateway : CanCarry(a, h)}
        BY <1>1, <2>2
    <2>8. /\ answer' = [kind |-> "legs", ap |-> a, legs |-> legs, refused |-> refused]
          /\ UNCHANGED tables /\ refused \subseteq Limited
        BY <1>5
    <2> HIDE DEF legs, refused, g
    <2>10. FirstLegIsBest'
        BY <2>2, <2>4, <2>5, <2>8 DEF tables, CanCarry, Ahead, Eligible, PolicyAllows, Registered, Gateway, Before
    <2>11. EveryCarrierIsALeg'
        BY <2>2, <2>6, <2>7, <2>8 DEF tables, CanCarry, Eligible, PolicyAllows, Registered, Gateway
    <2>12. RefusedOnlyByAll'
        BY <2>8 DEF tables, Limited
    <2> QED
        BY <2>8, <2>10, <2>11, <2>12
<1>6. CASE Kept(a) # {} /\ Precheck(a)
    <2>1. PICK k \in BusyKind : Reply(k, a, <<>>, {})
        BY <1>6 DEF Precheck, BusyKind
    <2> HIDE DEF Reply, FirstLegIsBest, EveryCarrierIsALeg, RefusedOnlyByAll
    <2> QED
        BY <1>6, <2>1, BusyReply
<1>7. ASSUME NEW i \in DOMAIN todo, {todo[k] : k \in 1..(i - 1)} \subseteq Limited, Kept(a) # {},
             NEW k \in BusyKind, Reply(k, a, <<>>, {todo[l] : l \in 1..(i - 1)})
      PROVE  /\ FirstLegIsBest' /\ EveryCarrierIsALeg' /\ RefusedOnlyByAll'
             /\ answer'.ap = a /\ answer'.kind \in BusyKind /\ UNCHANGED tables
    <2> HIDE DEF todo, Reply, FirstLegIsBest, EveryCarrierIsALeg, RefusedOnlyByAll
    <2> QED
        BY <1>7, BusyReply
<1>8. CASE Kept(a) # {} /\ Reserve(a, todo)
    <2> HIDE DEF Reply, FirstLegIsBest, EveryCarrierIsALeg, RefusedOnlyByAll
    <2>1. \/ ToSet(todo) \subseteq Limited /\ Reply("busy_gw", a, <<>>, ToSet(todo))
          \/ \E i \in DOMAIN todo :
                /\ {todo[k] : k \in 1..(i - 1)} \subseteq Limited
                /\ \/ Reply("legs", a, WithFirst(Kept(a), todo[i]), {todo[k] : k \in 1..(i - 1)})
                   \/ \E k \in BusyKind : Reply(k, a, <<>>, {todo[l] : l \in 1..(i - 1)})
        BY <1>8 DEF Reserve, BusyKind
    <2> HIDE DEF todo
    <2> QED
        BY <1>4, <1>5, <1>7, <1>8, <2>1
<1> QED
    BY <1>2, <1>3, <1>6, <1>8, RouteVia(a) DEF RouteVia

\* An answer that has no route says nothing about gateways.
LEMMA OtherReply ==
    ASSUME RouteTyped, NEW k \in OtherKind, NEW a, Reply(k, a, <<>>, {})
    PROVE  /\ FirstLegIsBest' /\ EveryCarrierIsALeg' /\ RefusedOnlyByAll' /\ PoorIsRefused'
           /\ answer'.kind = k /\ answer'.ap = a /\ UNCHANGED tables
BY DEF Reply, FirstLegIsBest, EveryCarrierIsALeg, RefusedOnlyByAll, PoorIsRefused, OtherKind

\* Neither the answers without a route nor those with one say more of a trunk.
LEMMA OtherTrunk ==
    ASSUME NEW k \in OtherKind, k # "ap_rules", answer'.kind = k
    PROVE  TrunkAccessHolds'
BY DEF TrunkAccessHolds, OtherKind

LEMMA RouteStep == RouteInv /\ [Next]_vars => RouteInv'
<1> SUFFICES ASSUME RouteInv, [Next]_vars PROVE RouteInv'
    OBVIOUS
<1>0. RouteTyped /\ NoAp \notin Ap
    BY SetupTypes DEF RouteInv, RouteTyped, Ap
<1>1. ASSUME UNCHANGED tables PROVE RouteTyped' /\ setup' = setup
    BY <1>0, <1>1 DEF RouteTyped, tables, Ap
<1>2. CASE UNCHANGED vars
    <2>1. UNCHANGED tables /\ answer' = answer
        BY <1>2 DEF vars, tables
    <2> QED
        BY <1>1, <2>1 DEF RouteInv, tables, FirstLegIsBest, EveryCarrierIsALeg, RefusedOnlyByAll, TrunkAccessHolds,
           PoorIsRefused, CanCarry, Ahead, Eligible, PolicyAllows, Before, Registered, Gateway, IpMode, Prepaid, Limited
<1>3. ASSUME NEW k \in OtherKind, k # "ap_rules" \/ setup.context # "trunk", NEW a, Reply(k, a, <<>>, {})
      PROVE  RouteInv'
    <2>1. /\ FirstLegIsBest' /\ EveryCarrierIsALeg' /\ RefusedOnlyByAll' /\ PoorIsRefused'
          /\ answer'.kind = k /\ UNCHANGED tables
        BY <1>0, <1>3, OtherReply
    <2>2. TrunkAccessHolds'
        <3>1. CASE setup.context # "trunk"
            BY <1>1, <2>1, <3>1 DEF TrunkAccessHolds
        <3> QED
            BY <1>3, <2>1, <3>1, OtherTrunk
    <2> QED
        BY <1>1, <2>1, <2>2 DEF RouteInv
<1>4. ASSUME PhoneCall, NEW a, ~Refused(a) PROVE RouteInv'
    <2>1. RouteVia(NoAp) /\ setup.context = "phone"
        BY <1>4 DEF PhoneCall
    <2>2. /\ FirstLegIsBest' /\ EveryCarrierIsALeg' /\ RefusedOnlyByAll' /\ answer'.ap = NoAp /\ UNCHANGED tables
        BY <1>0, <2>1, RouteViaStep
    <2>3. NoAp \notin poor' /\ setup'.context = "phone"
        BY <1>0, <2>1, <2>2 DEF tables, RouteTyped
    <2>4. PoorIsRefused'
        BY <1>4, <2>2, <2>3 DEF PoorIsRefused, Refused, tables, Prepaid
    <2> QED
        BY <1>1, <2>2, <2>3, <2>4 DEF RouteInv, TrunkAccessHolds
<1>5. ASSUME NEW a, DefaultCall(a), ~Refused(a) PROVE RouteInv'
    <2>1. setup.context = "default"
        BY <1>5 DEF DefaultCall
    <2>2. CASE RouteVia(a)
        <3>1. /\ FirstLegIsBest' /\ EveryCarrierIsALeg' /\ RefusedOnlyByAll' /\ answer'.ap = a /\ UNCHANGED tables
            BY <1>0, <2>2, RouteViaStep
        <3>2. setup'.context = "default"
            BY <2>1, <3>1 DEF tables
        <3>3. PoorIsRefused'
            BY <1>5, <3>1 DEF PoorIsRefused, Refused, tables, Prepaid
        <3> QED
            BY <1>1, <3>1, <3>2, <3>3 DEF RouteInv, TrunkAccessHolds
    <2> QED
        BY <1>3, <1>5, <2>1, <2>2 DEF DefaultCall, OtherKind
<1>6. ASSUME TrunkCall PROVE RouteInv'
    <2>1. setup.context = "trunk"
        BY <1>6 DEF TrunkCall
    <2>2. CASE Reply("no_ap", NoAp, <<>>, {})
        BY <1>3, <2>2 DEF OtherKind
    <2>3. CASE listed \cap IpMode \subseteq apRefuses /\ Reply("ap_rules", NoAp, <<>>, {})
        <3>1. "ap_rules" \in OtherKind
            BY DEF OtherKind
        <3>2. /\ FirstLegIsBest' /\ EveryCarrierIsALeg' /\ RefusedOnlyByAll' /\ PoorIsRefused'
              /\ answer'.kind = "ap_rules" /\ UNCHANGED tables
            BY <1>0, <2>3, <3>1, OtherReply
        <3>3. listed' \cap IpMode' \subseteq apRefuses'
            BY <2>3, <3>2 DEF tables, IpMode
        <3> QED
            BY <1>1, <3>2, <3>3 DEF RouteInv, TrunkAccessHolds
    <2>4. ASSUME NEW a \in Ap, TrunkAp(a), RouteVia(a) PROVE RouteInv'
        <3>1. /\ FirstLegIsBest' /\ EveryCarrierIsALeg' /\ RefusedOnlyByAll' /\ answer'.ap = a /\ UNCHANGED tables
              /\ answer'.kind \in RoutedKind
            BY <1>0, <2>4, RouteViaStep
        <3>2. setup'.context = "trunk" /\ a \in (listed' \cap IpMode') \ apRefuses'
            BY <2>1, <2>4, <3>1 DEF TrunkAp, tables, IpMode
        <3>3. TrunkAccessHolds'
            BY <3>1, <3>2 DEF TrunkAccessHolds, RoutedKind, BusyKind
        <3> QED
            BY <1>1, <3>1, <3>2, <3>3 DEF RouteInv
    <2> QED
        BY <1>6, <2>2, <2>3, <2>4 DEF TrunkCall
<1>7. CASE Request
    <2>1. PICK a \in Owners :
              \/ NoBalance(a)
              \/ ~Refused(a) /\ globalRefuses /\ Reply("rules", NoAp, <<>>, {})
              \/ ~Refused(a) /\ ~globalRefuses /\ (PhoneCall \/ DefaultCall(a) \/ TrunkCall)
        BY <1>7 DEF Request
    <2>2. CASE NoBalance(a)
        <3>1. Reply("no_balance", IF payer = "none" THEN a ELSE NoAp, <<>>, {})
            BY <2>2 DEF NoBalance
        <3> QED
            BY <1>3, <3>1 DEF OtherKind
    <2>3. CASE Reply("rules", NoAp, <<>>, {})
        BY <1>3, <2>3 DEF OtherKind
    <2> QED
        BY <1>4, <1>5, <1>6, <2>1, <2>2, <2>3
<1> QED
    BY <1>2, <1>7 DEF Next, Served

LEMMA RouteInit == Init => RouteInv
BY DEF Init, RouteInv, RouteTyped, FirstLegIsBest, EveryCarrierIsALeg, RefusedOnlyByAll, TrunkAccessHolds, PoorIsRefused

LEMMA RoutesAlways == DialplanSpec => [](scenario = "routes" => RouteInv)
<1> DEFINE Inv == scenario = "routes" => RouteInv
<1>1. DialplanInit => Inv
    BY RouteInit DEF DialplanInit
<1>2. Inv /\ [DialplanNext]_<<scenario, failoverVars, routeVars, ruleVars>> => Inv'
    <2> SUFFICES ASSUME Inv, [DialplanNext]_<<scenario, failoverVars, routeVars, ruleVars>>, scenario' = "routes"
                 PROVE  RouteInv'
        OBVIOUS
    <2>1. scenario = "routes" /\ [Next]_vars
        BY DEF DialplanNext, routeVars
    <2> QED
        BY <2>1, RouteStep
<1> QED
    BY <1>1, <1>2, PTL DEF DialplanSpec

\* Whatever the tables hold, a call rings first at the best gateway that may carry it and
\* has a slot, and every other one that may carry it is a later leg
\* (select_outbound_gateway, _order_by_concurrency, _route_via_ap).
THEOREM BestLegAlwaysFirst == DialplanSpec => []BestLegIsFirst
<1>1. (scenario = "routes" => RouteInv) => BestLegIsFirst
    BY DEF RouteInv, BestLegIsFirst
<1> QED
    BY <1>1, RoutesAlways, PTL

\* Whatever the tables, the limits and the balances are, a call is refused by gateway rules,
\* for want of a route or as busy at the gateways only if every gateway it could have had
\* refuses it, and for the global limit, its access point's or want of Redis only if a
\* gateway could carry it; outside a trunk an account without balance is not routed
\* (_filter_candidates_by_gw_rules, _conc_reserve_candidates, _trunk_branch, fs_dialplan).
THEOREM RefusedOnlyEverByAll == DialplanSpec => []RefusedOnlyIfAllRefuse
<1>1. (scenario = "routes" => RouteInv) => RefusedOnlyIfAllRefuse
    BY DEF RouteInv, RefusedOnlyIfAllRefuse
<1> QED
    BY <1>1, RoutesAlways, PTL
-----------------------------------------------------------------------------
(* Rules. *)

\* The rows have an id of their own and say something about a number.
RuleRow == [id : Nat, act : 1 .. 3, pattern : Pattern, replace : Replacement \cup {Null}]

RulesInv == rules \subseteq RuleRow /\ nextId \in Nat

LEMMA RulesInit == Numbers!Init => RulesInv
BY DEF Numbers!Init, RulesInv

LEMMA RulesStep == RulesInv /\ [Numbers!Next]_ruleVars => RulesInv'
<1> SUFFICES ASSUME RulesInv, [Numbers!Next]_ruleVars PROVE RulesInv'
    OBVIOUS
<1>1. ASSUME NEW i \in Nat PROVE Numbers!Row(i) \subseteq RuleRow
    BY DEF Numbers!Row, RuleRow, Numbers!Allow, Numbers!Deny, Numbers!Translate
<1>2. CASE Numbers!Create
    BY <1>1, <1>2 DEF Numbers!Create, RulesInv
<1>3. CASE Numbers!Update
    <2>1. \A r \in rules : r.id \in Nat
        BY DEF RulesInv, RuleRow
    <2> QED
        BY <1>1, <1>3, <2>1 DEF Numbers!Update, RulesInv
<1>4. CASE Numbers!Delete
    BY <1>4 DEF Numbers!Delete, RulesInv
<1>5. CASE UNCHANGED ruleVars
    BY <1>5 DEF ruleVars, RulesInv
<1> QED
    BY <1>2, <1>3, <1>4, <1>5 DEF Numbers!Next

\* One more rule.
LEMMA OneMoreRule ==
    ASSUME NEW r \in rules' \ rules, rules' = rules \cup {r}
    PROVE  /\ r.act = Numbers!Deny => Numbers!Admitted' \subseteq Numbers!Admitted
           /\ r.act = Numbers!Allow /\ Numbers!Allows # {} => Numbers!Admitted \subseteq Numbers!Admitted'
           /\ r.act = Numbers!Translate => Numbers!Admitted' = Numbers!Admitted
<1> USE DEF Numbers!Admitted, Numbers!Allowed, Numbers!Matching, Numbers!Allows, Numbers!Allow, Numbers!Deny, Numbers!Translate
<1>1. CASE r.act = Numbers!Deny
    BY <1>1
<1>2. CASE r.act = Numbers!Allow /\ Numbers!Allows # {}
    BY <1>2
<1>3. CASE r.act = Numbers!Translate
    BY <1>3
<1> QED
    BY <1>1, <1>2, <1>3

LEMMA CauseIs == Numbers!RefusalHasCause
<1> SUFFICES ASSUME NEW n \in Number \ Numbers!Admitted
             PROVE  /\ Numbers!FailedRules(n) # {}
                    /\ \A r \in Numbers!FailedRules(n) :
                        IF r.act = Numbers!Deny THEN <<r.pattern, n>> \in Numbers!MatchesWhole
                        ELSE Numbers!Matching(Numbers!Deny, n) = {} /\ <<r.pattern, n>> \notin Numbers!MatchesWhole
    BY DEF Numbers!RefusalHasCause
<1>1. ~Numbers!Allowed(n)
    BY DEF Numbers!Admitted
<1>2. CASE Numbers!Matching(Numbers!Deny, n) # {}
    BY <1>2 DEF Numbers!FailedRules, Numbers!Matching
<1>3. CASE Numbers!Matching(Numbers!Deny, n) = {}
    <2>1. Numbers!Allows # {} /\ Numbers!Matching(Numbers!Allow, n) = {}
        BY <1>1, <1>3 DEF Numbers!Allowed
    <2>2. Numbers!FailedRules(n) = Numbers!Allows
        BY <1>3 DEF Numbers!FailedRules
    <2>3. \A r \in Numbers!Allows : r.act # Numbers!Deny /\ <<r.pattern, n>> \notin Numbers!MatchesWhole
        BY <2>1 DEF Numbers!Matching, Numbers!Allows, Numbers!Allow, Numbers!Deny
    <2> QED
        BY <1>3, <2>1, <2>2, <2>3
<1> QED
    BY <1>2, <1>3

\* A pattern without wildcards that begins a number cuts it in one way.
LEMMA PlainCuts ==
    ASSUME NEW S, NEW p \in Seq(S), NEW n \in Seq(S), Numbers!IsPrefix(p, n),
           \A i \in DOMAIN p : p[i] \notin {"*", "?"}
    PROVE  Numbers!Cuts(p, n) = {[i \in DOMAIN p |-> i]}
<1> DEFINE whole == [i \in DOMAIN p |-> i]
<1>1. /\ Len(p) \in Nat /\ Len(n) \in Nat /\ Len(p) <= Len(n) /\ DOMAIN p = 1 .. Len(p) /\ DOMAIN n = 1 .. Len(n)
      /\ \A i \in 1 .. Len(p) : n[i] = p[i]
    <2>1. Len(p) <= Len(n) /\ SubSeq(p, 1, Len(p)) = SubSeq(n, 1, Len(p))
        BY DEF Numbers!IsPrefix
    <2>2. \A i \in 1 .. Len(p) : SubSeq(p, 1, Len(p))[i] = p[i] /\ SubSeq(n, 1, Len(p))[i] = n[i]
        BY <2>1
    <2> QED
        BY <2>1, <2>2
<1>2. \A i \in DOMAIN p : p[i] \notin {"*", "?"}
    OBVIOUS
<1>3. whole \in Numbers!Cuts(p, n)
    <2>1. whole \in [DOMAIN p -> 0 .. Len(n)]
        BY <1>1
    <2>2. ASSUME NEW i \in DOMAIN p
          PROVE  whole[i] = (IF i - 1 = 0 THEN 0 ELSE whole[i - 1]) + 1 /\ p[i] \in {"?", n[whole[i]]}
        BY <1>1
    <2> QED
        BY <1>2, <2>1, <2>2 DEF Numbers!Cuts
<1>4. ASSUME NEW c \in Numbers!Cuts(p, n) PROVE c = whole
    <2>1. /\ c \in [DOMAIN p -> 0 .. Len(n)]
          /\ \A i \in DOMAIN p : c[i] = (IF i - 1 = 0 THEN 0 ELSE c[i - 1]) + 1
        BY <1>2, <1>4 DEF Numbers!Cuts
    <2> DEFINE wrong == {i \in DOMAIN p : c[i] # i}
    <2>2. ASSUME wrong # {} PROVE FALSE
        <3>1. wrong \subseteq Nat
            BY <1>1
        <3>2. PICK i \in wrong : \A j \in wrong : ~ (<<j, i>> \in OpToRel(<, Nat))
            BY <2>2, <3>1, NatLessThanWellFounded, WFMin
        <3>3. i - 1 \notin wrong
            <4> SUFFICES ASSUME i - 1 \in wrong PROVE FALSE
                OBVIOUS
            <4>1. i \in Nat /\ i - 1 \in Nat /\ i - 1 < i
                BY <3>1
            <4>2. <<i - 1, i>> \in OpToRel(<, Nat)
                BY <4>1 DEF OpToRel
            <4> QED
                BY <3>2, <4>2
        <3>4. i \in 1 .. Len(p) /\ c[i] # i
            BY <1>1
        <3>5. i - 1 = 0 \/ (i - 1 # 0 /\ c[i - 1] = i - 1)
            BY <1>1, <3>3, <3>4
        <3>6. c[i] = (i - 1) + 1
            BY <1>1, <2>1, <3>4, <3>5
        <3> QED
            BY <1>1, <3>4, <3>6
    <2> QED
        BY <2>1, <2>2
<1> QED
    BY <1>3, <1>4

LEMMA LongestReplaces == RulesInv => Numbers!LongestHeadIsReplaced
<1> SUFFICES ASSUME RulesInv, NEW r \in rules, NEW n \in Number,
                    r.act = Numbers!Translate, r.replace # Null, Numbers!ToSet(r.pattern) \cap {"*", "?"} = {},
                    Numbers!IsPrefix(r.pattern, n),
                    \A q \in rules \ {r} : q.act = Numbers!Translate => Len(q.pattern) < Len(r.pattern)
             PROVE  Numbers!Translated(n) = r.replace \o SubSeq(n, Len(r.pattern) + 1, Len(n))
    BY DEF Numbers!LongestHeadIsReplaced
<1> DEFINE p == r.pattern
<1> DEFINE S == Numbers!ToSet(n) \cup Numbers!ToSet(p)
<1>1. n \in Seq(S) /\ p \in Seq(S) /\ p \in Pattern /\ \A i \in DOMAIN p : p[i] \notin {"*", "?"}
    <2>1. p \in Pattern /\ n \in Seq(Numbers!ToSet(n)) /\ p \in Seq(Numbers!ToSet(p))
        BY RulesAssumption DEF RulesInv, RuleRow, Numbers!NumberRulesConstants
    <2>2. Seq(Numbers!ToSet(n)) \subseteq Seq(S) /\ Seq(Numbers!ToSet(p)) \subseteq Seq(S)
        OBVIOUS
    <2>3. \A i \in DOMAIN p : p[i] \notin {"*", "?"}
        BY DEF Numbers!ToSet
    <2> QED
        BY <2>1, <2>2, <2>3
<1> HIDE DEF S
<1>2. Numbers!Cuts(p, n) = {[i \in DOMAIN p |-> i]}
    BY <1>1, PlainCuts
<1>3. Numbers!EndOf(p, Numbers!Greedy(p, n)) = Len(p)
    <2>1. Numbers!Greedy(p, n) = [i \in DOMAIN p |-> i]
        BY <1>2 DEF Numbers!Greedy
    <2>2. p # <<>> => Len(p) \in DOMAIN p
        BY <1>1
    <2> QED
        BY <1>1, <2>1, <2>2 DEF Numbers!EndOf
<1>4. r \in Numbers!Candidates(n)
    BY <1>1, <1>2 DEF Numbers!Candidates, Numbers!MatchesHead
<1>5. Numbers!Best(n) = r
    <2> DEFINE First(s) == \A q \in Numbers!Candidates(n) \ {s} :
                Len(s.pattern) > Len(q.pattern) \/ (Len(s.pattern) = Len(q.pattern) /\ s.id < q.id)
    <2>1. \A q \in Numbers!Candidates(n) \ {r} :
            Len(q.pattern) \in Nat /\ Len(p) \in Nat /\ Len(p) > Len(q.pattern)
        <3> TAKE q \in Numbers!Candidates(n) \ {r}
        <3>1. q \in rules \ {r} /\ q.act = Numbers!Translate /\ q.pattern \in Pattern
            BY DEF Numbers!Candidates, RulesInv, RuleRow
        <3>2. q.pattern \in Seq(Numbers!ToSet(q.pattern))
            BY <3>1, RulesAssumption DEF Numbers!NumberRulesConstants
        <3>3. Len(q.pattern) \in Nat /\ Len(p) \in Nat
            BY <1>1, <3>2
        <3> QED
            BY <3>1, <3>3
    <2>2. First(r)
        BY <2>1
    <2>3. ASSUME NEW s \in Numbers!Candidates(n), First(s) PROVE s = r
        BY <1>4, <2>1, <2>3
    <2>4. Numbers!Best(n) = CHOOSE s \in Numbers!Candidates(n) : First(s)
        BY DEF Numbers!Best
    <2> HIDE DEF First
    <2> QED
        BY <1>4, <2>2, <2>3, <2>4
<1>6. ~Numbers!Starred(p)
    BY <1>1 DEF Numbers!Starred, Numbers!Contains
<1>7. Numbers!Applied(r, n) = r.replace \o SubSeq(n, Len(p) + 1, Len(n))
    BY <1>3, <1>6 DEF Numbers!Applied
<1> QED
    BY <1>4, <1>5, <1>7 DEF Numbers!Translated

\* Whatever rows there are and however they are changed: one more rule that denies admits
\* nobody, one that allows refuses nobody unless it is the first of its kind; a refusal
\* reports a cause of it, and the longest pattern without wildcards replaces the head of a number
\* and keeps its rest (evaluate_direction of rules/matcher.py, _translate_direction of
\* rules/service.py).
THEOREM RulesAlwaysMonotone == DialplanSpec => RulesAreMonotone
<1> DEFINE Inv == scenario = "numbers" => RulesInv
<1>1. DialplanInit => Inv
    BY RulesInit DEF DialplanInit
<1>2. Inv /\ [DialplanNext]_<<scenario, failoverVars, routeVars, ruleVars>> => Inv'
    <2> SUFFICES ASSUME Inv, [DialplanNext]_<<scenario, failoverVars, routeVars, ruleVars>>, scenario' = "numbers"
                 PROVE  RulesInv'
        OBVIOUS
    <2>1. scenario = "numbers" /\ [Numbers!Next]_ruleVars
        BY DEF DialplanNext
    <2> QED
        BY <2>1, RulesStep
<1>3. Inv => (scenario = "numbers" => Numbers!RefusalHasCause /\ Numbers!LongestHeadIsReplaced)
    BY CauseIs, LongestReplaces
<1>4. [\A r \in rules' \ rules : rules' = rules \cup {r} =>
        /\ r.act = Numbers!Deny => Numbers!Admitted' \subseteq Numbers!Admitted
        /\ r.act = Numbers!Allow /\ Numbers!Allows # {} => Numbers!Admitted \subseteq Numbers!Admitted'
        /\ r.act = Numbers!Translate => Numbers!Admitted' = Numbers!Admitted]_(Numbers!vars)
    BY OneMoreRule
<1> QED
    BY <1>1, <1>2, <1>3, <1>4, PTL DEF DialplanSpec, RulesAreMonotone, Numbers!RulesAreMonotone
=============================================================================
