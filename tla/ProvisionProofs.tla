---------------------------- MODULE ProvisionProofs ----------------------------
(***************************************************************************)
(* How changes of gateways reach the nodes, for any nodes, gateways and    *)
(* requests and any list of names: lemmas about Provision that hold in     *)
(* each of its instances.                                                  *)
(*                                                                         *)
(* A change reaches a node on one of five ways at a time: FreeSWITCH has   *)
(* it; a thread will kill the gateway; a thread will create what is not    *)
(* there; the request has not written its number yet; or the watcher is    *)
(* behind the number and will find the name in the list, or rebuild all.   *)
(* Steps pass a change on from one way to the next (ReachInv), as long as  *)
(* requests write their numbers and lists one after the other (SerialInv). *)
(***************************************************************************)
EXTENDS Provision, TLAPS

-----------------------------------------------------------------------------
Names == {s \in Seq(Gateway) : Len(s) <= MaxPending /\ IsInjective(s)}
JobState == [stage : {"kill", "rescan"}, names : SUBSET Gateway]
Asking == [pc : {"read_list", "write_seq", "write_list", "rescan", "done"},
           op : {"save", "rename", "remove", "force"}, node : Node, names : Seq(Gateway),
           kill : SUBSET Gateway, seq : Nat, list : Names]

\* What the request adds to the list: force adds nothing, it empties it.
Named(e) == e.names # <<>> /\ e.op # "force"

ProvisionTyped ==
    /\ version \in Nat /\ db \in [Gateway -> 0 .. version] /\ seq \in Nat
    /\ pending \in Names
    /\ fs \in [Node -> [Gateway -> 0 .. version]]
    /\ last \in [Node -> Nat \cup {NoSeq}] /\ seen \in [Node -> Nat]
    /\ watcher \in [Node -> [pc : {"idle", "list"}, seq : Nat]]
    /\ request \in [Request -> Asking \cup {[pc |-> "new"], [pc |-> "done"]}]
    /\ \A r \in Request : request[r].pc = "read_list" => Named(request[r])
    /\ jobs \in [Node -> Seq(JobState)]
    /\ by \in [Gateway -> SUBSET Node]
    /\ trouble \subseteq {"race", "restart", "failure", "full", "dropped"}

\* The request is about to write its number, or its list.
Telling(r) == request[r].pc \in {"read_list", "write_seq"}
Writing(r) == request[r].pc = "write_list"
Asked(r) == request[r].pc \in {"read_list", "write_seq", "write_list", "rescan"}

\* Nothing went wrong but that a node had to rebuild everything.
Calm == trouble \subseteq {"full"}

OneWrites == \A q, r \in Request : Between(q) /\ Between(r) => q = r

\* What the numbers of a request tell.
Numbered(r) ==
    /\ Telling(r) => request[r].seq = seq + 1
    /\ Writing(r) => request[r].seq = seq /\ \A n \in Node : last[n] < seq
    /\ request[r].pc = "rescan" =>
        request[r].seq <= seq /\ \A w \in Request : Writing(w) => request[r].seq < seq

\* The list that a request will write has its names.
Listing(r) ==
    request[r].pc \in {"write_seq", "write_list"} =>
        IF request[r].op = "force" THEN request[r].list = <<>>
        ELSE ToSet(request[r].names) \subseteq ToSet(request[r].list)

SerialInv ==
    Calm => /\ OneWrites
            /\ \A r \in Request : Numbered(r) /\ Listing(r)
            /\ \A n \in Node : last[n] \in Nat /\ last[n] <= seq

\* Who reads the list, once the list of the latest number is written, rebuilds g.
InList(g) ==
    \/ \E r \in Request : Writing(r) /\ (request[r].list = <<>> \/ g \in ToSet(request[r].list))
    \/ (\A r \in Request : ~Writing(r)) /\ (pending = <<>> \/ g \in ToSet(pending))

\* The watcher of n will have g rebuilt.
Behind(n, g) == last[n] < seq /\ (seq - last[n] > 1 \/ InList(g))

\* A thread of the node will kill g.
Killed(n, g) == \E i \in DOMAIN jobs[n] : jobs[n][i].stage = "kill" /\ g \in jobs[n][i].names

\* FreeSWITCH has g as it is, or will have it when the threads of the node have ended.
Held(n, g) == fs[n][g] = db[g] \/ Killed(n, g) \/ (fs[n][g] = 0 /\ jobs[n] # <<>>)

\* A request will pass the change of g on.
Announced(g) ==
    \E r \in Request : Telling(r) /\ request[r].op # "force" /\ g \in ToSet(request[r].names)

Reaches(n, g) == Held(n, g) \/ Announced(g) \/ Behind(n, g)

\* What has to reach the nodes: who had to rebuild everything does not clean.
ToReach(g) == Calm /\ (g \in AllGateways \/ trouble = {})

ReachInv == \A n \in Node, g \in Gateway : ToReach(g) => Reaches(n, g)

\* The node that changed g last will rebuild it itself.
OwnRequest(n, g) == \E r \in Request : Asked(r) /\ request[r].node = n /\ g \in request[r].kill

OwnInv ==
    trouble \cap {"restart", "failure"} = {} =>
        \A g \in AllGateways : \A n \in by[g] : Held(n, g) \/ OwnRequest(n, g)

ProvisionInv == ProvisionTyped /\ SerialInv /\ ReachInv /\ OwnInv
-----------------------------------------------------------------------------
(* The list of names and the threads of a node. *)

LEMMA Limits ==
    ASSUME ProvisionConstants
    PROVE  /\ MaxPending \in Nat /\ MaxPending >= 1 /\ NoSeq \notin Nat
           /\ Listed \in Names /\ <<>> \in Names
BY DEF ProvisionConstants, Names, IsInjective

LEMMA AddedFits ==
    ASSUME NEW s \in Seq(Gateway), IsInjective(s), NEW g \in Gateway
    PROVE  Added(s, g) \in Seq(Gateway) /\ IsInjective(Added(s, g))
<1>1. CASE Contains(s, g)
    BY <1>1 DEF Added
<1>2. CASE ~Contains(s, g)
    <2> DEFINE t == Append(s, g)
    <2>1. t \in Seq(Gateway) /\ Len(t) = Len(s) + 1 /\ t[Len(s) + 1] = g
        OBVIOUS
    <2>2. Len(s) \in Nat /\ DOMAIN s = 1 .. Len(s) /\ DOMAIN t = 1 .. Len(s) + 1
        OBVIOUS
    <2>3. \A i \in 1 .. Len(s) : t[i] = s[i] /\ s[i] # g
        BY <1>2 DEF Contains
    <2>4. \A i \in DOMAIN t : i \in 1 .. Len(s) \/ i = Len(s) + 1
        BY <2>2
    <2> HIDE DEF t
    <2>5. IsInjective(t)
        BY <2>1, <2>2, <2>3, <2>4 DEF IsInjective
    <2> QED
        BY <1>2, <2>1, <2>5 DEF Added, t
<1> QED
    BY <1>1, <1>2

LEMMA TailFits ==
    ASSUME NEW s \in Seq(Gateway), IsInjective(s), NEW k \in Nat, k >= 1, Len(s) > k
    PROVE  SubSeq(s, Len(s) - k + 1, Len(s)) \in {t \in Seq(Gateway) : Len(t) = k /\ IsInjective(t)}
<1> DEFINE m == Len(s) - k + 1
           t == SubSeq(s, m, Len(s))
<1>1. Len(s) \in Nat /\ m \in 1 .. Len(s) /\ DOMAIN s = 1 .. Len(s)
    OBVIOUS
<1>2. t \in Seq(Gateway) /\ Len(t) = k /\ DOMAIN t = 1 .. k
    BY <1>1
<1>3. \A i \in 1 .. k : t[i] = s[i + m - 1] /\ i + m - 1 \in DOMAIN s
    BY <1>1, <1>2
<1> HIDE DEF t
<1>4. IsInjective(t)
    <2> SUFFICES ASSUME NEW i \in 1 .. k, NEW j \in 1 .. k, t[i] = t[j] PROVE i = j
        BY <1>2 DEF IsInjective
    <2>1. i + m - 1 = j + m - 1
        BY <1>3 DEF IsInjective
    <2> QED
        BY <1>1, <2>1
<1> QED
    BY <1>2, <1>4 DEF t

LEMMA MergedFits ==
    ASSUME ProvisionConstants, NEW list \in Names, NEW names \in Seq(Gateway), names # <<>>
    PROVE  Merged(list, names) \in Names
<1> DEFINE once == Added(list, Head(names))
           all == Added(once, Last(names))
<1>1. Head(names) \in Gateway /\ Last(names) \in Gateway
    BY DEF Last
<1>2. once \in Seq(Gateway) /\ IsInjective(once)
    BY <1>1, AddedFits DEF Names
<1> HIDE DEF once
<1>3. all \in Seq(Gateway) /\ IsInjective(all)
    BY <1>1, <1>2, AddedFits
<1>4. Merged(list, names) = IF Len(all) > MaxPending THEN SubSeq(all, Len(all) - MaxPending + 1, Len(all)) ELSE all
    BY DEF Merged, once
<1> HIDE DEF all
<1>5. Len(all) \in Nat /\ MaxPending \in Nat /\ MaxPending >= 1
    BY <1>3, Limits
<1>6. CASE Len(all) > MaxPending
    BY <1>3, <1>4, <1>5, <1>6, TailFits DEF Names
<1>7. CASE ~(Len(all) > MaxPending)
    BY <1>3, <1>4, <1>5, <1>7 DEF Names
<1> QED
    BY <1>6, <1>7

\* A node has one thread more.
LEMMA SpawnStep ==
    ASSUME ProvisionTyped, NEW n \in Node, NEW names \in SUBSET Gateway, Spawn(n, names)
    PROVE  /\ jobs' \in [Node -> Seq(JobState)] /\ jobs'[n] # <<>>
           /\ \A m \in Node : \A g : Killed(m, g) => Killed(m, g)'
           /\ \A m \in Node : jobs[m] # <<>> => jobs'[m] # <<>>
           /\ \A g \in names : Killed(n, g)'
<1> DEFINE s == jobs[n]
           t == Append(s, Job(names))
<1>1. s \in Seq(JobState) /\ Job(names) \in JobState /\ jobs' = [jobs EXCEPT ![n] = t]
    BY DEF ProvisionTyped, Spawn, Job, JobState
<1>2. t \in Seq(JobState) /\ t # <<>> /\ Len(s) \in Nat /\ DOMAIN s = 1 .. Len(s) /\ DOMAIN t = 1 .. Len(s) + 1
    BY <1>1
<1>3. (\A i \in DOMAIN s : i \in DOMAIN t /\ t[i] = s[i]) /\ Len(s) + 1 \in DOMAIN t /\ t[Len(s) + 1] = Job(names)
    BY <1>1, <1>2
<1> HIDE DEF t, s
<1>4. jobs' \in [Node -> Seq(JobState)]
    BY <1>1, <1>2 DEF ProvisionTyped
<1>5. jobs'[n] = t /\ \A m \in Node : m # n => jobs'[m] = jobs[m]
    BY <1>1 DEF ProvisionTyped
<1>6. \A m \in Node : \A g : Killed(m, g) => Killed(m, g)'
    BY <1>3, <1>5 DEF Killed, s
<1>7. \A g \in names : Killed(n, g)'
    BY <1>3, <1>5 DEF Killed, Job
<1> QED
    BY <1>2, <1>4, <1>5, <1>6, <1>7
-----------------------------------------------------------------------------
(* A request commits its change and reads the number. *)

\* Request r begins at n: the tables are changed in the gateways it names, and those that
\* are there afterwards it kills.
Begins(r, n, op, names, kill) ==
    /\ op \in {"save", "rename", "remove", "force"} /\ kill \in SUBSET Gateway
    /\ names \in Seq(Gateway) /\ (op # "force" => names # <<>>)
    /\ Enter(r, n, op, names, kill)
    /\ version' \in Nat /\ version' >= version /\ db' \in [Gateway -> 0 .. version']
    /\ by' \in [Gateway -> SUBSET Node]
    /\ \A g \in Gateway : db'[g] # db[g] => op # "force" /\ g \in ToSet(names)
    /\ \A g \in Gateway :
        (db'[g] > 0 /\ (db'[g] # db[g] \/ by'[g] # by[g])) => by'[g] = {n} /\ g \in kill

LEMMA EnterTyped ==
    ASSUME ProvisionConstants, ProvisionTyped, NEW r \in Request, NEW n \in Node,
           NEW op, NEW names, NEW kill, Begins(r, n, op, names, kill)
    PROVE  /\ ProvisionTyped'
           /\ request'[r] = [pc |-> IF op = "force" THEN "write_seq" ELSE "read_list", op |-> op, node |-> n,
                             names |-> names, kill |-> kill, seq |-> seq + 1, list |-> <<>>]
           /\ \A q \in Request : q # r => request'[q] = request[q]
<1> USE DEF Begins
<1> DEFINE e == [pc |-> IF op = "force" THEN "write_seq" ELSE "read_list", op |-> op, node |-> n,
                 names |-> names, kill |-> kill, seq |-> seq + 1, list |-> <<>>]
<1>1. e \in Asking /\ (e.pc = "read_list" => Named(e))
    BY Limits DEF ProvisionTyped, Asking, Named
<1>2. request' = [request EXCEPT ![r] = e]
    BY DEF Enter
<1>3. e.pc = (IF op = "force" THEN "write_seq" ELSE "read_list") /\ e.names = names
    OBVIOUS
<1> HIDE DEF e
<1>4. request' \in [Request -> Asking \cup {[pc |-> "new"], [pc |-> "done"]}]
    BY <1>1, <1>2 DEF ProvisionTyped
<1>5. request'[r] = e /\ \A q \in Request : q # r => request'[q] = request[q]
    BY <1>2 DEF ProvisionTyped
<1>6. \A q \in Request : request'[q].pc = "read_list" => Named(request'[q])
    BY <1>1, <1>5 DEF ProvisionTyped
<1>7. fs' \in [Node -> [Gateway -> 0 .. version']]
    <2>1. 0 .. version \subseteq 0 .. version'
        BY DEF ProvisionTyped
    <2> QED
        BY <2>1 DEF Enter, ProvisionTyped
<1>8. trouble' \subseteq {"race", "restart", "failure", "full", "dropped"}
    BY DEF Enter, ProvisionTyped
<1> QED
    BY <1>4, <1>5, <1>6, <1>7, <1>8 DEF Enter, ProvisionTyped, e

\* The change is announced, and asked of the threads of the node.
LEMMA EnterStep ==
    ASSUME ProvisionConstants, ProvisionInv, NEW r \in Request, NEW n \in Node, request[r].pc = "new",
           NEW op, NEW names, NEW kill, Begins(r, n, op, names, kill)
    PROVE  ProvisionInv'
<1> USE DEF ProvisionInv
<1>1. ProvisionTyped' /\ \A q \in Request : q # r => request'[q] = request[q]
    BY EnterTyped
<1>2. /\ request'[r].pc = (IF op = "force" THEN "write_seq" ELSE "read_list") /\ request'[r].op = op
      /\ request'[r].node = n /\ request'[r].names = names /\ request'[r].kill = kill
      /\ request'[r].seq = seq + 1 /\ request'[r].list = <<>>
    <2>1. request'[r] = [pc |-> IF op = "force" THEN "write_seq" ELSE "read_list", op |-> op, node |-> n,
                         names |-> names, kill |-> kill, seq |-> seq + 1, list |-> <<>>]
        BY EnterTyped
    <2> QED
        BY <2>1
<1>3. UNCHANGED <<seq, pending, fs, last, jobs>> /\ trouble \subseteq trouble'
    BY DEF Begins, Enter
<1>4. \A q \in Request : Writing(q)' <=> Writing(q)
    BY <1>1, <1>2 DEF Writing
<1>5. \A g \in Gateway : InList(g) => InList(g)'
    BY <1>1, <1>3, <1>4 DEF InList, Writing
<1>6. \A m \in Node, g \in Gateway : Behind(m, g) => Behind(m, g)'
    BY <1>3, <1>5 DEF Behind
<1>7. \A g \in Gateway : Announced(g) => Announced(g)'
    BY <1>1 DEF Announced, Telling
<1>8. \A m \in Node, g \in Gateway : db'[g] = db[g] /\ Held(m, g) => Held(m, g)'
    BY <1>3 DEF Held, Killed
<1>9. SerialInv'
    <2> SUFFICES ASSUME Calm' PROVE OneWrites' /\ (\A q \in Request : Numbered(q)' /\ Listing(q)')
                                    /\ (\A m \in Node : last'[m] \in Nat /\ last'[m] <= seq')
        BY DEF SerialInv
    <2>1. Calm /\ SerialInv /\ trouble' = trouble
        BY <1>3 DEF Calm, Begins, Enter
    <2>2. \A q \in Request : q # r => ~Between(q)
        BY DEF Calm, Begins, Enter
    <2>3. OneWrites'
        BY <1>1, <2>2 DEF OneWrites, Between
    <2>4. \A q \in Request : ~Writing(q)'
        BY <1>4, <2>2 DEF Writing, Between
    <2>5. \A q \in Request : Numbered(q)'
        BY <1>1, <1>2, <1>3, <2>1, <2>4 DEF SerialInv, Numbered, Telling, Writing
    <2>6. \A q \in Request : Listing(q)'
        BY <1>1, <1>2, <2>1 DEF SerialInv, Listing
    <2> QED
        BY <1>3, <2>1, <2>3, <2>5, <2>6 DEF SerialInv
<1>10. ReachInv'
    <2> SUFFICES ASSUME NEW m \in Node, NEW g \in Gateway, ToReach(g)' PROVE Reaches(m, g)'
        BY DEF ReachInv
    <2>1. CASE db'[g] # db[g]
        BY <1>2, <2>1 DEF Begins, Reaches, Announced, Telling
    <2>2. CASE db'[g] = db[g]
        <3>1. ToReach(g)
            BY <1>3, <2>2 DEF ToReach, Calm, AllGateways
        <3> QED
            BY <1>6, <1>7, <1>8, <2>2, <3>1 DEF ReachInv, Reaches
    <2> QED
        BY <2>1, <2>2
<1>11. OwnInv'
    <2> SUFFICES ASSUME trouble' \cap {"restart", "failure"} = {}, NEW g \in Gateway, db'[g] > 0, NEW m \in by'[g]
                 PROVE  Held(m, g)' \/ OwnRequest(m, g)'
        BY DEF OwnInv, AllGateways
    <2>1. CASE db'[g] # db[g] \/ by'[g] # by[g]
        <3>1. m = n /\ g \in kill
            BY <2>1 DEF Begins
        <3> QED
            BY <1>2, <3>1 DEF OwnRequest, Asked
    <2>2. CASE db'[g] = db[g] /\ by'[g] = by[g]
        <3>1. m \in Node
            BY <2>2 DEF ProvisionTyped
        <3>2. Held(m, g) \/ OwnRequest(m, g)
            BY <1>3, <2>2 DEF OwnInv, AllGateways
        <3>3. OwnRequest(m, g) => OwnRequest(m, g)'
            BY <1>1 DEF OwnRequest, Asked
        <3> QED
            BY <1>8, <2>2, <3>1, <3>2, <3>3
    <2> QED
        BY <2>1, <2>2
<1> QED
    BY <1>1, <1>9, <1>10, <1>11

LEMMA CommitFits ==
    ASSUME ProvisionTyped, NEW n \in Node, NEW g \in Gateway, NEW h \in Gateway, Commit(n, g, h)
    PROVE  /\ version' \in Nat /\ version' >= version /\ db' \in [Gateway -> 0 .. version']
           /\ by' \in [Gateway -> SUBSET Node]
           /\ \A x \in Gateway : x \notin {g, h} => db'[x] = db[x] /\ by'[x] = by[x]
           /\ by'[h] = {n} /\ (g # h => db'[g] = 0)
<1>1. version' = version + 1 /\ version \in Nat
    BY DEF Commit, ProvisionTyped
<1>2. 0 .. version \subseteq 0 .. version' /\ 0 \in 0 .. version' /\ version + 1 \in 0 .. version'
    BY <1>1
<1>3. db' \in [Gateway -> 0 .. version']
    BY <1>2 DEF Commit, ProvisionTyped
<1>4. by' \in [Gateway -> SUBSET Node]
    BY DEF Commit, ProvisionTyped
<1>5. \A x \in Gateway : x \notin {g, h} => db'[x] = db[x] /\ by'[x] = by[x]
    BY DEF Commit, ProvisionTyped
<1>6. by'[h] = {n} /\ (g # h => db'[g] = 0)
    BY DEF Commit, ProvisionTyped
<1> QED
    BY <1>1, <1>3, <1>4, <1>5, <1>6

LEMMA BeginStep ==
    ASSUME ProvisionConstants, ProvisionInv, NEW r \in Request, NEW n \in Node,
           Save(r, n) \/ Rename(r, n) \/ RemoveGateway(r, n) \/ ForceRescan(r, n)
    PROVE  ProvisionInv'
<1>1. CASE Save(r, n)
    <2>1. PICK g \in Gateway : Commit(n, g, g) /\ Enter(r, n, "save", <<g>>, {g})
        BY <1>1 DEF Save
    <2>2. <<g>> \in Seq(Gateway) /\ <<g>> # <<>> /\ g \in ToSet(<<g>>)
        BY DEF ToSet
    <2>3. \A x \in Gateway : x # g => db'[x] = db[x] /\ by'[x] = by[x]
        BY <2>1, CommitFits DEF ProvisionInv
    <2>4. /\ version' \in Nat /\ version' >= version /\ db' \in [Gateway -> 0 .. version']
          /\ by' \in [Gateway -> SUBSET Node] /\ by'[g] = {n}
        BY <2>1, CommitFits DEF ProvisionInv
    <2>5. Begins(r, n, "save", <<g>>, {g})
        BY <2>1, <2>2, <2>3, <2>4 DEF Begins
    <2> QED
        BY <1>1, <2>5, EnterStep DEF Save
<1>2. CASE Rename(r, n)
    <2>1. PICK g \in Gateway, h \in Gateway : Commit(n, g, h) /\ Enter(r, n, "rename", <<g, h>>, {h}) /\ g # h
        BY <1>2 DEF Rename, AllGateways
    <2>2. <<g, h>> \in Seq(Gateway) /\ <<g, h>> # <<>> /\ g \in ToSet(<<g, h>>) /\ h \in ToSet(<<g, h>>)
        BY DEF ToSet
    <2>3. \A x \in Gateway : x \notin {g, h} => db'[x] = db[x] /\ by'[x] = by[x]
        BY <2>1, CommitFits DEF ProvisionInv
    <2>4. /\ version' \in Nat /\ version' >= version /\ db' \in [Gateway -> 0 .. version']
          /\ by' \in [Gateway -> SUBSET Node] /\ by'[h] = {n} /\ db'[g] = 0
        BY <2>1, CommitFits DEF ProvisionInv
    <2>5. Begins(r, n, "rename", <<g, h>>, {h})
        BY <2>1, <2>2, <2>3, <2>4 DEF Begins
    <2> QED
        BY <1>2, <2>5, EnterStep DEF Rename
<1>3. CASE RemoveGateway(r, n)
    <2>1. PICK g \in Gateway : /\ db' = [db EXCEPT ![g] = 0] /\ by' = [by EXCEPT ![g] = {n}]
                               /\ UNCHANGED version /\ Enter(r, n, "remove", <<g>>, {g})
        BY <1>3 DEF RemoveGateway, AllGateways
    <2>2. <<g>> \in Seq(Gateway) /\ <<g>> # <<>> /\ g \in ToSet(<<g>>)
        BY DEF ToSet
    <2>3. version' \in Nat /\ version' >= version /\ db' \in [Gateway -> 0 .. version'] /\ by' \in [Gateway -> SUBSET Node]
        BY <2>1 DEF ProvisionInv, ProvisionTyped
    <2>4. db'[g] = 0 /\ \A x \in Gateway : x # g => db'[x] = db[x] /\ by'[x] = by[x]
        BY <2>1 DEF ProvisionInv, ProvisionTyped
    <2>5. Begins(r, n, "remove", <<g>>, {g})
        BY <2>1, <2>2, <2>3, <2>4 DEF Begins
    <2> QED
        BY <1>3, <2>5, EnterStep DEF RemoveGateway
<1>4. CASE ForceRescan(r, n)
    <2>1. Enter(r, n, "force", <<>>, {}) /\ UNCHANGED <<db, version, by>> /\ request[r].pc = "new"
        BY <1>4 DEF ForceRescan
    <2>2. <<>> \in Seq(Gateway) /\ {} \in SUBSET Gateway
        OBVIOUS
    <2>3. version' \in Nat /\ version' >= version /\ db' \in [Gateway -> 0 .. version'] /\ by' \in [Gateway -> SUBSET Node]
        BY <2>1 DEF ProvisionInv, ProvisionTyped
    <2>4. Begins(r, n, "force", <<>>, {})
        BY <2>1, <2>2, <2>3 DEF Begins
    <2> QED
        BY <2>1, <2>4, EnterStep
<1> QED
    BY <1>1, <1>2, <1>3, <1>4
-----------------------------------------------------------------------------
(* A request writes its number and its list, and starts the thread of its node. *)

\* A step of request r: nothing else is asked.
Moves(r, e) ==
    /\ request' = [request EXCEPT ![r] = e]
    /\ e \in Asking /\ e.pc # "read_list"
    /\ request[r] \in Asking
    /\ e.op = request[r].op /\ e.node = request[r].node /\ e.names = request[r].names
    /\ e.kill = request[r].kill /\ e.seq = request[r].seq

LEMMA RequestMoves ==
    ASSUME ProvisionTyped, NEW r \in Request, NEW e, Moves(r, e)
    PROVE  /\ request' \in [Request -> Asking \cup {[pc |-> "new"], [pc |-> "done"]}]
           /\ \A q \in Request : request'[q].pc = "read_list" => Named(request'[q])
           /\ request'[r] = e /\ \A q \in Request : q # r => request'[q] = request[q]
<1>1. request'[r] = e /\ \A q \in Request : q # r => request'[q] = request[q]
    BY DEF Moves, ProvisionTyped
<1>2. request' \in [Request -> Asking \cup {[pc |-> "new"], [pc |-> "done"]}]
    BY DEF Moves, ProvisionTyped
<1>3. \A q \in Request : request'[q].pc = "read_list" => Named(request'[q])
    BY <1>1 DEF Moves, ProvisionTyped
<1> QED
    BY <1>1, <1>2, <1>3

LEMMA AskingIs ==
    ASSUME ProvisionTyped, NEW r \in Request, request[r].pc \in {"read_list", "write_seq", "write_list", "rescan"}
    PROVE  request[r] \in Asking
BY DEF ProvisionTyped

\* As long as a request is asked, what its node owes is owed.
LEMMA OwnStays ==
    ASSUME ProvisionInv, NEW r \in Request, NEW e, Moves(r, e), e.pc # "done",
           UNCHANGED <<db, fs, jobs, by>>, trouble \subseteq trouble'
    PROVE  OwnInv'
<1>1. request'[r] = e /\ \A q \in Request : q # r => request'[q] = request[q]
    BY RequestMoves DEF ProvisionInv
<1>2. \A n \in Node, g \in Gateway : Held(n, g) => Held(n, g)'
    BY DEF Held, Killed
<1>3. Asked(r)'
    BY <1>1 DEF Asked, Moves, Asking
<1>4. \A n \in Node, g \in Gateway : OwnRequest(n, g) => OwnRequest(n, g)'
    BY <1>1, <1>3 DEF OwnRequest, Asked, Moves
<1> SUFFICES ASSUME trouble' \cap {"restart", "failure"} = {}, NEW g \in Gateway, db'[g] > 0, NEW m \in by'[g]
             PROVE  Held(m, g)' \/ OwnRequest(m, g)'
    BY DEF OwnInv, AllGateways
<1>5. m \in Node
    BY DEF ProvisionInv, ProvisionTyped
<1>6. Held(m, g) \/ OwnRequest(m, g)
    BY DEF ProvisionInv, OwnInv, AllGateways
<1> QED
    BY <1>2, <1>4, <1>5, <1>6

LEMMA ReadListStep ==
    ASSUME ProvisionConstants, ProvisionInv, NEW r \in Request, ReadList(r)
    PROVE  ProvisionInv'
<1> USE DEF ProvisionInv
<1> DEFINE e == [request[r] EXCEPT !.pc = "write_seq", !.list = Merged(pending, request[r].names)]
<1>1. /\ request[r] \in Asking /\ request[r].pc = "read_list"
      /\ request[r].names # <<>> /\ request[r].op # "force"
    BY AskingIs DEF ReadList, ProvisionTyped, Named
<1>2. Merged(pending, request[r].names) \in Names
    BY <1>1, MergedFits DEF ProvisionTyped, Asking
<1>3. request' = [request EXCEPT ![r] = e]
    BY DEF ReadList, ProvisionTyped
<1>4. e \in Asking /\ e.pc = "write_seq" /\ e.list = Merged(pending, request[r].names)
    BY <1>1, <1>2 DEF Asking
<1>5. /\ e.op = request[r].op /\ e.node = request[r].node /\ e.names = request[r].names
      /\ e.kill = request[r].kill /\ e.seq = request[r].seq
    BY <1>1 DEF Asking
<1> HIDE DEF e
<1>6. Moves(r, e)
    BY <1>1, <1>3, <1>4, <1>5 DEF Moves
<1>7. request'[r] = e /\ \A q \in Request : q # r => request'[q] = request[q]
    BY <1>6, RequestMoves
<1>8. UNCHANGED <<db, version, seq, pending, fs, last, seen, watcher, jobs, by>> /\ trouble \subseteq trouble'
    BY DEF ReadList
<1>9. trouble' \subseteq {"race", "restart", "failure", "full", "dropped"}
    BY DEF ReadList, ProvisionTyped
<1>10. ProvisionTyped'
    <2>1. /\ request' \in [Request -> Asking \cup {[pc |-> "new"], [pc |-> "done"]}]
          /\ \A q \in Request : request'[q].pc = "read_list" => Named(request'[q])
        BY <1>6, RequestMoves
    <2> QED
        BY <1>8, <1>9, <2>1 DEF ProvisionTyped
<1>11. OwnInv'
    BY <1>4, <1>6, <1>8, OwnStays
<1>12. \A q \in Request : (Writing(q)' <=> Writing(q)) /\ (Telling(q)' <=> Telling(q)) /\ (Between(q)' <=> Between(q))
    BY <1>1, <1>4, <1>7 DEF Writing, Telling, Between
<1>13. SerialInv'
    <2> SUFFICES ASSUME Calm' PROVE OneWrites' /\ (\A q \in Request : Numbered(q)' /\ Listing(q)')
                                    /\ (\A m \in Node : last'[m] \in Nat /\ last'[m] <= seq')
        BY DEF SerialInv
    <2>1. Calm /\ SerialInv /\ ToSet(request[r].names) \subseteq ToSet(Merged(pending, request[r].names))
        BY <1>8 DEF Calm, ReadList
    <2>2. OneWrites'
        BY <1>12, <2>1 DEF SerialInv, OneWrites
    <2>3. \A q \in Request : Numbered(q)'
        BY <1>1, <1>4, <1>5, <1>7, <1>8, <1>12, <2>1 DEF SerialInv, Numbered, Writing
    <2>4. Listing(r)'
        BY <1>1, <1>4, <1>5, <1>7, <2>1 DEF Listing
    <2>5. \A q \in Request : Listing(q)'
        BY <1>7, <2>1, <2>4 DEF SerialInv, Listing
    <2> QED
        BY <1>8, <2>1, <2>2, <2>3, <2>5 DEF SerialInv
<1>14. ReachInv'
    <2> SUFFICES ASSUME NEW m \in Node, NEW g \in Gateway, ToReach(g)' PROVE Reaches(m, g)'
        BY DEF ReachInv
    <2>1. ToReach(g)
        BY <1>8 DEF ToReach, Calm, AllGateways
    <2>2. Held(m, g) => Held(m, g)'
        BY <1>8 DEF Held, Killed
    <2>3. Announced(g) => Announced(g)'
        BY <1>5, <1>7, <1>12 DEF Announced
    <2>4. InList(g) => InList(g)'
        BY <1>1, <1>7, <1>8, <1>12 DEF InList, Writing
    <2> QED
        BY <1>8, <2>1, <2>2, <2>3, <2>4 DEF ReachInv, Reaches, Behind
<1> QED
    BY <1>10, <1>11, <1>13, <1>14

LEMMA WriteSeqStep ==
    ASSUME ProvisionInv, NEW r \in Request, WriteSeq(r)
    PROVE  ProvisionInv'
<1> USE DEF ProvisionInv
<1> DEFINE e == [request[r] EXCEPT !.pc = "write_list"]
<1>1. request[r] \in Asking /\ request[r].pc = "write_seq" /\ request' = [request EXCEPT ![r] = e]
    BY AskingIs DEF WriteSeq, ProvisionTyped
<1>2. /\ e \in Asking /\ e.pc = "write_list" /\ e.list = request[r].list
      /\ e.op = request[r].op /\ e.node = request[r].node /\ e.names = request[r].names
      /\ e.kill = request[r].kill /\ e.seq = request[r].seq
    BY <1>1 DEF Asking
<1> HIDE DEF e
<1>3. Moves(r, e)
    BY <1>1, <1>2 DEF Moves
<1>4. request'[r] = e /\ \A q \in Request : q # r => request'[q] = request[q]
    BY <1>3, RequestMoves
<1>5. UNCHANGED <<db, version, pending, fs, last, seen, watcher, jobs, by, trouble>> /\ seq' = request[r].seq
    BY DEF WriteSeq
<1>6. ProvisionTyped'
    <2>1. /\ request' \in [Request -> Asking \cup {[pc |-> "new"], [pc |-> "done"]}]
          /\ \A q \in Request : request'[q].pc = "read_list" => Named(request'[q])
        BY <1>3, RequestMoves
    <2>2. seq' \in Nat
        BY <1>1, <1>5 DEF Asking
    <2> QED
        BY <1>5, <2>1, <2>2 DEF ProvisionTyped
<1>7. OwnInv'
    BY <1>2, <1>3, <1>5, OwnStays
<1>8. Telling(r) /\ Writing(r)' /\ \A q \in Request : Between(q)' <=> Between(q)
    BY <1>1, <1>2, <1>4 DEF Telling, Writing, Between
<1>9. Calm => /\ SerialInv /\ seq \in Nat /\ seq' = seq + 1
              /\ (\A q \in Request : q # r => ~Between(q)) /\ \A m \in Node : last[m] \in Nat /\ last[m] <= seq
    BY <1>5, <1>8 DEF SerialInv, Numbered, OneWrites, Between, Telling, ProvisionTyped
<1>10. SerialInv'
    <2> SUFFICES ASSUME Calm PROVE OneWrites' /\ (\A q \in Request : Numbered(q)' /\ Listing(q)')
                                    /\ (\A m \in Node : last'[m] \in Nat /\ last'[m] <= seq')
        BY <1>5 DEF SerialInv, Calm
    <2>1. OneWrites'
        BY <1>8, <1>9 DEF SerialInv, OneWrites
    <2>2. \A m \in Node : last'[m] \in Nat /\ last'[m] < seq'
        BY <1>5, <1>9
    <2>3. Numbered(r)'
        BY <1>2, <1>4, <1>5, <2>2 DEF Numbered, Telling, Writing
    <2>4. \A q \in Request : q # r => Numbered(q)'
        <3> SUFFICES ASSUME NEW q \in Request, q # r PROVE Numbered(q)'
            OBVIOUS
        <3>1. request'[q] = request[q] /\ ~Telling(q)' /\ ~Writing(q)'
            BY <1>4, <1>9 DEF Telling, Writing, Between
        <3>2. request[q].pc = "rescan" => request[q].seq <= seq /\ request[q].seq \in Nat
            BY <1>9, AskingIs DEF SerialInv, Numbered, Asking
        <3>3. request[q].pc = "rescan" => request[q].seq < seq'
            BY <1>9, <3>2
        <3>4. \A w \in Request : Writing(w)' => seq' = seq'
            OBVIOUS
        <3> QED
            BY <3>1, <3>3, <1>9, <3>2 DEF Numbered
    <2>5. \A q \in Request : Listing(q)'
        BY <1>1, <1>2, <1>4, <1>9 DEF SerialInv, Listing
    <2> QED
        BY <1>9, <2>1, <2>2, <2>3, <2>4, <2>5
<1>11. ReachInv'
    <2> SUFFICES ASSUME NEW m \in Node, NEW g \in Gateway, ToReach(g)' PROVE Reaches(m, g)'
        BY DEF ReachInv
    <2>1. ToReach(g) /\ Calm
        BY <1>5 DEF ToReach, Calm, AllGateways
    <2>2. Held(m, g) => Held(m, g)'
        BY <1>5 DEF Held, Killed
    <2>3. last'[m] \in Nat /\ last'[m] = last[m] /\ last[m] < seq'
        BY <1>5, <1>9, <2>1
    <2>4. ASSUME Announced(g) PROVE Behind(m, g)'
        <3>1. PICK q \in Request : Telling(q) /\ request[q].op # "force" /\ g \in ToSet(request[q].names)
            BY <2>4 DEF Announced
        <3>2. q = r
            BY <1>9, <2>1, <3>1 DEF Telling, Between
        <3>3. g \in ToSet(request[r].list)
            BY <1>1, <1>9, <2>1, <3>1, <3>2 DEF SerialInv, Listing
        <3> QED
            BY <1>2, <1>4, <1>8, <2>3, <3>3 DEF Behind, InList
    <2>5. Behind(m, g) => Behind(m, g)'
        BY <1>9, <2>1, <2>3 DEF Behind
    <2> QED
        BY <2>1, <2>2, <2>4, <2>5 DEF ReachInv, Reaches
<1> QED
    BY <1>6, <1>7, <1>10, <1>11

LEMMA WriteListStep ==
    ASSUME ProvisionInv, NEW r \in Request, WriteList(r)
    PROVE  ProvisionInv'
<1> USE DEF ProvisionInv
<1> DEFINE e == [request[r] EXCEPT !.pc = "rescan"]
<1>1. request[r] \in Asking /\ request[r].pc = "write_list" /\ request' = [request EXCEPT ![r] = e]
    BY AskingIs DEF WriteList, ProvisionTyped
<1>2. /\ e \in Asking /\ e.pc = "rescan" /\ e.list = request[r].list
      /\ e.op = request[r].op /\ e.node = request[r].node /\ e.names = request[r].names
      /\ e.kill = request[r].kill /\ e.seq = request[r].seq
    BY <1>1 DEF Asking
<1> HIDE DEF e
<1>3. Moves(r, e)
    BY <1>1, <1>2 DEF Moves
<1>4. request'[r] = e /\ \A q \in Request : q # r => request'[q] = request[q]
    BY <1>3, RequestMoves
<1>5. UNCHANGED <<db, version, seq, fs, last, seen, watcher, jobs, by, trouble>> /\ pending' = request[r].list
    BY DEF WriteList
<1>6. ProvisionTyped'
    <2>1. /\ request' \in [Request -> Asking \cup {[pc |-> "new"], [pc |-> "done"]}]
          /\ \A q \in Request : request'[q].pc = "read_list" => Named(request'[q])
        BY <1>3, RequestMoves
    <2>2. pending' \in Names
        BY <1>1, <1>5 DEF Asking
    <2> QED
        BY <1>5, <2>1, <2>2 DEF ProvisionTyped
<1>7. OwnInv'
    BY <1>2, <1>3, <1>5, OwnStays
<1>8. Writing(r) /\ ~Between(r)'
    BY <1>1, <1>2, <1>4 DEF Writing, Between
<1>9. Calm => SerialInv /\ seq \in Nat /\ \A q \in Request : q # r => ~Between(q)
    BY <1>8 DEF SerialInv, OneWrites, Between, Writing, ProvisionTyped
<1>10. Calm => \A q \in Request : ~Between(q)' /\ ~Writing(q)' /\ ~Telling(q)'
    BY <1>4, <1>8, <1>9 DEF Between, Writing, Telling
<1>11. SerialInv'
    <2> SUFFICES ASSUME Calm PROVE OneWrites' /\ (\A q \in Request : Numbered(q)' /\ Listing(q)')
                                    /\ (\A m \in Node : last'[m] \in Nat /\ last'[m] <= seq')
        BY <1>5 DEF SerialInv, Calm
    <2>1. OneWrites'
        BY <1>10 DEF OneWrites
    <2>2. \A q \in Request : request'[q].pc = "rescan" => request'[q].seq <= seq'
        BY <1>1, <1>2, <1>4, <1>5, <1>8, <1>9 DEF SerialInv, Numbered
    <2>3. \A q \in Request : Numbered(q)'
        BY <1>10, <2>2 DEF Numbered
    <2>4. \A q \in Request : Listing(q)'
        BY <1>10 DEF Listing, Telling, Writing
    <2> QED
        BY <1>5, <1>9, <2>1, <2>3, <2>4 DEF SerialInv
<1>12. ReachInv'
    <2> SUFFICES ASSUME NEW m \in Node, NEW g \in Gateway, ToReach(g)' PROVE Reaches(m, g)'
        BY DEF ReachInv
    <2>1. ToReach(g) /\ Calm
        BY <1>5 DEF ToReach, Calm, AllGateways
    <2>2. Held(m, g) => Held(m, g)'
        BY <1>5 DEF Held, Killed
    <2>3. ~Announced(g)
        BY <1>1, <1>9, <2>1 DEF Announced, Telling, Between
    <2>4. ASSUME InList(g) PROVE InList(g)'
        <3>1. request[r].list = <<>> \/ g \in ToSet(request[r].list)
            BY <1>8, <1>9, <2>1, <2>4 DEF InList, Writing, Between
        <3> QED
            BY <1>5, <1>10, <2>1, <3>1 DEF InList
    <2> QED
        BY <1>5, <2>1, <2>2, <2>3, <2>4 DEF ReachInv, Reaches, Behind
<1> QED
    BY <1>6, <1>7, <1>11, <1>12

LEMMA RescanStep ==
    ASSUME ProvisionInv, NEW r \in Request, Rescan(r)
    PROVE  ProvisionInv'
<1> USE DEF ProvisionInv
<1> DEFINE e == [request[r] EXCEPT !.pc = "done"]
<1>1. request[r] \in Asking /\ request[r].pc = "rescan" /\ request' = [request EXCEPT ![r] = e]
    BY AskingIs DEF Rescan, ProvisionTyped
<1>2. /\ e \in Asking /\ e.pc = "done" /\ e.op = request[r].op /\ e.node = request[r].node
      /\ e.names = request[r].names /\ e.kill = request[r].kill /\ e.seq = request[r].seq
    BY <1>1 DEF Asking
<1>0. request[r].node \in Node /\ request[r].kill \in SUBSET Gateway /\ request[r].seq \in Nat
    BY <1>1 DEF Asking
<1>3. PICK n \in Node, names \in SUBSET Gateway :
        n = request[r].node /\ names = IF request[r].op = "force" THEN AllGateways ELSE request[r].kill
    BY <1>0 DEF AllGateways
<1>4. Spawn(n, names)
    BY <1>3 DEF Rescan, Spawn
<1>5. /\ UNCHANGED <<db, version, seq, pending, fs, watcher, by>>
      /\ IF request[r].op = "force"
         THEN /\ last' = [last EXCEPT ![n] = request[r].seq] /\ seen' = [seen EXCEPT ![n] = request[r].seq]
              /\ trouble' = trouble \cup {"full"}
         ELSE UNCHANGED <<last, seen, trouble>>
    BY <1>3 DEF Rescan
<1>6. \A g \in AllGateways : g \in request[r].kill => g \in names
    BY <1>3
<1>7. request[r].op = "force" => names = AllGateways
    BY <1>3
<1> HIDE DEF e
<1>8. Moves(r, e)
    BY <1>1, <1>2 DEF Moves
<1>9. request'[r] = e /\ \A q \in Request : q # r => request'[q] = request[q]
    BY <1>8, RequestMoves
<1>10. /\ jobs' \in [Node -> Seq(JobState)]
       /\ \A m \in Node : \A g : Killed(m, g) => Killed(m, g)'
       /\ \A m \in Node : jobs[m] # <<>> => jobs'[m] # <<>>
       /\ \A g \in names : Killed(n, g)'
    BY <1>3, <1>4, SpawnStep
<1>11. trouble \subseteq trouble' /\ trouble' \subseteq trouble \cup {"full"}
    BY <1>5
<1>12. ProvisionTyped'
    <2>1. /\ request' \in [Request -> Asking \cup {[pc |-> "new"], [pc |-> "done"]}]
          /\ \A q \in Request : request'[q].pc = "read_list" => Named(request'[q])
        BY <1>8, RequestMoves
    <2>2. last' \in [Node -> Nat \cup {NoSeq}] /\ seen' \in [Node -> Nat]
        BY <1>0, <1>3, <1>5 DEF ProvisionTyped
    <2>3. trouble' \subseteq {"race", "restart", "failure", "full", "dropped"}
        BY <1>11 DEF ProvisionTyped
    <2> QED
        BY <1>5, <1>10, <2>1, <2>2, <2>3 DEF ProvisionTyped
<1>13. \A q \in Request : /\ Writing(q)' <=> Writing(q)
                          /\ Telling(q)' <=> Telling(q)
                          /\ Between(q)' <=> Between(q)
    BY <1>1, <1>2, <1>9 DEF Writing, Telling, Between
<1>14. \A m \in Node, g \in Gateway : Held(m, g) => Held(m, g)'
    BY <1>5, <1>10 DEF Held
<1>15. OwnInv'
    <2> SUFFICES ASSUME trouble' \cap {"restart", "failure"} = {}, NEW g \in Gateway, db'[g] > 0, NEW m \in by'[g]
                 PROVE  Held(m, g)' \/ OwnRequest(m, g)'
        BY DEF OwnInv, AllGateways
    <2>1. m \in Node /\ g \in AllGateways /\ m \in by[g]
        BY <1>5 DEF ProvisionTyped, AllGateways
    <2>2. Held(m, g) \/ OwnRequest(m, g)
        BY <1>11, <2>1 DEF OwnInv
    <2>3. ASSUME OwnRequest(m, g) PROVE Held(m, g)' \/ OwnRequest(m, g)'
        <3>1. PICK q \in Request : Asked(q) /\ request[q].node = m /\ g \in request[q].kill
            BY <2>3 DEF OwnRequest
        <3>2. CASE q = r
            BY <1>3, <1>6, <1>10, <2>1, <3>1, <3>2 DEF Held
        <3>3. CASE q # r
            BY <1>9, <3>1, <3>3 DEF OwnRequest, Asked
        <3> QED
            BY <3>2, <3>3
    <2> QED
        BY <1>14, <2>1, <2>2, <2>3
<1>16. Calm' => Calm
    BY <1>11 DEF Calm
<1>17. SerialInv'
    <2> SUFFICES ASSUME Calm PROVE OneWrites' /\ (\A q \in Request : Numbered(q)' /\ Listing(q)')
                                    /\ (\A m \in Node : last'[m] \in Nat /\ last'[m] <= seq')
        BY <1>16 DEF SerialInv
    <2>1. OneWrites'
        BY <1>13 DEF SerialInv, OneWrites
    <2>2. request[r].seq <= seq /\ \A w \in Request : Writing(w) => request[r].seq < seq
        BY <1>1 DEF SerialInv, Numbered
    <2>3. \A m \in Node : /\ last'[m] \in Nat /\ last'[m] <= seq'
                          /\ \A w \in Request : Writing(w) => last'[m] < seq'
        <3> SUFFICES ASSUME NEW m \in Node
                     PROVE  /\ last'[m] \in Nat /\ last'[m] <= seq'
                            /\ \A w \in Request : Writing(w) => last'[m] < seq'
            OBVIOUS
        <3>1. last'[m] = last[m] \/ last'[m] = request[r].seq
            BY <1>5 DEF ProvisionTyped
        <3>2. last[m] \in Nat /\ last[m] <= seq /\ \A w \in Request : Writing(w) => last[m] < seq
            BY DEF SerialInv, Numbered
        <3> QED
            BY <1>0, <1>5, <2>2, <3>1, <3>2
    <2>4. \A q \in Request : Numbered(q)'
        <3> SUFFICES ASSUME NEW q \in Request PROVE Numbered(q)'
            OBVIOUS
        <3>1. Numbered(q)
            BY DEF SerialInv
        <3>2. CASE q = r
            BY <1>1, <1>2, <1>9, <3>2 DEF Numbered, Telling, Writing
        <3>3. CASE q # r
            BY <1>5, <1>9, <1>13, <2>3, <3>1, <3>3 DEF Numbered
        <3> QED
            BY <3>2, <3>3
    <2>5. \A q \in Request : Listing(q)'
        BY <1>2, <1>9 DEF SerialInv, Listing
    <2> QED
        BY <2>1, <2>3, <2>4, <2>5
<1>18. ReachInv'
    <2> SUFFICES ASSUME NEW m \in Node, NEW g \in Gateway, ToReach(g)' PROVE Reaches(m, g)'
        BY DEF ReachInv
    <2>1. ToReach(g)
        BY <1>5, <1>11 DEF ToReach, Calm, AllGateways
    <2>2. Announced(g) => Announced(g)'
        BY <1>1, <1>9, <1>13 DEF Announced, Telling
    <2>3. InList(g) => InList(g)'
        BY <1>1, <1>5, <1>9, <1>13 DEF InList, Writing
    <2>4. CASE last'[m] = last[m]
        BY <1>5, <1>14, <2>1, <2>2, <2>3, <2>4 DEF ReachInv, Reaches, Behind
    <2>5. CASE last'[m] # last[m]
        <3>1. m = n /\ request[r].op = "force" /\ "full" \in trouble'
            BY <1>5, <2>5 DEF ProvisionTyped
        <3>2. g \in AllGateways
            BY <1>5, <3>1 DEF ToReach, AllGateways
        <3> QED
            BY <1>7, <1>10, <3>1, <3>2 DEF Reaches, Held
    <2> QED
        BY <2>4, <2>5
<1> QED
    BY <1>12, <1>15, <1>17, <1>18
-----------------------------------------------------------------------------
(* The watcher and the threads of a node. *)

LEMMA LookStep ==
    ASSUME ProvisionConstants, ProvisionInv, NEW n \in Node, Look(n)
    PROVE  ProvisionInv'
<1> USE DEF ProvisionInv
<1>1. UNCHANGED <<db, version, seq, pending, fs, request, jobs, by, trouble>>
    BY DEF Look
<1>2. ProvisionTyped'
    <2>1. last' \in [Node -> Nat \cup {NoSeq}] /\ seen' \in [Node -> Nat]
        BY DEF Look, ProvisionTyped
    <2>2. [pc |-> "list", seq |-> seq] \in [pc : {"idle", "list"}, seq : Nat]
        BY DEF ProvisionTyped
    <2>3. \/ watcher' = watcher
          \/ watcher' = [watcher EXCEPT ![n] = [pc |-> "list", seq |-> seq]]
        BY DEF Look
    <2>4. watcher' \in [Node -> [pc : {"idle", "list"}, seq : Nat]]
        BY <2>2, <2>3 DEF ProvisionTyped
    <2> QED
        BY <1>1, <2>1, <2>4 DEF ProvisionTyped
<1>3. Calm => SerialInv /\ UNCHANGED last
    BY Limits DEF SerialInv, Look
<1>4. SerialInv'
    BY <1>1, <1>3 DEF SerialInv, Calm, OneWrites, Between, Numbered, Listing, Telling, Writing
<1>5. ReachInv'
    BY <1>1, <1>3 DEF ReachInv, ToReach, Calm, AllGateways, Reaches, Held, Killed, Announced, Telling,
                      Behind, InList, Writing
<1>6. OwnInv'
    BY <1>1 DEF OwnInv, AllGateways, Held, Killed, OwnRequest, Asked
<1> QED
    BY <1>2, <1>4, <1>5, <1>6

LEMMA SyncStep ==
    ASSUME ProvisionInv, NEW n \in Node, Sync(n)
    PROVE  ProvisionInv'
<1> USE DEF ProvisionInv
<1>0. ToRebuild(n) \in SUBSET Gateway /\ watcher[n].seq \in Nat
    BY DEF ToRebuild, ToSet, AllGateways, ProvisionTyped, Names
<1>1. PICK names \in SUBSET Gateway : names = ToRebuild(n)
    BY <1>0
<1>2. Spawn(n, names)
    BY <1>1 DEF Sync, Spawn
<1>3. /\ jobs' \in [Node -> Seq(JobState)]
      /\ \A m \in Node : \A g : Killed(m, g) => Killed(m, g)'
      /\ \A m \in Node : jobs[m] # <<>> => jobs'[m] # <<>>
      /\ \A g \in names : Killed(n, g)'
    BY <1>2, SpawnStep
<1>4. /\ UNCHANGED <<db, version, seq, pending, fs, request, by>> /\ trouble \subseteq trouble'
      /\ last' = [last EXCEPT ![n] = watcher[n].seq] /\ seen' = [seen EXCEPT ![n] = watcher[n].seq]
      /\ watcher' = [watcher EXCEPT ![n].pc = "idle"]
    BY DEF Sync
<1>5. ProvisionTyped'
    <2>1. last' \in [Node -> Nat \cup {NoSeq}] /\ seen' \in [Node -> Nat]
        BY <1>0, <1>4 DEF ProvisionTyped
    <2>2. watcher' \in [Node -> [pc : {"idle", "list"}, seq : Nat]]
        BY <1>4 DEF ProvisionTyped
    <2>3. trouble' \subseteq {"race", "restart", "failure", "full", "dropped"}
        BY DEF Sync, ProvisionTyped
    <2> QED
        BY <1>3, <1>4, <2>1, <2>2, <2>3 DEF ProvisionTyped
<1>6. \A m \in Node, g \in Gateway : Held(m, g) => Held(m, g)'
    BY <1>3, <1>4 DEF Held
<1>7. OwnInv'
    BY <1>4, <1>6 DEF OwnInv, AllGateways, OwnRequest, Asked, ProvisionTyped
<1>8. Calm' => Calm /\ SerialInv /\ watcher[n].seq = seq /\ \A r \in Request : ~Writing(r)
    BY DEF Sync, Calm, Writing
<1>9. SerialInv'
    <2> SUFFICES ASSUME Calm' PROVE OneWrites' /\ (\A q \in Request : Numbered(q)' /\ Listing(q)')
                                    /\ (\A m \in Node : last'[m] \in Nat /\ last'[m] <= seq')
        BY DEF SerialInv
    <2>1. OneWrites' /\ \A q \in Request : Listing(q)'
        BY <1>4, <1>8 DEF SerialInv, OneWrites, Between, Listing
    <2>2. \A m \in Node : last'[m] \in Nat /\ last'[m] <= seq'
        BY <1>0, <1>4, <1>8 DEF SerialInv, ProvisionTyped
    <2>3. \A q \in Request : Numbered(q)'
        BY <1>4, <1>8 DEF SerialInv, Numbered, Telling, Writing
    <2> QED
        BY <2>1, <2>2, <2>3
<1>10. ReachInv'
    <2> SUFFICES ASSUME NEW m \in Node, NEW g \in Gateway, ToReach(g)' PROVE Reaches(m, g)'
        BY DEF ReachInv
    <2>1. ToReach(g) /\ Calm'
        BY <1>4 DEF ToReach, Calm, AllGateways
    <2>2. Announced(g) => Announced(g)'
        BY <1>4 DEF Announced, Telling
    <2>3. CASE m # n
        <3>1. last'[m] = last[m]
            BY <1>4, <2>3 DEF ProvisionTyped
        <3>2. InList(g) => InList(g)'
            BY <1>4 DEF InList, Writing
        <3> QED
            BY <1>4, <1>6, <2>1, <2>2, <3>1, <3>2 DEF ReachInv, Reaches, Behind
    <2>4. CASE m = n /\ Behind(n, g)
        <3>1. watcher[n].seq = seq /\ \A r \in Request : ~Writing(r)
            BY <1>8, <2>1
        <3>2. seq - last[n] > 1 \/ pending = <<>> \/ g \in ToSet(pending)
            BY <2>4, <3>1 DEF Behind, InList
        <3>3. CASE g \in ToSet(pending) /\ ~Full(n)
            <4>1. seq - last[n] <= 1
                BY <1>8, <2>1, <3>1, <3>3 DEF Full, SerialInv, ProvisionTyped
            <4>2. g \in names
                BY <1>1, <3>1, <3>3, <4>1 DEF ToRebuild, Full
            <4> QED
                BY <1>3, <2>4, <4>2 DEF Reaches, Held
        <3>4. CASE Full(n)
            <4>1. "full" \in trouble'
                BY <3>4 DEF Sync
            <4>2. g \in AllGateways
                BY <1>4, <4>1 DEF ToReach, AllGateways
            <4>3. ~(pending # <<>> /\ watcher[n].seq - last[n] <= 1)
                BY <1>8, <2>1, <3>1, <3>4 DEF Full, SerialInv, ProvisionTyped
            <4>4. g \in names
                BY <1>1, <4>2, <4>3 DEF ToRebuild
            <4> QED
                BY <1>3, <2>4, <4>4 DEF Reaches, Held
        <3> QED
            BY <3>1, <3>2, <3>3, <3>4 DEF Full
    <2>5. CASE m = n /\ ~Behind(n, g)
        BY <1>6, <2>1, <2>2, <2>5 DEF ReachInv, Reaches
    <2> QED
        BY <2>3, <2>4, <2>5
<1> QED
    BY <1>5, <1>7, <1>9, <1>10

\* What is left of the threads of a node when one of them has ended.
LEMMA Ended ==
    ASSUME NEW S, NEW s \in Seq(S), NEW i \in DOMAIN s
    PROVE  /\ RemoveAt(s, i) \in Seq(S)
           /\ \A j \in DOMAIN s : j # i => \E k \in DOMAIN RemoveAt(s, i) : RemoveAt(s, i)[k] = s[j]
<1> DEFINE a == SubSeq(s, 1, i - 1)
           b == SubSeq(s, i + 1, Len(s))
           t == a \o b
<1>1. i \in 1 .. Len(s) /\ Len(s) \in Nat /\ DOMAIN s = 1 .. Len(s)
    OBVIOUS
<1>2. a \in Seq(S) /\ Len(a) = i - 1 /\ \A j \in 1 .. i - 1 : a[j] = s[j]
    BY <1>1
<1>3. b \in Seq(S) /\ Len(b) = Len(s) - i /\ \A j \in 1 .. Len(s) - i : b[j] = s[j + i]
    BY <1>1
<1> HIDE DEF a, b
<1>4. t \in Seq(S) /\ Len(t) = Len(s) - 1 /\ DOMAIN t = 1 .. Len(s) - 1
    <2>0. a \in Seq(S) /\ b \in Seq(S)
        BY <1>2, <1>3
    <2>1. a \o b \in Seq(S) /\ Len(a \o b) = Len(a) + Len(b)
        BY <2>0
    <2>2. Len(a) + Len(b) = Len(s) - 1
        BY <1>1, <1>2, <1>3
    <2>3. DOMAIN (a \o b) = 1 .. Len(a \o b)
        BY <2>1
    <2> QED
        BY <2>1, <2>2, <2>3
<1>5. \A k \in 1 .. Len(s) - 1 : t[k] = IF k <= i - 1 THEN a[k] ELSE b[k - (i - 1)]
    BY <1>1, <1>2, <1>3
<1> HIDE DEF t
<1>6. ASSUME NEW j \in 1 .. Len(s), j < i PROVE j \in DOMAIN t /\ t[j] = s[j]
    BY <1>1, <1>2, <1>4, <1>5, <1>6
<1>7. ASSUME NEW j \in 1 .. Len(s), j > i PROVE j - 1 \in DOMAIN t /\ t[j - 1] = s[j]
    <2>1. j - 1 \in 1 .. Len(s) - 1 /\ j - i \in 1 .. Len(s) - i /\ (j - 1) - (i - 1) = j - i /\ ~(j - 1 <= i - 1)
        BY <1>1, <1>7
    <2>2. b[j - i] = s[(j - i) + i] /\ (j - i) + i = j
        BY <1>1, <1>3, <2>1
    <2> QED
        BY <1>4, <1>5, <2>1, <2>2
<1>8. t = RemoveAt(s, i)
    BY DEF RemoveAt, t, a, b
<1>9. \A j \in DOMAIN s : j # i => j \in 1 .. Len(s) /\ (j < i \/ j > i)
    BY <1>1
<1> QED
    BY <1>4, <1>6, <1>7, <1>8, <1>9

\* A thread kills or creates: what the node holds or will hold it still does.
LEMMA RunJobHeld ==
    ASSUME ProvisionTyped, NEW n \in Node, RunJob(n)
    PROVE  /\ jobs' \in [Node -> Seq(JobState)] /\ fs' \in [Node -> [Gateway -> 0 .. version]]
           /\ \A m \in Node, g \in Gateway : Held(m, g) => Held(m, g)'
<1> DEFINE s == jobs[n]
<1>1. PICK i \in DOMAIN s :
        \/ /\ s[i].stage = "kill"
           /\ fs' = [fs EXCEPT ![n] = [g \in Gateway |-> IF g \in s[i].names THEN 0 ELSE fs[n][g]]]
           /\ jobs' = [jobs EXCEPT ![n] = [s EXCEPT ![i].stage = "rescan"]]
        \/ /\ s[i].stage = "rescan"
           /\ fs' = [fs EXCEPT ![n] = Rescanned(fs[n])]
           /\ jobs' = [jobs EXCEPT ![n] = RemoveAt(s, i)]
    BY DEF RunJob, ProvisionTyped
<1>2. s \in Seq(JobState) /\ s[i] \in JobState /\ DOMAIN s = 1 .. Len(s)
    BY DEF ProvisionTyped
<1>3. UNCHANGED <<db, version>>
    BY DEF RunJob
<1> HIDE DEF s
<1>4. CASE s[i].stage = "kill"
    <2> DEFINE t == [s EXCEPT ![i].stage = "rescan"]
               now == [g \in Gateway |-> IF g \in s[i].names THEN 0 ELSE fs[n][g]]
    <2>1. /\ jobs' = [jobs EXCEPT ![n] = t] /\ fs' = [fs EXCEPT ![n] = now]
        BY <1>1, <1>4
    <2>2. t \in Seq(JobState) /\ t # <<>> /\ DOMAIN t = DOMAIN s /\ \A j \in DOMAIN s : j # i => t[j] = s[j]
        <3>1. [s[i] EXCEPT !.stage = "rescan"] \in JobState
            BY <1>2 DEF JobState
        <3>2. t = [s EXCEPT ![i] = [s[i] EXCEPT !.stage = "rescan"]]
            BY <1>2
        <3> QED
            BY <1>2, <3>1, <3>2
    <2>3. now \in [Gateway -> 0 .. version]
        BY DEF ProvisionTyped
    <2>4. \A g \in Gateway : now[g] = IF g \in s[i].names THEN 0 ELSE fs[n][g]
        OBVIOUS
    <2> HIDE DEF t, now
    <2>5. jobs' \in [Node -> Seq(JobState)] /\ jobs'[n] = t /\ \A m \in Node : m # n => jobs'[m] = jobs[m]
        BY <2>1, <2>2 DEF ProvisionTyped
    <2>6. fs' \in [Node -> [Gateway -> 0 .. version]] /\ fs'[n] = now /\ \A m \in Node : m # n => fs'[m] = fs[m]
        BY <2>1, <2>3 DEF ProvisionTyped
    <2>7. \A g \in Gateway : Held(n, g) => Held(n, g)'
        <3> SUFFICES ASSUME NEW g \in Gateway, Held(n, g), g \notin s[i].names PROVE Held(n, g)'
            BY <2>2, <2>4, <2>5, <2>6 DEF Held
        <3>1. fs'[n][g] = fs[n][g]
            BY <2>4, <2>6
        <3>2. Killed(n, g) => Killed(n, g)'
            BY <2>2, <2>5 DEF Killed, s
        <3> QED
            BY <1>3, <2>2, <2>5, <3>1, <3>2 DEF Held
    <2>8. \A m \in Node, g \in Gateway : m # n /\ Held(m, g) => Held(m, g)'
        BY <1>3, <2>5, <2>6 DEF Held, Killed
    <2> QED
        BY <2>5, <2>6, <2>7, <2>8
<1>5. CASE s[i].stage = "rescan"
    <2> DEFINE t == RemoveAt(s, i)
    <2>1. jobs' = [jobs EXCEPT ![n] = t] /\ fs' = [fs EXCEPT ![n] = Rescanned(fs[n])]
        BY <1>1, <1>5
    <2>2. t \in Seq(JobState) /\ \A j \in DOMAIN s : j # i => \E k \in DOMAIN t : t[k] = s[j]
        BY <1>2, Ended
    <2> HIDE DEF t
    <2>3. Rescanned(fs[n]) \in [Gateway -> 0 .. version]
          /\ \A g \in Gateway : Rescanned(fs[n])[g] = IF fs[n][g] = 0 THEN db[g] ELSE fs[n][g]
        BY DEF Rescanned, ProvisionTyped
    <2>4. jobs' \in [Node -> Seq(JobState)] /\ jobs'[n] = t /\ \A m \in Node : m # n => jobs'[m] = jobs[m]
        BY <2>1, <2>2 DEF ProvisionTyped
    <2>5. fs' \in [Node -> [Gateway -> 0 .. version]] /\ fs'[n] = Rescanned(fs[n])
          /\ \A m \in Node : m # n => fs'[m] = fs[m]
        BY <2>1, <2>3 DEF ProvisionTyped
    <2>6. \A g \in Gateway : Killed(n, g) => Killed(n, g)'
        BY <1>5, <2>2, <2>4 DEF Killed, s
    <2>7. \A g \in Gateway : Held(n, g) => Held(n, g)'
        BY <1>3, <2>3, <2>5, <2>6 DEF Held
    <2>8. \A m \in Node, g \in Gateway : m # n /\ Held(m, g) => Held(m, g)'
        BY <1>3, <2>4, <2>5 DEF Held, Killed
    <2> QED
        BY <2>4, <2>5, <2>7, <2>8
<1> QED
    BY <1>1, <1>4, <1>5

LEMMA RunJobStep ==
    ASSUME ProvisionInv, NEW n \in Node, RunJob(n)
    PROVE  ProvisionInv'
<1> USE DEF ProvisionInv
<1>1. UNCHANGED <<db, version, seq, pending, last, seen, watcher, request, by, trouble>>
    BY DEF RunJob
<1>2. /\ jobs' \in [Node -> Seq(JobState)] /\ fs' \in [Node -> [Gateway -> 0 .. version]]
      /\ \A m \in Node, g \in Gateway : Held(m, g) => Held(m, g)'
    BY RunJobHeld
<1>3. ProvisionTyped'
    BY <1>1, <1>2 DEF ProvisionTyped
<1>4. SerialInv'
    BY <1>1 DEF SerialInv, Calm, OneWrites, Between, Numbered, Listing, Telling, Writing
<1>5. ReachInv'
    BY <1>1, <1>2 DEF ReachInv, ToReach, Calm, AllGateways, Reaches, Announced, Telling, Behind, InList, Writing
<1>6. OwnInv'
    BY <1>1, <1>2 DEF OwnInv, AllGateways, OwnRequest, Asked, ProvisionTyped
<1> QED
    BY <1>3, <1>4, <1>5, <1>6

\* A failure or a restart is trouble of another kind: nothing is promised after it.
LEMMA TroubleStep ==
    ASSUME ProvisionInv, NEW n \in Node, JobFails(n) \/ Restart(n)
    PROVE  ProvisionInv'
<1> USE DEF ProvisionInv
<1>1. trouble' \cap {"failure", "restart"} # {} /\ trouble' \subseteq {"race", "restart", "failure", "full", "dropped"}
    BY DEF JobFails, Restart, ProvisionTyped
<1>2. SerialInv' /\ ReachInv' /\ OwnInv'
    BY <1>1 DEF SerialInv, ReachInv, ToReach, Calm, OwnInv
<1>3. ASSUME JobFails(n) PROVE ProvisionTyped'
    <2>1. PICK i \in DOMAIN jobs[n] : jobs' = [jobs EXCEPT ![n] = RemoveAt(jobs[n], i)]
        BY <1>3 DEF JobFails, ProvisionTyped
    <2>2. jobs[n] \in Seq(JobState)
        BY DEF ProvisionTyped
    <2>3. RemoveAt(jobs[n], i) \in Seq(JobState)
        BY <2>2, Ended
    <2>4. jobs' \in [Node -> Seq(JobState)]
        BY <2>1, <2>3 DEF ProvisionTyped
    <2> QED
        BY <1>1, <1>3, <2>4 DEF JobFails, ProvisionTyped
<1>4. ASSUME Restart(n) PROVE ProvisionTyped'
    <2>1. <<[stage |-> "rescan", names |-> {}]>> \in Seq(JobState)
        BY DEF JobState
    <2>2. jobs' \in [Node -> Seq(JobState)]
        BY <1>4, <2>1 DEF Restart, ProvisionTyped
    <2>3. /\ request' \in [Request -> Asking \cup {[pc |-> "new"], [pc |-> "done"]}]
          /\ \A q \in Request : request'[q].pc = "read_list" => Named(request'[q])
        BY <1>4 DEF Restart, ProvisionTyped
    <2>4. watcher' \in [Node -> [pc : {"idle", "list"}, seq : Nat]] /\ last' \in [Node -> Nat \cup {NoSeq}]
        BY <1>4 DEF Restart, ProvisionTyped
    <2> QED
        BY <1>1, <1>4, <2>2, <2>3, <2>4 DEF Restart, ProvisionTyped
<1> QED
    BY <1>2, <1>3, <1>4

\* Each step keeps the invariant.
LEMMA ProvisionNext ==
    ASSUME ProvisionConstants, ProvisionInv, [Next]_vars
    PROVE  ProvisionInv'
<1>1. ASSUME NEW r \in Request, NEW n \in Node,
             Save(r, n) \/ Rename(r, n) \/ RemoveGateway(r, n) \/ ForceRescan(r, n)
      PROVE  ProvisionInv'
    BY <1>1, BeginStep
<1>2. ASSUME NEW r \in Request, ReadList(r) \/ WriteSeq(r) \/ WriteList(r) \/ Rescan(r)
      PROVE  ProvisionInv'
    BY <1>2, ReadListStep, WriteSeqStep, WriteListStep, RescanStep
<1>3. ASSUME NEW n \in Node, Look(n) \/ Sync(n) \/ RunJob(n) \/ JobFails(n) \/ Restart(n)
      PROVE  ProvisionInv'
    BY <1>3, LookStep, SyncStep, RunJobStep, TroubleStep
<1>4. CASE UNCHANGED vars
    <2>1. ProvisionTyped' /\ SerialInv'
        BY <1>4 DEF vars, ProvisionInv, ProvisionTyped, SerialInv, Calm, OneWrites, Between, Numbered,
                    Listing, Telling, Writing
    <2>2. ReachInv' /\ OwnInv'
        BY <1>4 DEF vars, ProvisionInv, ReachInv, ToReach, Calm, AllGateways, Reaches, Held, Killed, Announced,
                    Telling, Behind, InList, Writing, OwnInv, OwnRequest, Asked
    <2> QED
        BY <2>1, <2>2 DEF ProvisionInv
<1> QED
    BY <1>1, <1>2, <1>3, <1>4 DEF Next

LEMMA ProvisionInit ==
    ASSUME ProvisionConstants, Init
    PROVE  ProvisionInv
<1>1. db \in [Gateway -> 0 .. version] /\ version \in Nat /\ pending \in Names
    BY Limits DEF Init
<1>2. jobs \in [Node -> Seq(JobState)]
    BY DEF Init
<1>3. ProvisionTyped
    BY <1>1, <1>2 DEF Init, ProvisionTyped
<1>4. SerialInv
    BY DEF Init, SerialInv, OneWrites, Between, Numbered, Listing, Telling, Writing
<1>5. \A n \in Node, g \in Gateway : fs[n][g] = db[g]
    BY DEF Init
<1>6. ReachInv
    BY <1>5 DEF ReachInv, Reaches, Held
<1>7. OwnInv
    BY DEF Init, OwnInv, AllGateways
<1> QED
    BY <1>3, <1>4, <1>6, <1>7 DEF ProvisionInv

\* When nothing is left to do, all the ways but the first are closed.
LEMMA ProvisionImplies ==
    ASSUME ProvisionInv
    PROVE  TypeOK /\ ChangeReachesNodes /\ RemovedReachesNodes /\ OwnNodeIsCurrent
<1> USE DEF ProvisionInv
<1>1. TypeOK
    BY DEF ProvisionTyped, TypeOK, Names, IsInjective, ToSet
<1>2. ASSUME Quiet, NEW n \in Node, NEW g \in Gateway, Held(n, g)
      PROVE  fs[n][g] = db[g]
    BY <1>2 DEF Quiet, Held, Killed
<1>3. ASSUME Quiet, NEW n \in Node, NEW g \in Gateway, ToReach(g)
      PROVE  fs[n][g] = db[g]
    <2>1. ~Announced(g)
        BY <1>3 DEF Quiet, Announced, Telling
    <2>2. ~Behind(n, g)
        BY <1>3 DEF Quiet, Behind, ProvisionTyped
    <2> QED
        BY <1>2, <1>3, <2>1, <2>2 DEF ReachInv, Reaches
<1>4. ChangeReachesNodes
    BY <1>3 DEF ChangeReachesNodes, Current, AllGateways, ToReach, Calm
<1>5. RemovedReachesNodes
    BY <1>3 DEF RemovedReachesNodes, Clean, AllGateways, ToReach, Calm, ProvisionTyped
<1>6. OwnNodeIsCurrent
    <2> SUFFICES ASSUME Quiet, trouble \cap {"restart", "failure"} = {}, NEW g \in AllGateways, NEW n \in by[g]
                 PROVE  fs[n][g] = db[g]
        BY DEF OwnNodeIsCurrent
    <2>1. n \in Node /\ g \in Gateway
        BY DEF AllGateways, ProvisionTyped
    <2>2. ~OwnRequest(n, g)
        BY DEF Quiet, OwnRequest, Asked
    <2> QED
        BY <1>2, <2>1, <2>2 DEF OwnInv
<1> QED
    BY <1>1, <1>4, <1>5, <1>6
================================================================================
