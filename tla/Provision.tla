------------------------------ MODULE Provision ------------------------------
(***************************************************************************)
(* How a change of a gateway reaches the FreeSWITCH of every node: the     *)
(* request commits the row, registers a new sequence number and the names  *)
(* in two settings, and has its own node rebuild the gateway; the watcher  *)
(* of each node polls the number and rebuilds what the list of names says, *)
(* or everything.  All gateways are point to point, served by every node.  *)
(*                                                                         *)
(* A definition named X_Something is X with a plausible bug, kept to show  *)
(* which property finds it; no specification uses it.                      *)
(***************************************************************************)
EXTENDS Integers, SequencesExt

CONSTANTS
    Node, Gateway, Request,
    Existing,       \* gateways that every node has from before
    Listed,         \* provision_pending from before
    Op,             \* what requests do: "save", "remove", "rename", "force"
    MaxPending,     \* names that fit in provision_pending
    MaxRestarts, MaxFailures,
    NoSeq           \* _last_seq of a watcher that has not looked yet

ProvisionConstants ==
    /\ Existing \subseteq Gateway
    /\ MaxPending \in Nat \ {0} /\ MaxRestarts \in Nat /\ MaxFailures \in Nat
    /\ Listed \in Seq(Gateway) /\ Len(Listed) <= MaxPending /\ IsInjective(Listed)
    /\ NoSeq \notin Nat

VARIABLES
    db,             \* version of each gateway in the database, 0 if there is none
    version,        \* the latest version of any
    seq, pending,   \* provision_seq, provision_pending
    fs,             \* version of each gateway FreeSWITCH holds on each node
    last, seen,     \* _last_seq of the watcher and provision_seen of each node
    watcher,        \* where the watcher is and the number it read
    request,        \* where each request is and what it read
    jobs,           \* threads of each node that talk to FreeSWITCH
    by,             \* history: the node that changed a gateway last
    trouble,        \* history: what went wrong so far
    restarts, failures

vars == <<db, version, seq, pending, fs, last, seen, watcher, request, jobs, by, trouble, restarts, failures>>

Init ==
    /\ db = [g \in Gateway |-> IF g \in Existing THEN 1 ELSE 0] /\ version = 1
    /\ seq = 0 /\ pending = Listed
    /\ fs = [n \in Node |-> db]
    /\ last = [n \in Node |-> 0] /\ seen = [n \in Node |-> 0]
    /\ watcher = [n \in Node |-> [pc |-> "idle", seq |-> 0]]
    /\ request = [r \in Request |-> [pc |-> "new"]]
    /\ jobs = [n \in Node |-> <<>>] /\ by = [g \in Gateway |-> {}]
    /\ trouble = {} /\ restarts = 0 /\ failures = 0
-----------------------------------------------------------------------------
(* Threads that talk to FreeSWITCH. *)

AllGateways == {g \in Gateway : db[g] > 0}

\* A thread of resync or rescan: gateways to kill, then one rescan.
Job(names) == [stage |-> "kill", names |-> names]

Spawn(n, names) == jobs' = [jobs EXCEPT ![n] = Append(@, Job(names))]

\* rescan creates what FreeSWITCH does not hold and leaves alone what it does.
Rescanned(held) == [g \in Gateway |-> IF held[g] = 0 THEN db[g] ELSE held[g]]

RunJob(n) ==
    /\ \E i \in DOMAIN jobs[n] :
        \/ /\ jobs[n][i].stage = "kill"
           /\ fs' = [fs EXCEPT ![n] = [g \in Gateway |-> IF g \in jobs[n][i].names THEN 0 ELSE @[g]]]
           /\ jobs' = [jobs EXCEPT ![n][i].stage = "rescan"]
        \/ /\ jobs[n][i].stage = "rescan"
           /\ fs' = [fs EXCEPT ![n] = Rescanned(@)]
           /\ jobs' = [jobs EXCEPT ![n] = RemoveAt(@, i)]
    /\ UNCHANGED <<db, version, seq, pending, last, seen, watcher, request, by, trouble, restarts, failures>>

\* FreeSWITCH cannot be reached: the thread logs it and ends.
JobFails(n) ==
    /\ failures < MaxFailures /\ failures' = failures + 1
    /\ \E i \in DOMAIN jobs[n] : jobs' = [jobs EXCEPT ![n] = RemoveAt(@, i)]
    /\ trouble' = trouble \cup {"failure"}
    /\ UNCHANGED <<db, version, seq, pending, fs, last, seen, watcher, request, by, restarts>>
-----------------------------------------------------------------------------
(* A request of the API. *)

Between(r) == request[r].pc \in {"read_list", "write_seq", "write_list"}

\* create_entity and update_entity are coroutines that wait for nothing from here on:
\* a node runs one of them at a time, beside threads of the other requests.
Free(n) == \A q \in Request :
    request[q].pc \notin {"new", "done"} /\ request[q].node = n => request[q].op \notin {"save", "rename"}

\* The change is committed and bump_pending or force_all_nodes_rescan reads the number.
Enter(r, n, op, names, kill) ==
    /\ request' = [request EXCEPT ![r] = [pc |-> IF op = "force" THEN "write_seq" ELSE "read_list", op |-> op,
                                          node |-> n, names |-> names, kill |-> kill,
                                          seq |-> seq + 1, list |-> <<>>]]
    /\ trouble' = IF \E q \in Request \ {r} : Between(q) THEN trouble \cup {"race"} ELSE trouble
    /\ UNCHANGED <<seq, pending, fs, last, seen, watcher, jobs, restarts, failures>>

Commit(n, g, h) ==
    /\ version' = version + 1
    /\ db' = [db EXCEPT ![g] = 0, ![h] = version + 1]
    /\ by' = [by EXCEPT ![g] = {n}, ![h] = {n}]

Save(r, n) ==
    /\ "save" \in Op /\ request[r].pc = "new" /\ Free(n)
    /\ \E g \in Gateway : Commit(n, g, g) /\ Enter(r, n, "save", <<g>>, {g})

\* The old name and the new are registered; the node itself kills the new one.
Rename(r, n) ==
    /\ "rename" \in Op /\ request[r].pc = "new" /\ Free(n)
    /\ \E g \in AllGateways, h \in Gateway \ AllGateways :
        Commit(n, g, h) /\ Enter(r, n, "rename", <<g, h>>, {h})

RemoveGateway(r, n) ==
    /\ "remove" \in Op /\ request[r].pc = "new"
    /\ \E g \in AllGateways :
        /\ db' = [db EXCEPT ![g] = 0] /\ by' = [by EXCEPT ![g] = {n}] /\ UNCHANGED version
        /\ Enter(r, n, "remove", <<g>>, {g})

ForceRescan(r, n) ==
    /\ "force" \in Op /\ request[r].pc = "new"
    /\ Enter(r, n, "force", <<>>, {})
    /\ UNCHANGED <<db, version, by>>

\* The one name or the two that are not in the list yet are added; too long a list loses
\* its oldest.
Added(list, g) == IF Contains(list, g) THEN list ELSE Append(list, g)

Merged(list, names) ==
    LET all == Added(Added(list, Head(names)), Last(names))
    IN  IF Len(all) > MaxPending THEN SubSeq(all, Len(all) - MaxPending + 1, Len(all)) ELSE all

ReadList(r) ==
    /\ request[r].pc = "read_list"
    /\ request' = [request EXCEPT ![r].pc = "write_seq", ![r].list = Merged(pending, request[r].names)]
    /\ trouble' = IF ToSet(request[r].names) \subseteq ToSet(Merged(pending, request[r].names))
                  THEN trouble ELSE trouble \cup {"dropped"}
    /\ UNCHANGED <<db, version, seq, pending, fs, last, seen, watcher, jobs, by, restarts, failures>>

WriteSeq(r) ==
    /\ request[r].pc = "write_seq"
    /\ seq' = request[r].seq
    /\ request' = [request EXCEPT ![r].pc = "write_list"]
    /\ UNCHANGED <<db, version, pending, fs, last, seen, watcher, jobs, by, trouble, restarts, failures>>

WriteList(r) ==
    /\ request[r].pc = "write_list"
    /\ pending' = request[r].list
    /\ request' = [request EXCEPT ![r].pc = "rescan"]
    /\ UNCHANGED <<db, version, seq, fs, last, seen, watcher, jobs, by, trouble, restarts, failures>>

\* The node of the request starts its own thread; force also sets its watcher's
\* position and reports it.
Rescan(r) ==
    /\ request[r].pc = "rescan"
    /\ LET q == request[r]
       IN  IF q.op = "force"
           THEN /\ Spawn(q.node, AllGateways) /\ trouble' = trouble \cup {"full"}
                /\ last' = [last EXCEPT ![q.node] = q.seq] /\ seen' = [seen EXCEPT ![q.node] = q.seq]
           ELSE Spawn(q.node, q.kill) /\ UNCHANGED <<last, seen, trouble>>
    /\ request' = [request EXCEPT ![r].pc = "done"]
    /\ UNCHANGED <<db, version, seq, pending, fs, watcher, by, restarts, failures>>
-----------------------------------------------------------------------------
(* The watcher of a node. *)

\* The first look after a start only takes the position.
Look(n) ==
    /\ watcher[n].pc = "idle" /\ seq # last[n]
    /\ IF last[n] = NoSeq
       THEN /\ last' = [last EXCEPT ![n] = seq] /\ seen' = [seen EXCEPT ![n] = seq]
            /\ UNCHANGED watcher
       ELSE watcher' = [watcher EXCEPT ![n] = [pc |-> "list", seq |-> seq]] /\ UNCHANGED <<last, seen>>
    /\ UNCHANGED <<db, version, seq, pending, fs, request, jobs, by, trouble, restarts, failures>>

\* The list is trusted although the number jumped.
X_ToRebuild(n) == IF pending # <<>> THEN ToSet(pending) ELSE AllGateways

\* The names of the list, or every gateway if there are none or the number jumped.
ToRebuild(n) ==
    IF pending # <<>> /\ watcher[n].seq - last[n] <= 1 THEN ToSet(pending) ELSE AllGateways

Full(n) == pending = <<>> \/ watcher[n].seq - last[n] > 1

Sync(n) ==
    /\ watcher[n].pc = "list"
    /\ Spawn(n, ToRebuild(n))
    /\ last' = [last EXCEPT ![n] = watcher[n].seq] /\ seen' = [seen EXCEPT ![n] = watcher[n].seq]
    /\ watcher' = [watcher EXCEPT ![n].pc = "idle"]
    /\ trouble' = trouble \cup (IF seq # watcher[n].seq \/ \E r \in Request : request[r].pc = "write_list"
                                THEN {"race"} ELSE {})
                          \cup (IF Full(n) THEN {"full"} ELSE {})
    /\ UNCHANGED <<db, version, seq, pending, fs, request, by, restarts, failures>>

\* The gateway process of a node restarts while its FreeSWITCH stays up; gw_bootstrap
\* has it rescanned once.
Restart(n) ==
    /\ restarts < MaxRestarts /\ restarts' = restarts + 1
    /\ last' = [last EXCEPT ![n] = NoSeq]
    /\ watcher' = [watcher EXCEPT ![n].pc = "idle"]
    /\ jobs' = [jobs EXCEPT ![n] = <<[stage |-> "rescan", names |-> {}]>>]
    /\ request' = [r \in Request |-> IF request[r].pc \notin {"new", "done"} /\ request[r].node = n
                                     THEN [pc |-> "done"] ELSE request[r]]
    /\ trouble' = trouble \cup {"restart"}
    /\ UNCHANGED <<db, version, seq, pending, fs, seen, by, failures>>

Next ==
    \/ \E r \in Request, n \in Node : Save(r, n) \/ Rename(r, n) \/ RemoveGateway(r, n) \/ ForceRescan(r, n)
    \/ \E r \in Request : ReadList(r) \/ WriteSeq(r) \/ WriteList(r) \/ Rescan(r)
    \/ \E n \in Node : Look(n) \/ Sync(n) \/ RunJob(n) \/ JobFails(n) \/ Restart(n)

Spec == Init /\ [][Next]_vars
-----------------------------------------------------------------------------
(* Properties. *)

TypeOK ==
    /\ db \in [Gateway -> 0..version] /\ seq \in Nat
    /\ Len(pending) <= MaxPending /\ ToSet(pending) \subseteq Gateway
    /\ \A i, j \in DOMAIN pending : pending[i] = pending[j] => i = j
    /\ fs \in [Node -> [Gateway -> 0..version]]
    /\ \A n \in Node : last[n] \in Nat \cup {NoSeq} /\ seen[n] \in Nat
    /\ by \in [Gateway -> SUBSET Node]
    /\ trouble \subseteq {"race", "restart", "failure", "full", "dropped"}

\* Nothing is left to do: no request and no thread runs, every watcher has caught up.
Quiet ==
    /\ \A r \in Request : request[r].pc \in {"new", "done"}
    /\ \A n \in Node : jobs[n] = <<>> /\ watcher[n].pc = "idle" /\ last[n] = seq

Current(n) == \A g \in AllGateways : fs[n][g] = db[g]
Clean(n) == \A g \in Gateway \ AllGateways : fs[n][g] = 0

\* Requests that overlap neither each other nor the two reads of a watcher reach every
\* node, however late and in what jumps the watchers look, if the list has room for its names.
ChangeReachesNodes ==
    Quiet /\ trouble \subseteq {"full"} => \A n \in Node : Current(n)

\* A gateway that was removed or renamed goes from every node that was told by name.
RemovedReachesNodes == Quiet /\ trouble = {} => \A n \in Node : Clean(n)

\* The node that made the latest change of a gateway has it, whatever the others read.
OwnNodeIsCurrent ==
    Quiet /\ trouble \cap {"restart", "failure"} = {} =>
        \A g \in AllGateways : \A n \in by[g] : fs[n][g] = db[g]
-----------------------------------------------------------------------------
(* Said of the code and refuted by this model; the README tells how. *)

\* fs_provision.py: names that were dropped from the list are rebuilt all the same.
DroppedReachesNodes ==
    Quiet /\ trouble \subseteq {"full", "dropped"} => \A n \in Node : Current(n)

\* fs_provision.py: a change made on another node reaches this one.
OverlappingChangeReachesNodes ==
    Quiet /\ trouble \subseteq {"full", "dropped", "race"} => \A n \in Node : Current(n)

\* fs_provision.py: a node that was away catches up when it is back.
RestartCatchesUp ==
    Quiet /\ trouble \subseteq {"full", "dropped", "restart"} => \A n \in Node : Current(n)

\* fs_provision.py: a rebuild of everything makes up for a list that may be incomplete.
FullRebuildCleans == Quiet /\ trouble \subseteq {"full"} => \A n \in Node : Clean(n)

\* fs_provision.py: the old name of a renamed gateway is passed on.
RenamedIsPassedOn == Quiet /\ trouble \subseteq {"dropped"} => \A n \in Node : Clean(n)

\* fs_provision.py: what a node reports as seen it has dealt with.
SeenIsRebuilt ==
    Quiet /\ trouble \subseteq {"full", "dropped", "failure"} =>
        \A n \in Node : seen[n] = seq => Current(n)
=============================================================================
