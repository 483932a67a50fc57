----------------------------- MODULE NodeHealth -----------------------------
(***************************************************************************)
(* The health rows of the FreeSWITCH nodes.  The gateway process of a node *)
(* probes its own FreeSWITCH and writes its own row, and sweeps the rows   *)
(* of the others for heartbeats that are too old.  Time passes in probe    *)
(* intervals: every process that runs makes one round in each.             *)
(*                                                                         *)
(* A definition named X_Something is X with a plausible bug, kept to show  *)
(* which property finds it; no specification uses it.                      *)
(***************************************************************************)
EXTENDS Integers, FiniteSets, SequencesExt

CONSTANTS
    Node,
    FAIL_THRESHOLD, \* node_health_fail_threshold
    STALE,          \* stale threshold in intervals, of which stale_threshold takes no less than three
    Overloads,      \* calls found by a probe may reach the limit
    Crashes,        \* may a gateway process die
    MaxTrouble,     \* bound: failures and repairs of processes and FreeSWITCHes
    MaxAge          \* bound: ages are counted no further

NodeHealthConstants ==
    /\ FAIL_THRESHOLD \in Nat \ {0} /\ STALE \in Nat /\ STALE >= 3 /\ Overloads \in BOOLEAN /\ Crashes \in BOOLEAN
    /\ MaxTrouble \in Nat /\ MaxAge \in Nat /\ MaxAge > STALE + 2

VARIABLES
    process, fs,    \* do the gateway process and the FreeSWITCH of a node run
    status, count, age,  \* columns of the rows; age of last_heartbeat_at in intervals
    told,           \* the latest alert of each node in operation_log
    job,            \* what each process is at
    trouble,
    steady, running \* history: intervals a node, or its process, has run on end

vars == <<process, fs, status, count, age, told, job, trouble, steady, running>>

Waiting == [pc |-> "wait"]
Ready == [pc |-> "probe"]

Older(n) == IF n < MaxAge THEN n + 1 ELSE n

\* Every node has registered itself and been found well.
Init ==
    /\ process = [n \in Node |-> TRUE] /\ fs = [n \in Node |-> TRUE]
    /\ status = [n \in Node |-> "online"] /\ count = [n \in Node |-> 0] /\ age = [n \in Node |-> 0]
    /\ told = [n \in Node |-> "none"]
    /\ job = [n \in Node |-> Ready] /\ trouble = 0
    /\ steady = [n \in Node |-> 0] /\ running = [n \in Node |-> 0]
-----------------------------------------------------------------------------
(* The round of a process: its own probe. *)

\* Reads the row and probes; what there is to tell is told before the row is written.
Probe(n) ==
    /\ process[n] /\ job[n].pc = "probe"
    /\ \E over \in (IF fs[n] /\ Overloads THEN BOOLEAN ELSE {FALSE}) :
        LET fails == IF fs[n] THEN 0 ELSE Older(count[n])
            now == CASE fs[n] /\ over -> "overload"
                     [] fs[n] /\ ~over -> "online"
                     [] ~fs[n] /\ fails >= FAIL_THRESHOLD -> "offline"
                     [] OTHER -> status[n]
        IN  job' = [job EXCEPT ![n] =
                [pc |-> IF now # status[n] \/ now = "overload" THEN "alert" ELSE "commit",
                 ok |-> fs[n], was |-> status[n], now |-> now, count |-> fails]]
    /\ UNCHANGED <<process, fs, status, count, age, told, trouble, steady, running>>

\* alert_if_changed: a repeat of the latest alert is not written.
Alert(n) ==
    /\ process[n] /\ job[n].pc = "alert"
    /\ told' = [told EXCEPT ![n] = job[n].now]
    /\ job' = [job EXCEPT ![n].pc = "commit"]
    /\ UNCHANGED <<process, fs, status, count, age, trouble, steady, running>>

\* The status is written only if it differs from what was read.
Commit(n) ==
    /\ process[n] /\ job[n].pc = "commit"
    /\ status' = IF job[n].now = job[n].was THEN status ELSE [status EXCEPT ![n] = job[n].now]
    /\ count' = [count EXCEPT ![n] = job[n].count]
    /\ age' = IF job[n].ok THEN [age EXCEPT ![n] = 0] ELSE age
    /\ job' = [job EXCEPT ![n] = [pc |-> "sweep"]]
    /\ UNCHANGED <<process, fs, told, trouble, steady, running>>
-----------------------------------------------------------------------------
(* The round of a process: the rows of the others. *)

\* A threshold of one interval, as an explicit setting could ask for.
X_MayBeStale(m) == age[m] >= 1

\* Heartbeat and sweep fall anywhere in their intervals: a row is surely too old a whole
\* interval after it may be.
MayBeStale(m) == age[m] >= STALE
IsStale(m) == age[m] > STALE

\* The rows a sweep turns: the stale ones of other nodes that are not offline.
Swept(n, s) ==
    LET rows == {m \in Node \ {n} : status[m] # "offline"}
    IN  s \subseteq {m \in rows : MayBeStale(m)} /\ {m \in rows : IsStale(m)} \subseteq s

SweepRead(n) ==
    /\ process[n] /\ job[n].pc = "sweep"
    /\ \E s \in SUBSET Node : Swept(n, s) /\
        job' = [job EXCEPT ![n] = IF s = {} THEN Waiting ELSE [pc |-> "turn", rows |-> s]]
    /\ UNCHANGED <<process, fs, status, count, age, told, trouble, steady, running>>

SweepCommit(n) ==
    /\ process[n] /\ job[n].pc = "turn"
    /\ status' = [m \in Node |-> IF m \in job[n].rows THEN "offline" ELSE status[m]]
    /\ job' = [job EXCEPT ![n].pc = "tell"]
    /\ UNCHANGED <<process, fs, count, age, told, trouble, steady, running>>

\* Alerts of a sweep are told one by one once the rows are written.
SweepAlert(n) ==
    /\ process[n] /\ job[n].pc = "tell"
    /\ \E m \in job[n].rows :
        /\ told' = [told EXCEPT ![m] = "offline"]
        /\ job' = [job EXCEPT ![n] = IF job[n].rows = {m} THEN Waiting ELSE [job[n] EXCEPT !.rows = @ \ {m}]]
    /\ UNCHANGED <<process, fs, status, count, age, trouble, steady, running>>
-----------------------------------------------------------------------------
(* Time and trouble. *)

\* An interval ends when every process that runs has ended its round.
Tick ==
    /\ \A n \in Node : process[n] => job[n] = Waiting
    /\ job' = [n \in Node |-> Ready]
    /\ age' = [n \in Node |-> Older(age[n])]
    /\ steady' = [n \in Node |-> IF process[n] /\ fs[n] THEN Older(steady[n]) ELSE 0]
    /\ running' = [n \in Node |-> IF process[n] THEN Older(running[n]) ELSE 0]
    /\ UNCHANGED <<process, fs, status, count, told, trouble>>

Troubled == trouble < MaxTrouble /\ trouble' = trouble + 1

FsFlips(n) ==
    /\ Troubled /\ fs' = [fs EXCEPT ![n] = ~@] /\ steady' = [steady EXCEPT ![n] = 0]
    /\ UNCHANGED <<process, status, count, age, told, job, running>>

\* A process ends wherever it is, and begins with a round.
ProcessFlips(n) ==
    /\ Crashes /\ Troubled /\ process' = [process EXCEPT ![n] = ~@] /\ job' = [job EXCEPT ![n] = Ready]
    /\ steady' = [steady EXCEPT ![n] = 0] /\ running' = [running EXCEPT ![n] = 0]
    /\ UNCHANGED <<fs, status, count, age, told>>

Next ==
    \/ Tick
    \/ \E n \in Node :
        \/ Probe(n) \/ Alert(n) \/ Commit(n)
        \/ SweepRead(n) \/ SweepCommit(n) \/ SweepAlert(n)
        \/ FsFlips(n) \/ ProcessFlips(n)

Spec == Init /\ [][Next]_vars
-----------------------------------------------------------------------------
(* Properties. *)

TypeOK ==
    /\ status \in [Node -> {"online", "overload", "offline"}]
    /\ told \in [Node -> {"none", "online", "overload", "offline"}]
    /\ count \in [Node -> 0..MaxAge] /\ age \in [Node -> 0..MaxAge]

\* A node that has run for three intervals on end is not shown offline, whoever swept it
\* in between and whatever that overwrote.
SteadyNodeIsOnline == \A n \in Node : steady[n] >= 3 => status[n] # "offline"

\* A node whose heartbeats ended is shown offline once another process has run for two
\* intervals since they were too old.
SilentNodeIsOffline ==
    \A n, m \in Node : n # m /\ age[n] >= STALE + 2 /\ running[m] >= 2 => status[n] = "offline"
-----------------------------------------------------------------------------
(* Said of the code and refuted by this model; the README tells how. *)

\* node_health.py: while its process runs, a node goes offline only after as many
\* failures as the threshold says; a sweep does not get ahead of that.
DebounceIsKept ==
    [][\A n \in Node : status[n] # "offline" /\ status'[n] = "offline" /\ running[n] >= STALE + 1
        => count'[n] >= FAIL_THRESHOLD]_vars

\* alerting.py: an alert is written when the status changes; if no process dies, between
\* rounds the latest alert tells whether a node is offline.
AlertTellsOffline ==
    ~Crashes /\ (\A n \in Node : job[n] = Waiting) =>
        \A n \in Node : status[n] = "offline" <=> told[n] = "offline"
=============================================================================
