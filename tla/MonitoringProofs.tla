-------------------------- MODULE MonitoringProofs --------------------------
(***************************************************************************)
(* What is shown of nodes, gateways and calls is how they are, for any     *)
(* nodes, gateways, calls, thresholds and bounds.                          *)
(***************************************************************************)
EXTENDS Monitoring, Sequences, FiniteSetTheorems, TLAPS

-----------------------------------------------------------------------------
(* Node health. *)

Status == {"online", "overload", "offline"}

HealthJob ==
    [pc : {"wait", "probe", "sweep"}]
        \cup [pc : {"alert", "commit"}, ok : BOOLEAN, was : Status, now : Status, count : 0 .. MaxAge]
        \cup [pc : {"turn", "tell"}, rows : SUBSET HealthNode]

HealthTyped ==
    /\ process \in [HealthNode -> BOOLEAN] /\ fs \in [HealthNode -> BOOLEAN]
    /\ status \in [HealthNode -> Status] /\ told \in [HealthNode -> Status \cup {"none"}]
    /\ count \in [HealthNode -> 0 .. MaxAge] /\ age \in [HealthNode -> 0 .. MaxAge]
    /\ steady \in [HealthNode -> 0 .. MaxAge] /\ running \in [HealthNode -> 0 .. MaxAge]
    /\ job \in [HealthNode -> HealthJob]

\* The round has probed and will write, or has written.
Probed(j) == j.pc \in {"alert", "commit"}
Written(j) == j.pc \in {"sweep", "turn", "tell", "wait"}

\* A failed probe takes the node offline or changes nothing; who runs on runs.
RoundsInv ==
    \A n \in HealthNode :
        /\ Probed(job[n]) /\ ~job[n].ok => job[n].now \in {job[n].was, "offline"}
        /\ running[n] >= 1 => process[n]

\* In the first interval on end the node gets a heartbeat; in the second it is too young for
\* a sweep, so that what the node read of its row still stands when it writes.
SteadyInv ==
    \A n \in HealthNode :
        /\ steady[n] >= 1 => process[n] /\ fs[n]
        /\ steady[n] >= 1 /\ Probed(job[n]) => job[n].ok
        /\ steady[n] >= 1 /\ Written(job[n]) => age[n] = 0
        /\ steady[n] >= 2 => age[n] <= 1 /\ \A m \in HealthNode : job[m].pc = "turn" => n \notin job[m].rows
        /\ steady[n] >= 2 /\ Probed(job[n]) => job[n].was = status[n] /\ job[n].now # "offline"
        /\ steady[n] >= 2 /\ Written(job[n]) => status[n] # "offline"
        /\ steady[n] >= 3 => status[n] # "offline"

\* The sweep of a whole interval finds what was too old all the time.
SilentInv ==
    \A n, m \in HealthNode : n # m /\ age[n] >= STALE + 1 =>
        /\ running[m] >= 1 /\ job[m].pc \in {"tell", "wait"} => status[n] = "offline"
        /\ running[m] >= 1 /\ job[m].pc = "turn" => n \in job[m].rows \/ status[n] = "offline"
        /\ age[n] >= STALE + 2 /\ running[m] >= 2 => status[n] = "offline"

HealthInv == HealthTyped /\ RoundsInv /\ SteadyInv /\ SilentInv

LEMMA HealthBounds ==
    /\ STALE \in Nat /\ STALE >= 3 /\ MaxAge \in Nat /\ MaxAge > STALE + 2 /\ FAIL_THRESHOLD \in Nat
    /\ \A k \in 0 .. MaxAge :
        /\ Health!Older(k) \in 0 .. MaxAge /\ Health!Older(k) >= 1 /\ (k = 0 => Health!Older(k) = 1)
        /\ \A i \in 1 .. MaxAge : i < MaxAge /\ Health!Older(k) >= i => k >= i - 1
<1>1. STALE \in Nat /\ STALE >= 3 /\ MaxAge \in Nat /\ MaxAge > STALE + 2 /\ FAIL_THRESHOLD \in Nat
    BY HealthAssumption DEF Health!NodeHealthConstants
<1> QED
    BY <1>1 DEF Health!Older

LEMMA HealthInit == Health!Init => HealthInv
<1> SUFFICES ASSUME Health!Init PROVE HealthInv
    OBVIOUS
<1>1. HealthTyped
    BY HealthBounds DEF Health!Init, HealthTyped, HealthJob, Health!Ready, Status
<1>2. \A n \in HealthNode : job[n].pc = "probe" /\ steady[n] = 0 /\ running[n] = 0 /\ age[n] = 0
    BY DEF Health!Init, Health!Ready
<1>3. STALE + 1 > 0
    BY HealthBounds
<1> QED
    BY <1>1, <1>2, <1>3 DEF HealthInv, RoundsInv, SteadyInv, SilentInv, Probed, Written

\* An interval ends: heartbeats age, and every round has been made.
LEMMA HealthTick ==
    ASSUME HealthInv, Health!Tick
    PROVE  HealthInv'
<1>1. job' = [n \in HealthNode |-> Health!Ready] /\ UNCHANGED <<process, fs, status, count, told>>
      /\ \A n \in HealthNode : process[n] => job[n] = Health!Waiting
    BY DEF Health!Tick
<1>2. age' = [n \in HealthNode |-> Health!Older(age[n])]
      /\ steady' = [n \in HealthNode |-> IF process[n] /\ fs[n] THEN Health!Older(steady[n]) ELSE 0]
      /\ running' = [n \in HealthNode |-> IF process[n] THEN Health!Older(running[n]) ELSE 0]
    BY DEF Health!Tick
<1>3. \A n \in HealthNode : age[n] \in 0 .. MaxAge /\ steady[n] \in 0 .. MaxAge /\ running[n] \in 0 .. MaxAge
    BY DEF HealthInv, HealthTyped
<1>4. job' \in [HealthNode -> HealthJob] /\ \A n \in HealthNode : job'[n].pc = "probe"
    BY <1>1 DEF HealthJob, Health!Ready
<1>5. age' \in [HealthNode -> 0 .. MaxAge]
    BY <1>2, <1>3, HealthBounds
<1>6. steady' \in [HealthNode -> 0 .. MaxAge]
    BY <1>2, <1>3, HealthBounds
<1>7. running' \in [HealthNode -> 0 .. MaxAge]
    BY <1>2, <1>3, HealthBounds
<1>8. HealthTyped'
    BY <1>1, <1>4, <1>5, <1>6, <1>7 DEF HealthInv, HealthTyped
<1>9. RoundsInv'
    BY <1>1, <1>2, <1>4, HealthBounds DEF RoundsInv, Probed
<1>10. SteadyInv'
    <2> SUFFICES ASSUME NEW n \in HealthNode
                 PROVE  /\ steady'[n] >= 1 => process[n] /\ fs[n]
                        /\ steady'[n] >= 2 => age'[n] <= 1
                        /\ steady'[n] >= 3 => status[n] # "offline"
        BY <1>1, <1>4 DEF SteadyInv, Probed, Written
    <2>1. steady'[n] >= 1 => process[n] /\ fs[n]
        BY <1>2
    <2>2. \A i \in {2, 3} : steady'[n] >= i => steady[n] >= i - 1
        BY <1>2, <1>3, HealthBounds
    <2>3. process[n] => Written(job[n])
        BY <1>1 DEF Written, Health!Waiting
    <2>4. steady'[n] >= 2 => steady[n] >= 1
        BY <2>2
    <2>5. steady'[n] >= 2 => age[n] = 0
        BY <2>3, <2>4 DEF HealthInv, SteadyInv
    <2>6. steady'[n] >= 2 => age'[n] = 1
        BY <1>2, <1>3, <2>5, HealthBounds
    <2>7. steady'[n] >= 3 => steady[n] >= 2
        BY <2>2
    <2>8. steady[n] >= 2 => steady[n] >= 1
        BY <1>3
    <2>9. steady'[n] >= 3 => status[n] # "offline"
        BY <2>3, <2>7, <2>8 DEF HealthInv, SteadyInv
    <2> QED
        BY <2>1, <2>6, <2>9
<1>11. SilentInv'
    <2> SUFFICES ASSUME NEW n \in HealthNode, NEW m \in HealthNode, n # m,
                        age'[n] >= STALE + 2, running'[m] >= 2
                 PROVE  status[n] = "offline"
        BY <1>1, <1>4 DEF SilentInv
    <2>1. age[n] >= STALE + 1
        BY <1>2, <1>3, HealthBounds
    <2>2. running[m] >= 1
        BY <1>2, <1>3, HealthBounds
    <2>3. job[m].pc = "wait"
        BY <1>1, <2>2 DEF HealthInv, RoundsInv, Health!Waiting
    <2> QED
        BY <2>1, <2>2, <2>3 DEF HealthInv, SilentInv
<1> QED
    BY <1>8, <1>9, <1>10, <1>11 DEF HealthInv

LEMMA HealthProbe ==
    ASSUME HealthInv, NEW n \in HealthNode, Health!Probe(n)
    PROVE  HealthInv'
<1>1. UNCHANGED <<process, fs, status, count, age, told, steady, running>> /\ job[n].pc = "probe"
    BY DEF Health!Probe
<1>2. PICK j \in HealthJob :
        /\ job' = [job EXCEPT ![n] = j] /\ Probed(j) /\ j.ok = fs[n] /\ j.was = status[n]
        /\ fs[n] => j.now # "offline"
        /\ ~fs[n] => j.now \in {j.was, "offline"}
    <2>1. PICK over \in BOOLEAN :
            LET fails == IF fs[n] THEN 0 ELSE Health!Older(count[n])
                now == CASE fs[n] /\ over -> "overload"
                         [] fs[n] /\ ~over -> "online"
                         [] ~fs[n] /\ fails >= FAIL_THRESHOLD -> "offline"
                         [] OTHER -> status[n]
            IN  job' = [job EXCEPT ![n] =
                    [pc |-> IF now # status[n] \/ now = "overload" THEN "alert" ELSE "commit",
                     ok |-> fs[n], was |-> status[n], now |-> now, count |-> fails]]
        BY DEF Health!Probe
    <2> DEFINE fails == IF fs[n] THEN 0 ELSE Health!Older(count[n])
    <2> DEFINE now == CASE fs[n] /\ over -> "overload"
                        [] fs[n] /\ ~over -> "online"
                        [] ~fs[n] /\ fails >= FAIL_THRESHOLD -> "offline"
                        [] OTHER -> status[n]
    <2>2. fails \in 0 .. MaxAge
        BY HealthBounds DEF HealthInv, HealthTyped
    <2>3. fs[n] \in BOOLEAN /\ status[n] \in Status
        BY DEF HealthInv, HealthTyped
    <2>4. now \in Status /\ (fs[n] => now # "offline") /\ (~fs[n] => now \in {status[n], "offline"})
        BY <2>3 DEF Status
    <2> DEFINE j == [pc |-> IF now # status[n] \/ now = "overload" THEN "alert" ELSE "commit",
                     ok |-> fs[n], was |-> status[n], now |-> now, count |-> fails]
    <2>5. job' = [job EXCEPT ![n] = j]
        BY <2>1
    <2> HIDE DEF now, fails
    <2>6. j \in HealthJob
        BY <2>2, <2>3, <2>4 DEF HealthJob
    <2>7. Probed(j) /\ j.ok = fs[n] /\ j.was = status[n] /\ j.now = now
        BY DEF Probed
    <2> HIDE DEF j
    <2> QED
        BY <2>4, <2>5, <2>6, <2>7
<1>3. job' \in [HealthNode -> HealthJob] /\ job'[n] = j /\ \A m \in HealthNode \ {n} : job'[m] = job[m]
    BY <1>2 DEF HealthInv, HealthTyped
<1>4. HealthTyped'
    BY <1>1, <1>3 DEF HealthInv, HealthTyped
<1>5. j.pc \in {"alert", "commit"} /\ ~Written(j)
    BY <1>2 DEF Probed, Written
<1>6. RoundsInv'
    BY <1>1, <1>2, <1>3 DEF HealthInv, RoundsInv
<1>7. SteadyInv'
    <2>1. steady[n] \in Nat
        BY HealthBounds DEF HealthInv, HealthTyped
    <2>2. steady[n] >= 1 => fs[n]
        BY DEF HealthInv, SteadyInv
    <2>3. steady[n] >= 1 => j.ok
        BY <1>2, <2>2
    <2>4. steady[n] >= 2 => j.now # "offline" /\ j.was = status[n]
        BY <1>2, <2>1, <2>2
    <2>5. j.pc # "turn"
        BY <1>5
    <2> QED
        BY <1>1, <1>3, <1>5, <2>3, <2>4, <2>5 DEF HealthInv, SteadyInv
<1>8. SilentInv'
    BY <1>1, <1>3, <1>5 DEF HealthInv, SilentInv
<1> QED
    BY <1>4, <1>6, <1>7, <1>8 DEF HealthInv

LEMMA HealthAlert ==
    ASSUME HealthInv, NEW n \in HealthNode, Health!Alert(n)
    PROVE  HealthInv'
<1>1. UNCHANGED <<process, fs, status, count, age, steady, running>> /\ job[n].pc = "alert"
      /\ told' = [told EXCEPT ![n] = job[n].now] /\ job' = [job EXCEPT ![n].pc = "commit"]
    BY DEF Health!Alert
<1> DEFINE j == [job[n] EXCEPT !.pc = "commit"]
<1>2. job[n] \in [pc : {"alert", "commit"}, ok : BOOLEAN, was : Status, now : Status, count : 0 .. MaxAge]
    BY <1>1 DEF HealthInv, HealthTyped, HealthJob
<1>3. j \in HealthJob /\ j.pc = "commit" /\ j.ok = job[n].ok /\ j.was = job[n].was /\ j.now = job[n].now
    BY <1>2 DEF HealthJob
<1>4. job' = [job EXCEPT ![n] = j]
    BY <1>1
<1> HIDE DEF j
<1>5. job' \in [HealthNode -> HealthJob] /\ job'[n] = j /\ \A m \in HealthNode \ {n} : job'[m] = job[m]
    BY <1>3, <1>4 DEF HealthInv, HealthTyped
<1>6. told' \in [HealthNode -> Status \cup {"none"}]
    BY <1>1, <1>2 DEF HealthInv, HealthTyped
<1>7. HealthTyped'
    BY <1>1, <1>5, <1>6 DEF HealthInv, HealthTyped
<1>8. Probed(j) /\ Probed(job[n]) /\ ~Written(j)
    BY <1>1, <1>3 DEF Probed, Written
<1>9. RoundsInv'
    BY <1>1, <1>3, <1>5, <1>8 DEF HealthInv, RoundsInv
<1>10. SteadyInv'
    BY <1>1, <1>3, <1>5, <1>8 DEF HealthInv, SteadyInv
<1>11. SilentInv'
    BY <1>1, <1>3, <1>5 DEF HealthInv, SilentInv
<1> QED
    BY <1>7, <1>9, <1>10, <1>11 DEF HealthInv

\* A row leaves offline only with a heartbeat.
LEMMA HealthCommit ==
    ASSUME HealthInv, NEW n \in HealthNode, Health!Commit(n)
    PROVE  HealthInv'
<1> DEFINE j == job[n]
<1>1. UNCHANGED <<process, fs, told, steady, running>> /\ j.pc = "commit"
      /\ status' = (IF j.now = j.was THEN status ELSE [status EXCEPT ![n] = j.now])
      /\ count' = [count EXCEPT ![n] = j.count]
      /\ age' = (IF j.ok THEN [age EXCEPT ![n] = 0] ELSE age)
      /\ job' = [job EXCEPT ![n] = [pc |-> "sweep"]]
    BY DEF Health!Commit
<1>2. j \in [pc : {"alert", "commit"}, ok : BOOLEAN, was : Status, now : Status, count : 0 .. MaxAge]
    BY <1>1 DEF HealthInv, HealthTyped, HealthJob
<1>3. status' \in [HealthNode -> Status] /\ status'[n] = (IF j.now = j.was THEN status[n] ELSE j.now)
      /\ \A m \in HealthNode \ {n} : status'[m] = status[m]
    BY <1>1, <1>2 DEF HealthInv, HealthTyped
<1>4. age' \in [HealthNode -> 0 .. MaxAge] /\ age'[n] = (IF j.ok THEN 0 ELSE age[n])
      /\ \A m \in HealthNode \ {n} : age'[m] = age[m]
    BY <1>1, HealthBounds DEF HealthInv, HealthTyped
<1>5. count' \in [HealthNode -> 0 .. MaxAge]
    BY <1>1, <1>2 DEF HealthInv, HealthTyped
<1>6. job' \in [HealthNode -> HealthJob] /\ job'[n].pc = "sweep" /\ \A m \in HealthNode \ {n} : job'[m] = job[m]
    BY <1>1 DEF HealthInv, HealthTyped, HealthJob
<1>7. HealthTyped'
    BY <1>1, <1>3, <1>4, <1>5, <1>6 DEF HealthInv, HealthTyped
<1>8. Probed(j) /\ ~Probed(job'[n])
    BY <1>1, <1>6 DEF Probed
<1>9. RoundsInv'
    BY <1>1, <1>6, <1>8 DEF HealthInv, RoundsInv
<1>10. steady[n] \in Nat /\ (steady[n] >= 2 => steady[n] >= 1) /\ (steady[n] >= 3 => steady[n] >= 2)
    BY HealthBounds DEF HealthInv, HealthTyped
<1>11. SteadyInv'
    <2>1. steady[n] >= 1 => j.ok /\ age'[n] = 0
        BY <1>4, <1>8 DEF HealthInv, SteadyInv
    <2>2. steady[n] >= 2 => status'[n] # "offline"
        BY <1>3, <1>8 DEF HealthInv, SteadyInv
    <2> QED
        BY <1>1, <1>3, <1>4, <1>6, <1>8, <1>10, <2>1, <2>2 DEF HealthInv, SteadyInv
<1>12. SilentInv'
    <2>1. age'[n] >= STALE + 1 => ~j.ok /\ age'[n] = age[n]
        BY <1>4, HealthBounds
    <2>2. age'[n] >= STALE + 1 /\ status[n] = "offline" => status'[n] = "offline"
        BY <1>3, <1>8, <2>1 DEF HealthInv, RoundsInv
    <2> QED
        BY <1>1, <1>3, <1>4, <1>6, <2>1, <2>2 DEF HealthInv, SilentInv
<1> QED
    BY <1>7, <1>9, <1>11, <1>12 DEF HealthInv

LEMMA HealthSweepRead ==
    ASSUME HealthInv, NEW n \in HealthNode, Health!SweepRead(n)
    PROVE  HealthInv'
<1>1. PICK s \in SUBSET HealthNode :
        Health!Swept(n, s) /\ job' = [job EXCEPT ![n] = IF s = {} THEN Health!Waiting ELSE [pc |-> "turn", rows |-> s]]
    BY DEF Health!SweepRead
<1>2. UNCHANGED <<process, fs, status, count, age, told, steady, running>> /\ job[n].pc = "sweep"
    BY DEF Health!SweepRead
<1> DEFINE j == IF s = {} THEN Health!Waiting ELSE [pc |-> "turn", rows |-> s]
<1>3. j \in HealthJob /\ (s = {} => j.pc = "wait") /\ (s # {} => j.pc = "turn" /\ j.rows = s)
    BY DEF HealthJob, Health!Waiting
<1>4. job' = [job EXCEPT ![n] = j]
    BY <1>1
<1> HIDE DEF j
<1>5. job' \in [HealthNode -> HealthJob] /\ job'[n] = j /\ \A m \in HealthNode \ {n} : job'[m] = job[m]
    BY <1>3, <1>4 DEF HealthInv, HealthTyped
<1>6. HealthTyped'
    BY <1>2, <1>5 DEF HealthInv, HealthTyped
<1>7. Written(job[n]) /\ Written(j) /\ ~Probed(j)
    BY <1>2, <1>3 DEF Written, Probed
<1>8. \A m \in s : age[m] >= STALE
    BY <1>1 DEF Health!Swept, Health!MayBeStale
<1>9. \A m \in HealthNode \ {n} : age[m] > STALE => m \in s \/ status[m] = "offline"
    BY <1>1 DEF Health!Swept, Health!IsStale
<1>10. RoundsInv'
    BY <1>2, <1>5, <1>7 DEF HealthInv, RoundsInv
<1>11. SteadyInv'
    <2>1. \A m \in HealthNode : steady[m] >= 2 => m \notin s
        BY <1>8, HealthBounds DEF HealthInv, SteadyInv, HealthTyped
    <2> QED
        BY <1>2, <1>3, <1>5, <1>7, <2>1 DEF HealthInv, SteadyInv
<1>12. SilentInv'
    <2>1. \A m \in HealthNode \ {n} : age[m] >= STALE + 1 => m \in s \/ status[m] = "offline"
        BY <1>9, HealthBounds DEF HealthInv, HealthTyped
    <2> QED
        BY <1>2, <1>3, <1>5, <2>1 DEF HealthInv, SilentInv
<1> QED
    BY <1>6, <1>10, <1>11, <1>12 DEF HealthInv

LEMMA HealthSweepCommit ==
    ASSUME HealthInv, NEW n \in HealthNode, Health!SweepCommit(n)
    PROVE  HealthInv'
<1>1. UNCHANGED <<process, fs, count, age, told, steady, running>> /\ job[n].pc = "turn"
      /\ status' = [m \in HealthNode |-> IF m \in job[n].rows THEN "offline" ELSE status[m]]
      /\ job' = [job EXCEPT ![n].pc = "tell"]
    BY DEF Health!SweepCommit
<1> DEFINE j == [job[n] EXCEPT !.pc = "tell"]
<1>2. job[n] \in [pc : {"turn", "tell"}, rows : SUBSET HealthNode]
    BY <1>1 DEF HealthInv, HealthTyped, HealthJob
<1>3. j \in HealthJob /\ j.pc = "tell"
    BY <1>2 DEF HealthJob
<1>4. job' = [job EXCEPT ![n] = j]
    BY <1>1
<1> HIDE DEF j
<1>5. job' \in [HealthNode -> HealthJob] /\ job'[n] = j /\ \A m \in HealthNode \ {n} : job'[m] = job[m]
    BY <1>3, <1>4 DEF HealthInv, HealthTyped
<1>6. status' \in [HealthNode -> Status]
    BY <1>1 DEF HealthInv, HealthTyped, Status
<1>7. HealthTyped'
    BY <1>1, <1>5, <1>6 DEF HealthInv, HealthTyped
<1>8. Written(job[n]) /\ Written(j) /\ ~Probed(j)
    BY <1>1, <1>3 DEF Written, Probed
<1>9. RoundsInv'
    BY <1>1, <1>5, <1>8 DEF HealthInv, RoundsInv
<1>10. SteadyInv'
    <2>1. \A m \in HealthNode : steady[m] >= 2 => status'[m] = status[m]
        BY <1>1 DEF HealthInv, SteadyInv
    <2>2. \A m \in HealthNode : steady[m] >= 3 => steady[m] >= 2
        BY HealthBounds DEF HealthInv, HealthTyped
    <2> QED
        BY <1>1, <1>3, <1>5, <1>8, <2>1, <2>2 DEF HealthInv, SteadyInv
<1>11. SilentInv'
    <2>1. \A m \in HealthNode : status[m] = "offline" \/ m \in job[n].rows => status'[m] = "offline"
        BY <1>1
    <2> QED
        BY <1>1, <1>3, <1>5, <2>1 DEF HealthInv, SilentInv
<1> QED
    BY <1>7, <1>9, <1>10, <1>11 DEF HealthInv

LEMMA HealthSweepAlert ==
    ASSUME HealthInv, NEW n \in HealthNode, Health!SweepAlert(n)
    PROVE  HealthInv'
<1>1. PICK k \in job[n].rows :
        /\ told' = [told EXCEPT ![k] = "offline"]
        /\ job' = [job EXCEPT ![n] = IF job[n].rows = {k} THEN Health!Waiting ELSE [job[n] EXCEPT !.rows = @ \ {k}]]
    BY DEF Health!SweepAlert
<1>2. UNCHANGED <<process, fs, status, count, age, steady, running>> /\ job[n].pc = "tell"
    BY DEF Health!SweepAlert
<1>3. job[n] \in [pc : {"turn", "tell"}, rows : SUBSET HealthNode]
    BY <1>2 DEF HealthInv, HealthTyped, HealthJob
<1> DEFINE j == IF job[n].rows = {k} THEN Health!Waiting ELSE [job[n] EXCEPT !.rows = @ \ {k}]
<1>4. j \in HealthJob /\ j.pc \in {"tell", "wait"}
    BY <1>2, <1>3 DEF HealthJob, Health!Waiting
<1>5. job' = [job EXCEPT ![n] = j]
    BY <1>1
<1> HIDE DEF j
<1>6. job' \in [HealthNode -> HealthJob] /\ job'[n] = j /\ \A m \in HealthNode \ {n} : job'[m] = job[m]
    BY <1>4, <1>5 DEF HealthInv, HealthTyped
<1>7. told' \in [HealthNode -> Status \cup {"none"}]
    BY <1>1 DEF HealthInv, HealthTyped, Status
<1>8. HealthTyped'
    BY <1>2, <1>6, <1>7 DEF HealthInv, HealthTyped
<1>9. Written(job[n]) /\ Written(j) /\ ~Probed(j)
    BY <1>2, <1>4 DEF Written, Probed
<1> QED
    BY <1>2, <1>4, <1>6, <1>8, <1>9 DEF HealthInv, RoundsInv, SteadyInv, SilentInv

LEMMA HealthFlips ==
    ASSUME HealthInv, NEW n \in HealthNode, Health!FsFlips(n) \/ Health!ProcessFlips(n)
    PROVE  HealthInv'
<1>1. UNCHANGED <<status, count, age, told>> /\ steady' = [steady EXCEPT ![n] = 0]
    BY DEF Health!FsFlips, Health!ProcessFlips
<1>2. steady' \in [HealthNode -> 0 .. MaxAge] /\ steady'[n] = 0 /\ \A m \in HealthNode \ {n} : steady'[m] = steady[m]
    BY <1>1, HealthBounds DEF HealthInv, HealthTyped
<1>3. CASE Health!FsFlips(n)
    <2>1. UNCHANGED <<process, job, running>> /\ fs' = [fs EXCEPT ![n] = ~@]
        BY <1>3 DEF Health!FsFlips
    <2>2. fs' \in [HealthNode -> BOOLEAN] /\ \A m \in HealthNode \ {n} : fs'[m] = fs[m]
        BY <2>1 DEF HealthInv, HealthTyped
    <2> QED
        BY <1>1, <1>2, <2>1, <2>2 DEF HealthInv, HealthTyped, RoundsInv, SteadyInv, SilentInv
<1>4. CASE Health!ProcessFlips(n)
    <2>1. UNCHANGED fs /\ process' = [process EXCEPT ![n] = ~@] /\ job' = [job EXCEPT ![n] = Health!Ready]
          /\ running' = [running EXCEPT ![n] = 0]
        BY <1>4 DEF Health!ProcessFlips
    <2>2. process' \in [HealthNode -> BOOLEAN] /\ \A m \in HealthNode \ {n} : process'[m] = process[m]
        BY <2>1 DEF HealthInv, HealthTyped
    <2>3. running' \in [HealthNode -> 0 .. MaxAge] /\ running'[n] = 0
          /\ \A m \in HealthNode \ {n} : running'[m] = running[m]
        BY <2>1, HealthBounds DEF HealthInv, HealthTyped
    <2>4. job' \in [HealthNode -> HealthJob] /\ job'[n].pc = "probe" /\ \A m \in HealthNode \ {n} : job'[m] = job[m]
        BY <2>1 DEF HealthInv, HealthTyped, HealthJob, Health!Ready
    <2>5. HealthTyped'
        BY <1>1, <1>2, <2>1, <2>2, <2>3, <2>4 DEF HealthInv, HealthTyped
    <2>6. ~Probed(job'[n]) /\ ~Written(job'[n])
        BY <2>4 DEF Probed, Written
    <2>7. RoundsInv'
        BY <2>2, <2>3, <2>4, <2>6 DEF HealthInv, RoundsInv
    <2>8. SteadyInv'
        BY <1>1, <1>2, <2>1, <2>2, <2>4 DEF HealthInv, SteadyInv
    <2>9. SilentInv'
        BY <1>1, <2>3, <2>4 DEF HealthInv, SilentInv
    <2> QED
        BY <2>5, <2>7, <2>8, <2>9 DEF HealthInv
<1> QED
    BY <1>3, <1>4

\* A steady node is shown online and a silent one offline, for any number of nodes that sweep
\* each other and any thresholds.
THEOREM SteadyNodeAlwaysOnline == Spec => []SteadyNodeIsOnline
<1>1. Init => HealthInv
    BY HealthInit DEF Init
<1>2. HealthInv /\ [Next]_vars => HealthInv'
    <2> SUFFICES ASSUME HealthInv, [Next]_vars PROVE HealthInv'
        OBVIOUS
    <2>1. CASE Health!Next
        BY <2>1, HealthTick, HealthProbe, HealthAlert, HealthCommit, HealthSweepRead, HealthSweepCommit,
           HealthSweepAlert, HealthFlips DEF Health!Next
    <2>2. CASE UNCHANGED healthVars
        BY <2>2 DEF healthVars, HealthInv, HealthTyped, RoundsInv, SteadyInv, SilentInv
    <2> QED
        BY <2>1, <2>2 DEF Next, vars
<1>3. HealthInv => SteadyNodeIsOnline
    <2> SUFFICES ASSUME HealthInv
                 PROVE  Health!TypeOK /\ Health!SteadyNodeIsOnline /\ Health!SilentNodeIsOffline
        BY DEF SteadyNodeIsOnline
    <2>1. Health!TypeOK
        BY DEF HealthInv, HealthTyped, Status, Health!TypeOK
    <2>2. Health!SteadyNodeIsOnline
        BY DEF HealthInv, SteadyInv, Health!SteadyNodeIsOnline
    <2>3. \A n \in HealthNode : age[n] >= STALE + 2 => age[n] >= STALE + 1
        BY HealthBounds DEF HealthInv, HealthTyped
    <2>4. Health!SilentNodeIsOffline
        BY <2>3 DEF HealthInv, SilentInv, Health!SilentNodeIsOffline
    <2> QED
        BY <2>1, <2>2, <2>4
<1> QED
    BY <1>1, <1>2, <1>3, PTL DEF Spec
-----------------------------------------------------------------------------
(* Heartbeat of a gateway. *)

Beats == {0, 1}

BeatJob ==
    [pc : {"idle"}] \cup [pc : {"probe"}, status : Beats, count : 0 .. MaxCount]
        \cup [pc : {"found"}, status : Beats, count : 0 .. MaxCount, answered : BOOLEAN]

\* What the prober has read is the row; the row counts the failed probes, but for the one
\* that has been made and is not written.
BeatInv ==
    /\ alive \in BOOLEAN /\ gwStatus \in Beats /\ failCount \in 0 .. MaxCount
    /\ failures \in 0 .. MaxCount /\ alerted \in {"none", "up", "down"}
    /\ prober \in [{Prober} -> BeatJob]
    /\ LET p == prober[Prober]
       IN  /\ p.pc # "idle" => p.status = gwStatus /\ p.count = failCount
           /\ p.pc # "found" => failures = failCount
           /\ p.pc = "found" => failures = IF p.answered THEN 0 ELSE Beat!Counted(failCount)
    /\ gwStatus = 0 <=> alerted = "down"

LEMMA BeatBounds ==
    /\ FAIL_THRESHOLD \in Nat /\ MaxCount \in Nat
    /\ \A k \in 0 .. MaxCount : Beat!Counted(k) \in 0 .. MaxCount /\ Beat!Counted(k) > 0
<1>1. FAIL_THRESHOLD \in Nat /\ FAIL_THRESHOLD >= 1 /\ MaxCount \in Nat /\ MaxCount > FAIL_THRESHOLD
    BY BeatAssumption DEF Beat!GatewayHeartbeatConstants
<1> QED
    BY <1>1 DEF Beat!Counted

LEMMA BeatRead ==
    ASSUME BeatInv, NEW n \in {Prober}, Beat!Read(n)
    PROVE  BeatInv' /\ gwStatus' = gwStatus
<1> DEFINE p == [pc |-> "probe", status |-> gwStatus, count |-> failCount]
<1>1. prober' = [prober EXCEPT ![Prober] = p] /\ prober[Prober].pc = "idle"
      /\ UNCHANGED <<alive, gwStatus, failCount, alerted, failures>>
    BY DEF Beat!Read
<1>2. p \in BeatJob /\ p.pc = "probe" /\ p.status = gwStatus /\ p.count = failCount
    BY DEF BeatInv, BeatJob
<1> HIDE DEF p
<1>3. prober' \in [{Prober} -> BeatJob] /\ prober'[Prober] = p
    BY <1>1, <1>2 DEF BeatInv
<1> QED
    BY <1>1, <1>2, <1>3 DEF BeatInv

LEMMA BeatProbe ==
    ASSUME BeatInv, NEW n \in {Prober}, Beat!Probe(n)
    PROVE  BeatInv' /\ gwStatus' = gwStatus
<1> DEFINE p == [pc |-> "found", status |-> prober[Prober].status, count |-> prober[Prober].count, answered |-> alive]
<1>1. prober' = [prober EXCEPT ![Prober] = p] /\ prober[Prober].pc = "probe"
      /\ UNCHANGED <<alive, gwStatus, failCount, alerted>>
      /\ failures' = IF alive THEN 0 ELSE Beat!Counted(failures)
    BY DEF Beat!Probe
<1>2. prober[Prober].status = gwStatus /\ prober[Prober].count = failCount /\ failures = failCount
    BY <1>1 DEF BeatInv
<1>3. p \in BeatJob /\ p.pc = "found" /\ p.status = gwStatus /\ p.count = failCount /\ p.answered = alive
    BY <1>2 DEF BeatInv, BeatJob
<1> HIDE DEF p
<1>4. prober' \in [{Prober} -> BeatJob] /\ prober'[Prober] = p
    BY <1>1, <1>3 DEF BeatInv
<1>5. failures' \in 0 .. MaxCount
    BY <1>1, BeatBounds DEF BeatInv
<1>6. failures' = IF p.answered THEN 0 ELSE Beat!Counted(failCount)
    BY <1>1, <1>2, <1>3
<1> QED
    BY <1>1, <1>3, <1>4, <1>5, <1>6 DEF BeatInv

\* The row goes down with the failure that has been counted, and the alert with the row.
LEMMA BeatCommit ==
    ASSUME BeatInv, NEW n \in {Prober}, Beat!Commit(n)
    PROVE  BeatInv' /\ (gwStatus = 1 /\ gwStatus' = 0 => failures >= FAIL_THRESHOLD)
<1> DEFINE was == prober[Prober]
<1> DEFINE now == IF was.answered THEN Beat!AfterAnswer(was) ELSE Beat!AfterSilence(was)
<1>1. was.pc = "found" /\ prober' = [prober EXCEPT ![Prober] = Beat!Idle] /\ UNCHANGED <<alive, failures>>
      /\ Beat!Write(was, now) /\ Beat!Alert(was, now)
    BY DEF Beat!Commit
<1>2. was.status = gwStatus /\ was.count = failCount /\ was.answered \in BOOLEAN
    BY <1>1 DEF BeatInv, BeatJob
<1>3. failures = IF was.answered THEN 0 ELSE Beat!Counted(failCount)
    BY <1>1 DEF BeatInv
<1>4. now.count = failures
    BY <1>2, <1>3 DEF Beat!AfterAnswer, Beat!AfterSilence
<1>5. now.status = IF was.answered THEN 1 ELSE IF failures >= FAIL_THRESHOLD THEN 0 ELSE gwStatus
    BY <1>2, <1>3 DEF Beat!AfterAnswer, Beat!AfterSilence, Beat!Up, Beat!Down
<1>6. was.answered => failures = 0
    BY <1>3
<1>7. ~was.answered => failures > 0
    BY <1>2, <1>3, BeatBounds DEF BeatInv
<1> HIDE DEF now, was
<1>8. gwStatus' = now.status /\ failCount' = failures
    BY <1>1, <1>2, <1>4 DEF Beat!Write
<1>9. alerted' = IF now.status = 0 /\ gwStatus # 0 THEN "down"
                 ELSE IF now.status = 1 /\ failures = 0 /\ (gwStatus # 1 \/ failCount # 0) THEN "up" ELSE alerted
    BY <1>1, <1>2, <1>4 DEF Beat!Alert, Beat!Up, Beat!Down
<1>10. prober' \in [{Prober} -> BeatJob] /\ prober'[Prober].pc = "idle"
    BY <1>1 DEF BeatInv, BeatJob, Beat!Idle
<1>11. gwStatus' \in Beats /\ alerted' \in {"none", "up", "down"} /\ (gwStatus' = 0 <=> alerted' = "down")
    BY <1>2, <1>5, <1>6, <1>7, <1>8, <1>9 DEF BeatInv, Beats
<1>12. gwStatus = 1 /\ gwStatus' = 0 => failures >= FAIL_THRESHOLD
    BY <1>5, <1>8
<1> QED
    BY <1>1, <1>8, <1>10, <1>11, <1>12 DEF BeatInv

\* A gateway goes down only after as many probes that failed in a row, and between two rounds
\* the latest alert tells its status, for any threshold.
THEOREM DownOnlyEverAfterFailures == Spec => DownOnlyAfterFailures
<1>1. Init => BeatInv
    BY BeatBounds DEF Init, Beat!Init, BeatInv, BeatJob, Beats, Beat!Idle, Beat!Up
<1>2. BeatInv /\ [Next]_vars => BeatInv' /\ [gwStatus = 1 /\ gwStatus' = 0 => failures >= FAIL_THRESHOLD]_beatVars
    <2> SUFFICES ASSUME BeatInv, [Next]_vars
                 PROVE  BeatInv' /\ (gwStatus = 1 /\ gwStatus' = 0 => failures >= FAIL_THRESHOLD)
        OBVIOUS
    <2>1. CASE Beat!Flip
        BY <2>1 DEF Beat!Flip, BeatInv
    <2>2. CASE \E n \in {Prober} : Beat!Read(n) \/ Beat!Probe(n) \/ Beat!Commit(n)
        BY <2>2, BeatRead, BeatProbe, BeatCommit DEF BeatInv, Beats
    <2>3. CASE UNCHANGED beatVars
        BY <2>3 DEF beatVars, BeatInv
    <2> QED
        BY <2>1, <2>2, <2>3 DEF Next, vars, Beat!Next
<1>3. BeatInv => (scenario = "beat" => Beat!AlertTellsStatus)
    BY DEF BeatInv, Beats, Beat!AlertTellsStatus, Beat!Up, Beat!Down
<1>4. [gwStatus = 1 /\ gwStatus' = 0 => failures >= FAIL_THRESHOLD]_beatVars
        <=> [gwStatus = Beat!Up /\ gwStatus' = Beat!Down => failures >= FAIL_THRESHOLD]_Beat!vars
    BY DEF Beat!Up, Beat!Down, Beat!vars, beatVars
<1> QED
    BY <1>1, <1>2, <1>3, <1>4, PTL DEF Spec, DownOnlyAfterFailures, Beat!DownOnlyAfterFailures
-----------------------------------------------------------------------------
(* Registration state of the gateways. *)

GwStates == FsState \cup {"NOREG", "DOWN"}
GwEvent == [gw : Gateway, state : GwStates]
GwWrite == [gw : Gateway, st : 0 .. 3]
Shown(g) == Align!STATE_MAP[gwFs[g]]

AlignTyped ==
    /\ gwFs \in [Gateway -> FsState \cup {"NOREG"}]
    /\ held \in [Gateway -> {0, 1}] /\ auth \in [Gateway -> {0, 1}] /\ stale \in SUBSET Gateway
    /\ row \in [Gateway -> 0 .. 3] /\ events \in Seq(GwEvent)
    /\ apply \in [{"worker", "start"} -> {Align!None} \cup GwWrite]
    /\ start \in {Align!Over} \cup [pc : {"wait"}, left : 1 .. Attempts]
        \cup [pc : {"apply"}, seen : [Gateway -> FsState \cup {"NOREG"}], todo : SUBSET Gateway]
    /\ quiet \in SUBSET Gateway

\* While the alignment is at work nothing else writes a quiet gateway, which is as it was
\* seen; once its turn has come its row is right or about to be.
QuietInv ==
    /\ start.pc # "apply" => apply["start"] = Align!None
    /\ start.pc = "apply" => \A g \in quiet :
        /\ g \notin stale /\ start.seen[g] = gwFs[g]
        /\ \A i \in 1 .. Len(events) : events[i].gw # g
        /\ apply["worker"] = Align!None \/ apply["worker"].gw # g
        /\ apply["start"] # Align!None /\ apply["start"].gw = g => apply["start"].st = Shown(g)
        /\ g \notin start.todo /\ auth[g] = 1 /\ gwFs[g] \in DOMAIN Align!STATE_MAP =>
            row[g] = Shown(g) \/ (apply["start"] # Align!None /\ apply["start"].gw = g)

AlignInv == AlignTyped /\ QuietInv

LEMMA StateMap == \A s \in DOMAIN Align!STATE_MAP : Align!STATE_MAP[s] \in 0 .. 3
BY DEF Align!STATE_MAP

LEMMA ToWriteIs ==
    ASSUME AlignTyped, NEW g \in Gateway, NEW s
    PROVE  /\ Align!ToWrite(g, s) \in {Align!None} \cup GwWrite
           /\ Align!ToWrite(g, s) # Align!None => /\ Align!ToWrite(g, s).gw = g
                                                  /\ Align!ToWrite(g, s).st = Align!STATE_MAP[s]
           /\ Align!ToWrite(g, s) = Align!None /\ auth[g] = 1 /\ s \in DOMAIN Align!STATE_MAP =>
                row[g] = Align!STATE_MAP[s]
<1>1. CASE s \in DOMAIN Align!STATE_MAP
    <2>1. Align!map_state(s) = Align!STATE_MAP[s] /\ Align!map_state(s) \in 0 .. 3
        BY <1>1, StateMap DEF Align!map_state
    <2>2. Align!map_state(s) # -1
        BY <2>1
    <2>3. [gw |-> g, st |-> Align!map_state(s)] # Align!None
        BY <2>2 DEF Align!None
    <2> QED
        BY <2>1, <2>2, <2>3 DEF Align!ToWrite, GwWrite
<1>2. CASE s \notin DOMAIN Align!STATE_MAP
    BY <1>2 DEF Align!ToWrite, Align!map_state
<1> QED
    BY <1>1, <1>2

LEMMA AlignInit == Align!Init => AlignInv
<1> SUFFICES ASSUME Align!Init PROVE AlignInv
    OBVIOUS
<1>1. Attempts \in Nat \ {0}
    BY AlignAssumption DEF Align!GatewayStateConstants
<1>2. \A s : Align!map_state(s) = -1 \/ Align!map_state(s) \in 0 .. 3
    BY StateMap DEF Align!map_state
<1>3. start = Align!Begun /\ row = [g \in Gateway |-> 0]
    BY DEF Align!Init
<1>4. events \in Seq(GwEvent)
    BY DEF Align!Init
<1>5. apply \in [{"worker", "start"} -> {Align!None} \cup GwWrite] /\ apply["start"] = Align!None
    BY DEF Align!Init, Align!Writer
<1>6. AlignTyped
    BY <1>1, <1>3, <1>4, <1>5 DEF AlignTyped, Align!Init, Align!Begun
<1>7. start.pc # "apply"
    BY <1>3 DEF Align!Begun
<1> QED
    BY <1>5, <1>6, <1>7 DEF AlignInv, QuietInv

\* An event of a gateway that is not quiet, or no longer, disturbs no quiet one.
LEMMA EventAdded ==
    ASSUME AlignTyped, NEW e \in GwEvent, events' = Append(events, e) \/ UNCHANGED events
    PROVE  /\ events' \in Seq(GwEvent)
           /\ \A h : h # e.gw /\ (\A i \in 1 .. Len(events) : events[i].gw # h)
                => \A i \in 1 .. Len(events') : events'[i].gw # h
<1>1. events \in Seq(GwEvent)
    BY DEF AlignTyped
<1>2. CASE events' = Append(events, e)
    <2>1. events' \in Seq(GwEvent) /\ Len(events') = Len(events) + 1
        BY <1>1, <1>2
    <2>2. \A i \in 1 .. Len(events') : events'[i] = e \/ (i \in 1 .. Len(events) /\ events'[i] = events[i])
        BY <1>1, <1>2
    <2> QED
        BY <2>1, <2>2
<1>3. CASE UNCHANGED events
    BY <1>1, <1>3
<1> QED
    BY <1>2, <1>3

LEMMA AlignFsMoves ==
    ASSUME AlignInv, NEW g \in Gateway, NEW s \in FsState, Align!FsMoves(g, s)
    PROVE  AlignInv'
<1> DEFINE e == [gw |-> g, state |-> s]
<1>1. events' = Append(events, e) /\ quiet' = quiet \ {g} /\ gwFs' = [gwFs EXCEPT ![g] = s]
      /\ UNCHANGED <<held, stale, auth, row, apply, start>>
    BY DEF Align!FsMoves
<1>2. e \in GwEvent /\ e.gw = g
    BY DEF GwEvent, GwStates
<1> HIDE DEF e
<1>3. /\ events' \in Seq(GwEvent)
      /\ \A h : h # e.gw /\ (\A i \in 1 .. Len(events) : events[i].gw # h)
           => \A i \in 1 .. Len(events') : events'[i].gw # h
    BY <1>1, <1>2, EventAdded DEF AlignInv
<1>4. gwFs' \in [Gateway -> FsState \cup {"NOREG"}] /\ \A h \in Gateway \ {g} : gwFs'[h] = gwFs[h]
    BY <1>1 DEF AlignInv, AlignTyped
<1>5. AlignTyped'
    BY <1>1, <1>3, <1>4 DEF AlignInv, AlignTyped
<1>6. QuietInv'
    BY <1>1, <1>2, <1>3, <1>4 DEF AlignInv, AlignTyped, QuietInv, Shown
<1> QED
    BY <1>5, <1>6 DEF AlignInv

LEMMA AlignFsReloads ==
    ASSUME AlignInv, NEW g \in Gateway, Align!FsReloads(g)
    PROVE  AlignInv'
<1> DEFINE e == [gw |-> g, state |-> "DOWN"]
<1>1. (events' = Append(events, e) \/ UNCHANGED events) /\ quiet' = quiet \ {g} /\ stale' = stale \ {g}
      /\ gwFs' = [gwFs EXCEPT ![g] = "NOREG"] /\ held' = [held EXCEPT ![g] = auth[g]]
      /\ UNCHANGED <<auth, row, apply, start>>
    BY DEF Align!FsReloads
<1>2. e \in GwEvent /\ e.gw = g
    BY DEF GwEvent, GwStates
<1> HIDE DEF e
<1>3. /\ events' \in Seq(GwEvent)
      /\ \A h : h # e.gw /\ (\A i \in 1 .. Len(events) : events[i].gw # h)
           => \A i \in 1 .. Len(events') : events'[i].gw # h
    BY <1>1, <1>2, EventAdded DEF AlignInv
<1>4. gwFs' \in [Gateway -> FsState \cup {"NOREG"}] /\ \A h \in Gateway \ {g} : gwFs'[h] = gwFs[h]
    BY <1>1 DEF AlignInv, AlignTyped
<1>5. held' \in [Gateway -> {0, 1}]
    BY <1>1 DEF AlignInv, AlignTyped
<1>6. AlignTyped'
    BY <1>1, <1>3, <1>4, <1>5 DEF AlignInv, AlignTyped
<1>7. QuietInv'
    BY <1>1, <1>2, <1>3, <1>4 DEF AlignInv, AlignTyped, QuietInv, Shown
<1> QED
    BY <1>6, <1>7 DEF AlignInv

LEMMA AlignEdits ==
    ASSUME AlignInv, NEW g \in Gateway, Align!ToPeer(g) \/ Align!ToRegister(g)
    PROVE  AlignInv'
<1>1. UNCHANGED <<gwFs, held, events, apply, start>> /\ quiet' = quiet \ {g} /\ stale' = stale \cup {g}
    BY DEF Align!ToPeer, Align!ToRegister
<1>2. auth' \in [Gateway -> {0, 1}] /\ \A h \in Gateway \ {g} : auth'[h] = auth[h]
    BY DEF Align!ToPeer, Align!ToRegister, AlignInv, AlignTyped
<1>3. row' \in [Gateway -> 0 .. 3] /\ \A h \in Gateway \ {g} : row'[h] = row[h]
    <2>1. row' = [row EXCEPT ![g] = 0] \/ row' = row
        BY DEF Align!ToPeer, Align!ToRegister
    <2>2. row \in [Gateway -> 0 .. 3] /\ 0 \in 0 .. 3
        BY DEF AlignInv, AlignTyped
    <2>3. CASE row' = [row EXCEPT ![g] = 0]
        BY <2>2, <2>3
    <2> QED
        BY <2>1, <2>2, <2>3
<1>4. AlignTyped'
    BY <1>1, <1>2, <1>3 DEF AlignInv, AlignTyped
<1>5. QuietInv'
    BY <1>1, <1>2, <1>3 DEF AlignInv, AlignTyped, QuietInv, Shown
<1> QED
    BY <1>4, <1>5 DEF AlignInv

LEMMA AlignLoseEvent ==
    ASSUME AlignInv, Align!LoseEvent
    PROVE  AlignInv'
<1>1. events # <<>> /\ events' = Tail(events) /\ UNCHANGED <<gwFs, held, stale, auth, row, apply, start, quiet>>
    BY DEF Align!LoseEvent
<1>2. events \in Seq(GwEvent)
    BY DEF AlignInv, AlignTyped
<1>3. events' \in Seq(GwEvent)
    BY <1>1, <1>2
<1>4. \A i \in 1 .. Len(events') : i + 1 \in 1 .. Len(events) /\ events'[i] = events[i + 1]
    BY <1>1, <1>2
<1>5. AlignTyped'
    BY <1>1, <1>3 DEF AlignInv, AlignTyped
<1>6. QuietInv'
    BY <1>1, <1>4 DEF AlignInv, QuietInv, Shown
<1> QED
    BY <1>5, <1>6 DEF AlignInv

LEMMA AlignRestart ==
    ASSUME AlignInv, Align!Restart
    PROVE  AlignInv'
<1>1. events' = <<>> /\ start' = Align!Begun /\ UNCHANGED <<gwFs, held, stale, auth, row, quiet>>
      /\ apply' = [w \in {"worker", "start"} |-> Align!None]
    BY DEF Align!Restart, Align!Writer
<1>2. Attempts \in Nat \ {0}
    BY AlignAssumption DEF Align!GatewayStateConstants
<1>3. start' \in [pc : {"wait"}, left : 1 .. Attempts] /\ start'.pc = "wait"
    BY <1>1, <1>2 DEF Align!Begun
<1>4. events' \in Seq(GwEvent)
    BY <1>1
<1>5. AlignTyped'
    BY <1>1, <1>3, <1>4 DEF AlignInv, AlignTyped
<1> QED
    BY <1>1, <1>3, <1>5 DEF AlignInv, QuietInv

LEMMA AlignHandleEvent ==
    ASSUME AlignInv, Align!HandleEvent
    PROVE  AlignInv'
<1> DEFINE e == Head(events)
<1> DEFINE w == Align!ToWrite(e.gw, e.state)
<1>1. events # <<>> /\ events' = Tail(events) /\ apply' = [apply EXCEPT !["worker"] = w]
      /\ UNCHANGED <<gwFs, held, stale, auth, row, start, quiet>>
    BY DEF Align!HandleEvent
<1>2. events \in Seq(GwEvent)
    BY DEF AlignInv, AlignTyped
<1>3. events' \in Seq(GwEvent)
    BY <1>1, <1>2
<1>4. \A i \in 1 .. Len(events') : i + 1 \in 1 .. Len(events) /\ events'[i] = events[i + 1]
    BY <1>1, <1>2
<1>5. 1 \in 1 .. Len(events) /\ e = events[1] /\ e.gw \in Gateway
    <2>1. Len(events) > 0
        BY <1>1, <1>2
    <2>2. 1 \in 1 .. Len(events) /\ e = events[1]
        BY <1>2, <2>1
    <2>3. events[1] \in GwEvent
        BY <1>2, <2>2
    <2> QED
        BY <2>2, <2>3 DEF GwEvent
<1>6. w \in {Align!None} \cup GwWrite /\ (w # Align!None => w.gw = e.gw)
    BY <1>5, ToWriteIs DEF AlignInv
<1> HIDE DEF w
<1>7. apply' \in [{"worker", "start"} -> {Align!None} \cup GwWrite] /\ apply'["worker"] = w /\ apply'["start"] = apply["start"]
    BY <1>1, <1>6 DEF AlignInv, AlignTyped
<1>8. AlignTyped'
    BY <1>1, <1>3, <1>7 DEF AlignInv, AlignTyped
<1>9. QuietInv'
    <2> SUFFICES ASSUME start.pc = "apply", NEW g \in quiet
                 PROVE  /\ \A i \in 1 .. Len(events') : events'[i].gw # g
                        /\ apply'["worker"] = Align!None \/ apply'["worker"].gw # g
        BY <1>1, <1>7 DEF AlignInv, QuietInv, Shown
    <2>1. \A i \in 1 .. Len(events) : events[i].gw # g
        BY DEF AlignInv, QuietInv
    <2> QED
        BY <2>1, <1>4, <1>5, <1>6, <1>7
<1> QED
    BY <1>8, <1>9 DEF AlignInv

\* A quiet gateway is written by the alignment only, and with what it was seen in.
LEMMA AlignApplyCommit ==
    ASSUME AlignInv, NEW w \in {"worker", "start"}, Align!ApplyCommit(w)
    PROVE  AlignInv'
<1>1. apply[w] # Align!None /\ apply' = [apply EXCEPT ![w] = Align!None]
      /\ row' = [row EXCEPT ![apply[w].gw] = apply[w].st]
      /\ UNCHANGED <<gwFs, held, stale, auth, events, start, quiet>>
    BY DEF Align!ApplyCommit
<1>2. apply[w] \in GwWrite
    BY <1>1 DEF AlignInv, AlignTyped
<1>3. apply[w].gw \in Gateway /\ apply[w].st \in 0 .. 3
    BY <1>2 DEF GwWrite
<1>4. row' \in [Gateway -> 0 .. 3] /\ row'[apply[w].gw] = apply[w].st
      /\ \A h \in Gateway : h # apply[w].gw => row'[h] = row[h]
    BY <1>1, <1>3 DEF AlignInv, AlignTyped
<1>5. apply' \in [{"worker", "start"} -> {Align!None} \cup GwWrite] /\ apply'[w] = Align!None
      /\ \A v \in {"worker", "start"} : v # w => apply'[v] = apply[v]
    BY <1>1 DEF AlignInv, AlignTyped
<1>6. AlignTyped'
    BY <1>1, <1>4, <1>5 DEF AlignInv, AlignTyped
<1>7. QuietInv'
    <2>1. start'.pc # "apply" => apply'["start"] = Align!None
        BY <1>1, <1>5 DEF AlignInv, QuietInv
    <2> SUFFICES ASSUME start.pc = "apply", NEW g \in quiet
                 PROVE  /\ apply'["worker"] = Align!None \/ apply'["worker"].gw # g
                        /\ apply'["start"] # Align!None /\ apply'["start"].gw = g => apply'["start"].st = Shown(g)
                        /\ g \notin start.todo /\ auth[g] = 1 /\ gwFs[g] \in DOMAIN Align!STATE_MAP =>
                            row'[g] = Shown(g) \/ (apply'["start"] # Align!None /\ apply'["start"].gw = g)
        BY <1>1, <2>1 DEF AlignInv, QuietInv, Shown
    <2>2. g \in Gateway
        BY DEF AlignInv, AlignTyped
    <2>3. /\ apply["worker"] = Align!None \/ apply["worker"].gw # g
          /\ apply["start"] # Align!None /\ apply["start"].gw = g => apply["start"].st = Shown(g)
          /\ g \notin start.todo /\ auth[g] = 1 /\ gwFs[g] \in DOMAIN Align!STATE_MAP =>
              row[g] = Shown(g) \/ (apply["start"] # Align!None /\ apply["start"].gw = g)
        BY DEF AlignInv, QuietInv
    <2>4. CASE w = "worker"
        BY <1>1, <1>4, <1>5, <2>2, <2>3, <2>4
    <2>5. CASE w = "start"
        BY <1>1, <1>4, <1>5, <2>2, <2>3, <2>5
    <2> QED
        BY <2>4, <2>5
<1> QED
    BY <1>6, <1>7 DEF AlignInv

LEMMA AlignApplyFail ==
    ASSUME AlignInv, NEW w \in {"worker", "start"}, Align!ApplyFail(w)
    PROVE  AlignInv'
<1>1. apply' = [apply EXCEPT ![w] = Align!None] /\ UNCHANGED <<gwFs, held, stale, auth, row, events, quiet>>
      /\ start' = IF w = "start" THEN Align!Over ELSE start
    BY DEF Align!ApplyFail
<1>2. apply' \in [{"worker", "start"} -> {Align!None} \cup GwWrite] /\ apply'[w] = Align!None
      /\ \A v \in {"worker", "start"} : v # w => apply'[v] = apply[v]
    BY <1>1 DEF AlignInv, AlignTyped
<1>3. AlignTyped'
    BY <1>1, <1>2 DEF AlignInv, AlignTyped
<1>4. CASE w = "start"
    <2>1. start'.pc # "apply" /\ apply'["start"] = Align!None
        BY <1>1, <1>2, <1>4 DEF Align!Over
    <2> QED
        BY <1>3, <2>1 DEF AlignInv, QuietInv
<1>5. CASE w = "worker"
    BY <1>1, <1>2, <1>3, <1>5 DEF AlignInv, QuietInv, Shown
<1> QED
    BY <1>4, <1>5

\* Quiet are the gateways of which no older news is under way.
LEMMA AlignSnapshot ==
    ASSUME AlignInv, Align!Snapshot
    PROVE  AlignInv'
<1>1. start.pc = "wait" /\ UNCHANGED <<gwFs, held, stale, auth, row, events, apply>>
    BY DEF Align!Snapshot
<1>2. apply["start"] = Align!None
    BY <1>1 DEF AlignInv, QuietInv
<1>3. start \in [pc : {"wait"}, left : 1 .. Attempts]
    BY <1>1 DEF AlignInv, AlignTyped, Align!Over
<1>4. events \in Seq(GwEvent)
    BY DEF AlignInv, AlignTyped
<1>5. \A i \in 1 .. Len(events) : events[i] \in Align!ToSet(events)
    BY <1>4 DEF Align!ToSet
<1>6. quiet' \in SUBSET Gateway
      /\ \A g \in quiet' : g \notin stale /\ (\A e \in Align!ToSet(events) : e.gw # g)
                         /\ (apply["worker"] = Align!None \/ apply["worker"].gw # g)
    BY DEF Align!Snapshot
<1>7. CASE start' = [pc |-> "apply", seen |-> gwFs, todo |-> Gateway]
    <2>1. start' \in [pc : {"apply"}, seen : [Gateway -> FsState \cup {"NOREG"}], todo : SUBSET Gateway]
        BY <1>7 DEF AlignInv, AlignTyped
    <2>2. AlignTyped'
        BY <1>1, <1>6, <2>1 DEF AlignInv, AlignTyped
    <2>3. start'.pc = "apply" /\ start'.seen = gwFs /\ start'.todo = Gateway
        BY <1>7
    <2>4. QuietInv'
        BY <1>1, <1>2, <1>5, <1>6, <2>3 DEF QuietInv
    <2> QED
        BY <2>2, <2>4 DEF AlignInv
<1>8. CASE start' = IF start.left = 1 THEN Align!Over ELSE [start EXCEPT !.left = @ - 1]
    <2>1. Attempts \in Nat \ {0}
        BY AlignAssumption DEF Align!GatewayStateConstants
    <2>2. (start' = Align!Over \/ start' \in [pc : {"wait"}, left : 1 .. Attempts]) /\ start'.pc # "apply"
        BY <1>3, <1>8, <2>1 DEF Align!Over
    <2>3. AlignTyped'
        BY <1>1, <1>6, <2>2 DEF AlignInv, AlignTyped
    <2> QED
        BY <1>1, <1>2, <2>2, <2>3 DEF AlignInv, QuietInv
<1> QED
    BY <1>7, <1>8 DEF Align!Snapshot

LEMMA AlignAlign ==
    ASSUME AlignInv, NEW g \in Gateway, Align!Align(g)
    PROVE  AlignInv'
<1> DEFINE w == Align!ToWrite(g, start.seen[g])
<1> DEFINE s == [start EXCEPT !.todo = @ \ {g}]
<1>1. start.pc = "apply" /\ apply["start"] = Align!None /\ apply' = [apply EXCEPT !["start"] = w] /\ start' = s
      /\ UNCHANGED <<gwFs, held, stale, auth, row, events, quiet>>
    BY DEF Align!Align
<1>2. start \in [pc : {"apply"}, seen : [Gateway -> FsState \cup {"NOREG"}], todo : SUBSET Gateway]
    BY <1>1 DEF AlignInv, AlignTyped, Align!Over
<1>3. s \in [pc : {"apply"}, seen : [Gateway -> FsState \cup {"NOREG"}], todo : SUBSET Gateway]
      /\ s.pc = "apply" /\ s.seen = start.seen /\ s.todo = start.todo \ {g}
    BY <1>2
<1>4. /\ w \in {Align!None} \cup GwWrite
      /\ w # Align!None => w.gw = g /\ w.st = Align!STATE_MAP[start.seen[g]]
      /\ w = Align!None /\ auth[g] = 1 /\ start.seen[g] \in DOMAIN Align!STATE_MAP =>
            row[g] = Align!STATE_MAP[start.seen[g]]
    BY ToWriteIs DEF AlignInv
<1> HIDE DEF w, s
<1>5. apply' \in [{"worker", "start"} -> {Align!None} \cup GwWrite] /\ apply'["start"] = w /\ apply'["worker"] = apply["worker"]
    BY <1>1, <1>4 DEF AlignInv, AlignTyped
<1>6. AlignTyped'
    BY <1>1, <1>3, <1>5 DEF AlignInv, AlignTyped
<1>7. QuietInv'
    <2> SUFFICES ASSUME NEW h \in quiet
                 PROVE  /\ w # Align!None /\ w.gw = h => w.st = Shown(h)
                        /\ h \notin s.todo /\ auth[h] = 1 /\ gwFs[h] \in DOMAIN Align!STATE_MAP =>
                            row[h] = Shown(h) \/ (w # Align!None /\ w.gw = h)
        BY <1>1, <1>3, <1>5 DEF AlignInv, QuietInv, Shown
    <2>1. start.seen[h] = gwFs[h]
        BY <1>1 DEF AlignInv, QuietInv
    <2>2. h # g /\ h \notin s.todo /\ auth[h] = 1 /\ gwFs[h] \in DOMAIN Align!STATE_MAP => row[h] = Shown(h)
        BY <1>1, <1>3 DEF AlignInv, QuietInv
    <2> QED
        BY <1>4, <2>1, <2>2 DEF Shown
<1> QED
    BY <1>6, <1>7 DEF AlignInv

LEMMA AlignAligned ==
    ASSUME AlignInv, Align!Aligned
    PROVE  AlignInv'
<1>1. apply["start"] = Align!None /\ start' = Align!Over
      /\ UNCHANGED <<gwFs, held, stale, auth, row, events, apply, quiet>>
    BY DEF Align!Aligned
<1>2. start'.pc # "apply"
    BY <1>1 DEF Align!Over
<1>3. AlignTyped'
    BY <1>1 DEF AlignInv, AlignTyped
<1> QED
    BY <1>1, <1>2, <1>3 DEF AlignInv, QuietInv

LEMMA AlignStep ==
    ASSUME AlignInv, Align!Next
    PROVE  AlignInv'
<1>1. CASE Align!Worker
    BY <1>1, AlignHandleEvent, AlignApplyCommit DEF Align!Worker
<1>2. CASE Align!Starter
    BY <1>2, AlignSnapshot, AlignAligned, AlignApplyCommit, AlignAlign DEF Align!Starter
<1>3. CASE \E g \in Gateway : \/ Align!FsReloads(g) \/ Align!ToPeer(g) \/ Align!ToRegister(g)
                              \/ \E s \in FsState : Align!FsMoves(g, s)
    BY <1>3, AlignFsReloads, AlignEdits, AlignFsMoves
<1>4. CASE Align!LoseEvent \/ Align!Restart \/ \E w \in {"worker", "start"} : Align!ApplyFail(w)
    BY <1>4, AlignLoseEvent, AlignRestart, AlignApplyFail
<1> QED
    BY <1>1, <1>2, <1>3, <1>4 DEF Align!Next, Align!Writer

LEMMA AlignTells == AlignInv => Align!TypeOK /\ Align!AlignmentTells
<1> SUFFICES ASSUME AlignInv PROVE Align!TypeOK /\ Align!AlignmentTells
    OBVIOUS
<1>1. Align!TypeOK
    <2>1. \A w \in {"worker", "start"} : apply[w] = Align!None \/ (apply[w].gw \in Gateway /\ apply[w].st \in 0 .. 3)
        BY DEF AlignInv, AlignTyped, GwWrite
    <2>2. \/ start = Align!Over
          \/ start.pc = "wait" /\ start.left \in 1 .. Attempts
          \/ start.pc = "apply" /\ start.todo \subseteq Gateway
        BY DEF AlignInv, AlignTyped
    <2>3. events \in Seq(GwEvent)
        BY DEF AlignInv, AlignTyped
    <2>4. \A e \in Align!ToSet(events) : e.gw \in Gateway
        <3>1. \A i \in 1 .. Len(events) : events[i] \in GwEvent
            BY <2>3
        <3>2. Align!ToSet(events) = {events[i] : i \in 1 .. Len(events)}
            BY <2>3 DEF Align!ToSet
        <3> QED
            BY <3>1, <3>2 DEF GwEvent
    <2> QED
        BY <2>1, <2>2, <2>4 DEF Align!TypeOK, Align!Writer, AlignInv, AlignTyped
<1>2. Align!AlignmentTells
    BY DEF AlignInv, QuietInv, Align!AlignmentTells, Shown
<1> QED
    BY <1>1, <1>2

\* An alignment that ends has told every gateway nothing happened to meanwhile, for any
\* gateways, any attempts and any loss of events, failed writes and new starts.
THEOREM AlignmentAlwaysTells == Spec => []AlignmentTells
<1> DEFINE Inv == scenario = "align" => AlignInv
<1>1. Init => Inv
    BY AlignInit DEF Init
<1>2. Inv /\ [Next]_vars => Inv'
    <2> SUFFICES ASSUME Inv, [Next]_vars, scenario' = "align" PROVE AlignInv'
        OBVIOUS
    <2>1. scenario = "align" /\ AlignInv
        BY DEF Next, vars
    <2>2. CASE Align!Next
        BY <2>1, <2>2, AlignStep
    <2>3. CASE UNCHANGED alignVars
        BY <2>1, <2>3 DEF alignVars, AlignInv, AlignTyped, QuietInv, Shown
    <2> QED
        BY <2>1, <2>2, <2>3 DEF Next, vars
<1>3. Inv => AlignmentTells
    BY AlignTells DEF AlignmentTells
<1> QED
    BY <1>1, <1>2, <1>3, PTL DEF Spec
-----------------------------------------------------------------------------
(* A page of the calls of the nodes. *)

Gateways == Gateway \cup {NoGateway}
Legs == {"A", "B"}

PageProbe ==
    [pc : {"channels", "failed"}]
        \cup [pc : {"dump"}, rows : SUBSET (Call \X Legs), todo : SUBSET (Call \X Legs),
              dumps : SUBSET ((Call \X Legs) \X Gateways), late : {<<>>}]

PageTyped ==
    /\ legs \in [Call -> SUBSET Legs] /\ gw \in [Call -> Gateways] /\ had \in [Call -> SUBSET Gateways]
    /\ up \in SUBSET Node /\ offline = {} /\ upAll \in SUBSET Call
    /\ probe \in [Node -> PageProbe]
    /\ answer \in [calls : SUBSET [call : Call, leg : Legs, gw : Gateways], degraded : BOOLEAN, sent : BOOLEAN]

\* Calls that are up have an A leg; a call nothing happens to stays up.
CallsInv ==
    \A c \in Call :
        /\ legs[c] # {} => "A" \in legs[c]
        /\ gw[c] \in had[c]
        /\ c \in upAll => legs[c] # {} /\ NodeOf[c] \in up

\* What a probe has heard of a call the call has had, and of an unchanged call what it has.
HeardInv ==
    \A n \in Node : probe[n].pc = "dump" =>
        /\ probe[n].todo \subseteq probe[n].rows
        /\ \A ch \in probe[n].rows : NodeOf[ch[1]] = n
        /\ \A c \in upAll : NodeOf[c] = n => <<c, "A">> \in probe[n].rows
        /\ \A c \in Call, l \in Legs, g \in Gateway : g # NoGateway /\ <<<<c, l>>, g>> \in probe[n].dumps =>
            l = "A" /\ g \in had[c] /\ (c \in upAll => g = gw[c])
        /\ \A c \in upAll : <<c, "A">> \in probe[n].rows \ probe[n].todo => <<<<c, "A">>, gw[c]>> \in probe[n].dumps

AnswerInv ==
    /\ \A r, s \in answer.calls : r.call = s.call => r = s
    /\ \A r \in answer.calls : r.gw \in had[r.call] \cup {NoGateway} /\ (r.call \in upAll => r.gw = gw[r.call])
    /\ answer.sent /\ (\E c \in upAll : \A r \in answer.calls : r.call # c) => answer.degraded

PageInv == PageTyped /\ CallsInv /\ HeardInv /\ AnswerInv

LEMMA PageBounds == NodeOf \in [Call -> Node] /\ NoGateway \notin Gateway
BY CallsAssumption DEF Page!LiveCallsConstants

LEMMA PageInit == Page!Init => PageInv
<1> SUFFICES ASSUME Page!Init PROVE PageInv
    OBVIOUS
<1>1. offline = {} /\ up \in SUBSET Node /\ upAll = {c \in Call : legs[c] # {} /\ NodeOf[c] \in up}
      /\ had = [c \in Call |-> {gw[c]}]
    BY DEF Page!Init
<1>2. legs \in [Call -> {{}, {"A"}, {"A", "B"}}] /\ gw \in [Call -> Gateways]
    BY DEF Page!Init, Gateways
<1>3. probe = [n \in Node |-> [pc |-> "channels"]]
    BY <1>1 DEF Page!Init
<1>4. answer = [calls |-> {}, degraded |-> FALSE, sent |-> FALSE]
    BY DEF Page!Init, Page!NoAnswer
<1>5. probe \in [Node -> PageProbe] /\ \A n \in Node : probe[n].pc # "dump"
    BY <1>3 DEF PageProbe
<1>6. legs \in [Call -> SUBSET Legs] /\ had \in [Call -> SUBSET Gateways]
    BY <1>1, <1>2 DEF Legs
<1>7. PageTyped
    BY <1>1, <1>2, <1>4, <1>5, <1>6 DEF PageTyped
<1>8. CallsInv
    BY <1>1, <1>2 DEF CallsInv
<1>9. HeardInv
    BY <1>5 DEF HeardInv
<1>10. AnswerInv
    BY <1>4 DEF AnswerInv
<1> QED
    BY <1>7, <1>8, <1>9, <1>10 DEF PageInv

\* A step of a call that no longer counts as unchanged, and takes nothing from what it had.
LEMMA PageCall ==
    ASSUME PageInv, NEW c \in Call, Page!Begin(c) \/ Page!End(c) \/ \E g \in Gateway : Page!Bridge(c, g)
    PROVE  PageInv'
<1>1. UNCHANGED <<up, offline, probe, answer>>
    BY DEF Page!Begin, Page!End, Page!Bridge
<1>2. upAll' = upAll \ {c}
    BY DEF Page!Begin, Page!End, Page!Bridge, PageInv, CallsInv
<1>3. legs' = [legs EXCEPT ![c] = {}] \/ legs' = [legs EXCEPT ![c] = {"A"}] \/ legs' = [legs EXCEPT ![c] = {"A", "B"}]
    BY DEF Page!Begin, Page!End, Page!Bridge
<1>4. legs' \in [Call -> SUBSET Legs] /\ (legs'[c] # {} => "A" \in legs'[c]) /\ \A d \in Call \ {c} : legs'[d] = legs[d]
    BY <1>3 DEF PageInv, PageTyped, Legs
<1>5. PICK g \in Gateways : /\ gw' = [gw EXCEPT ![c] = g] \/ gw' = gw
                            /\ had' = [had EXCEPT ![c] = @ \cup {g}] \/ (gw' = gw /\ had' = had)
    BY DEF Page!Begin, Page!End, Page!Bridge, Gateways
<1>6. gw' \in [Call -> Gateways] /\ \A d \in Call \ {c} : gw'[d] = gw[d]
    BY <1>5 DEF PageInv, PageTyped
<1>7. had' \in [Call -> SUBSET Gateways] /\ (\A d \in Call : had[d] \subseteq had'[d]) /\ gw'[c] \in had'[c]
    BY <1>5 DEF PageInv, PageTyped, CallsInv
<1>8. PageTyped'
    BY <1>1, <1>2, <1>4, <1>6, <1>7 DEF PageInv, PageTyped
<1>9. CallsInv'
    BY <1>1, <1>2, <1>4, <1>6, <1>7 DEF PageInv, CallsInv
<1>10. HeardInv'
    BY <1>1, <1>2, <1>6, <1>7 DEF PageInv, PageTyped, HeardInv
<1>11. AnswerInv'
    <2>1. \A r \in answer.calls : r.call \in Call
        BY DEF PageInv, PageTyped
    <2>2. \A d \in upAll' : d \in upAll /\ gw'[d] = gw[d]
        BY <1>2, <1>6 DEF PageInv, PageTyped
    <2> QED
        BY <1>1, <1>7, <2>1, <2>2 DEF PageInv, AnswerInv
<1> QED
    BY <1>8, <1>9, <1>10, <1>11 DEF PageInv

\* The channels that are shown are all there are at the node.
LEMMA PageShow ==
    ASSUME PageInv, NEW n \in Node, Page!ShowChannels(n)
    PROVE  PageInv'
<1> DEFINE rows == Page!Channels(n)
<1> DEFINE p == [pc |-> "dump", rows |-> rows, todo |-> rows, dumps |-> {}, late |-> <<>>]
<1>1. UNCHANGED <<legs, gw, up, offline, answer, upAll, had>>
      /\ (probe' = [probe EXCEPT ![n] = p] \/ probe' = [probe EXCEPT ![n] = Page!Failed])
    BY DEF Page!ShowChannels
<1>2. rows \in SUBSET (Call \X Legs) /\ \A ch \in rows : NodeOf[ch[1]] = n
    BY DEF Page!Channels, Page!Channel, Page!Leg, Legs
<1>3. \A c \in upAll : NodeOf[c] = n => <<c, "A">> \in rows
    BY DEF PageInv, PageTyped, CallsInv, Page!Channels, Page!Channel, Page!Leg
<1> HIDE DEF rows
<1>4. p \in PageProbe /\ p.pc = "dump" /\ p.rows = rows /\ p.todo = rows /\ p.dumps = {}
    BY <1>2 DEF PageProbe
<1>5. Page!Failed \in PageProbe /\ Page!Failed.pc # "dump"
    BY DEF PageProbe, Page!Failed
<1> HIDE DEF p
<1>6. probe' \in [Node -> PageProbe] /\ (probe'[n] = p \/ probe'[n] = Page!Failed)
      /\ \A m \in Node \ {n} : probe'[m] = probe[m]
    BY <1>1, <1>4, <1>5 DEF PageInv, PageTyped
<1>7. PageTyped'
    BY <1>1, <1>6 DEF PageInv, PageTyped
<1>8. HeardInv'
    <2> SUFFICES ASSUME NEW m \in Node, probe'[m].pc = "dump"
                 PROVE  /\ probe'[m].todo \subseteq probe'[m].rows
                        /\ \A ch \in probe'[m].rows : NodeOf[ch[1]] = m
                        /\ \A c \in upAll : NodeOf[c] = m => <<c, "A">> \in probe'[m].rows
                        /\ \A c \in Call, l \in Legs, g \in Gateway : g # NoGateway /\ <<<<c, l>>, g>> \in probe'[m].dumps =>
                            l = "A" /\ g \in had[c] /\ (c \in upAll => g = gw[c])
                        /\ \A c \in upAll : <<c, "A">> \in probe'[m].rows \ probe'[m].todo =>
                            <<<<c, "A">>, gw[c]>> \in probe'[m].dumps
        BY <1>1 DEF HeardInv
    <2>1. CASE m = n
        BY <1>2, <1>3, <1>4, <1>5, <1>6, <2>1
    <2>2. CASE m # n
        BY <1>6, <2>2 DEF PageInv, HeardInv
    <2> QED
        BY <2>1, <2>2
<1> QED
    BY <1>1, <1>7, <1>8 DEF PageInv, CallsInv, AnswerInv

LEMMA PageDump ==
    ASSUME PageInv, NEW n \in Node, NEW ch \in Call \X Legs, Page!Dump(n, ch)
    PROVE  PageInv'
<1> DEFINE x == Page!DumpOf(ch)
<1> DEFINE p == [probe[n] EXCEPT !.todo = @ \ {ch}, !.late = Tail(Append(probe[n].late, x)),
                                 !.dumps = @ \cup {<<ch, Head(Append(probe[n].late, x))>>}]
<1>1. UNCHANGED <<legs, gw, up, offline, answer, upAll, had>> /\ probe[n].pc = "dump" /\ ch \in probe[n].todo
      /\ probe' = [probe EXCEPT ![n] = p]
    BY DEF Page!Dump
<1>2. probe[n] \in [pc : {"dump"}, rows : SUBSET (Call \X Legs), todo : SUBSET (Call \X Legs),
                    dumps : SUBSET ((Call \X Legs) \X Gateways), late : {<<>>}]
    BY <1>1 DEF PageInv, PageTyped, PageProbe
<1>3. PICK c \in Call, l \in Legs : ch = <<c, l>>
    OBVIOUS
<1>4. x \in Gateways /\ (x # NoGateway => l = "A" /\ x = gw[c]) /\ (l = "A" /\ legs[c] # {} => x = gw[c])
    BY <1>3 DEF Page!DumpOf, PageInv, PageTyped, CallsInv, Gateways, Legs
<1> HIDE DEF x
<1>5. probe[n].late = <<>>
    BY <1>2
<1>6. Append(probe[n].late, x) = <<x>>
    BY <1>5
<1>7. Head(<<x>>) = x /\ Tail(<<x>>) = <<>>
    OBVIOUS
<1>8. p = [probe[n] EXCEPT !.todo = @ \ {ch}, !.late = <<>>, !.dumps = @ \cup {<<ch, x>>}]
    BY <1>6, <1>7
<1> HIDE DEF p
<1>9. p.pc = "dump" /\ p.rows = probe[n].rows /\ p.todo = probe[n].todo \ {ch} /\ p.late = <<>>
      /\ p.dumps = probe[n].dumps \cup {<<ch, x>>}
    BY <1>2, <1>8
<1>10. <<ch, x>> \in (Call \X Legs) \X Gateways
    BY <1>4
<1>11. p \in PageProbe
    BY <1>2, <1>8, <1>10 DEF PageProbe
<1>12. probe' \in [Node -> PageProbe] /\ probe'[n] = p /\ \A m \in Node \ {n} : probe'[m] = probe[m]
    BY <1>1, <1>11 DEF PageInv, PageTyped
<1>13. PageTyped'
    BY <1>1, <1>12 DEF PageInv, PageTyped
<1>14. HeardInv'
    <2>1. /\ probe[n].todo \subseteq probe[n].rows
          /\ \A k \in probe[n].rows : NodeOf[k[1]] = n
          /\ \A d \in upAll : NodeOf[d] = n => <<d, "A">> \in probe[n].rows
          /\ \A d \in Call, k \in Legs, g \in Gateway : g # NoGateway /\ <<<<d, k>>, g>> \in probe[n].dumps =>
              k = "A" /\ g \in had[d] /\ (d \in upAll => g = gw[d])
          /\ \A d \in upAll : <<d, "A">> \in probe[n].rows \ probe[n].todo => <<<<d, "A">>, gw[d]>> \in probe[n].dumps
        BY <1>1 DEF PageInv, HeardInv
    <2>2. \A d \in Call, k \in Legs, g \in Gateway : g # NoGateway /\ <<<<d, k>>, g>> \in p.dumps =>
              k = "A" /\ g \in had[d] /\ (d \in upAll => g = gw[d])
        <3> SUFFICES ASSUME NEW d \in Call, NEW k \in Legs, NEW g \in Gateway, g # NoGateway,
                            <<<<d, k>>, g>> \in p.dumps
                     PROVE  k = "A" /\ g \in had[d] /\ (d \in upAll => g = gw[d])
            OBVIOUS
        <3>1. CASE <<<<d, k>>, g>> \in probe[n].dumps
            BY <2>1, <3>1
        <3>2. CASE <<<<d, k>>, g>> = <<ch, x>>
            <4>1. d = c /\ k = l /\ g = x
                BY <1>3, <3>2
            <4> QED
                BY <4>1, <1>4 DEF PageInv, CallsInv
        <3> QED
            BY <1>9, <3>1, <3>2
    <2>3. \A d \in upAll : <<d, "A">> \in p.rows \ p.todo => <<<<d, "A">>, gw[d]>> \in p.dumps
        <3> SUFFICES ASSUME NEW d \in upAll, <<d, "A">> \in p.rows \ p.todo
                     PROVE  <<<<d, "A">>, gw[d]>> \in p.dumps
            OBVIOUS
        <3>1. CASE <<d, "A">> = ch
            <4>1. d = c /\ l = "A" /\ d \in Call
                BY <1>3, <3>1 DEF PageInv, PageTyped
            <4>2. x = gw[d]
                BY <4>1, <1>4 DEF PageInv, CallsInv
            <4> QED
                BY <3>1, <4>2, <1>9
        <3>2. CASE <<d, "A">> # ch
            BY <3>2, <2>1, <1>9
        <3> QED
            BY <3>1, <3>2
    <2>4. /\ p.todo \subseteq p.rows
          /\ \A k \in p.rows : NodeOf[k[1]] = n
          /\ \A d \in upAll : NodeOf[d] = n => <<d, "A">> \in p.rows
        BY <2>1, <1>9
    <2> HIDE DEF p
    <2>5. \A m \in Node : probe'[m] = IF m = n THEN p ELSE probe[m]
        BY <1>12
    <2> QED
        BY <1>1, <2>2, <2>3, <2>4, <2>5 DEF PageInv, HeardInv
<1> QED
    BY <1>1, <1>13, <1>14 DEF PageInv, CallsInv, AnswerInv

\* What is said of a call comes from its A leg.
LEMMA GatewayOfIs ==
    ASSUME PageInv, NEW n \in Node, probe[n].pc = "dump", probe[n].todo = {}, NEW c \in Call
    PROVE  LET g == Page!GatewayOf(probe[n], c)
           IN  /\ g \in Gateways
               /\ g \in had[c] \cup {NoGateway}
               /\ c \in upAll /\ NodeOf[c] = n => g = gw[c]
<1> DEFINE known == Page!Known(probe[n], c)
<1> DEFINE p == probe[n]
<1>1. p.dumps \in SUBSET ((Call \X Legs) \X Gateways)
    BY DEF PageInv, PageTyped, PageProbe
<1>2. \A d \in known : d \in p.dumps /\ d[1][1] = c /\ d[2] # NoGateway
    BY DEF Page!Known
<1>3. \A d \in known : d[2] \in Gateway /\ d[1] = <<c, "A">> /\ d[2] \in had[c] /\ (c \in upAll => d[2] = gw[c])
    <2> SUFFICES ASSUME NEW d \in known
                 PROVE  d[2] \in Gateway /\ d[1] = <<c, "A">> /\ d[2] \in had[c] /\ (c \in upAll => d[2] = gw[c])
        OBVIOUS
    <2>1. PICK b \in Call, l \in Legs, g \in Gateways : d = <<<<b, l>>, g>>
        BY <1>1, <1>2
    <2>2. b = c /\ g \in Gateway /\ g # NoGateway /\ d[2] = g /\ d[1] = <<c, l>>
        BY <1>2, <2>1 DEF Gateways
    <2>3. l = "A" /\ g \in had[c] /\ (c \in upAll => g = gw[c])
        BY <1>2, <2>1, <2>2 DEF PageInv, HeardInv
    <2> QED
        BY <2>2, <2>3
<1>4. CASE known = {}
    <2>1. Page!GatewayOf(p, c) = NoGateway
        BY <1>4 DEF Page!GatewayOf
    <2>2. c \in upAll /\ NodeOf[c] = n => gw[c] = NoGateway
        <3> SUFFICES ASSUME c \in upAll, NodeOf[c] = n, gw[c] # NoGateway PROVE FALSE
            OBVIOUS
        <3>1. <<<<c, "A">>, gw[c]>> \in p.dumps
            BY DEF PageInv, HeardInv
        <3>2. <<<<c, "A">>, gw[c]>> \in known
            BY <3>1 DEF Page!Known
        <3> QED
            BY <3>2, <1>4
    <2> QED
        BY <2>1, <2>2 DEF Gateways
<1>5. CASE known # {}
    <2> DEFINE d == CHOOSE d \in known : d[1] = <<c, "A">> \/ \A e \in known : e[1] # <<c, "A">>
    <2>1. d \in known
        BY <1>3, <1>5
    <2>2. Page!GatewayOf(p, c) = d[2]
        BY <1>5 DEF Page!GatewayOf
    <2> HIDE DEF d, known, p
    <2> QED
        BY <1>3, <2>1, <2>2 DEF Gateways, p
<1> QED
    BY <1>4, <1>5

LEMMA PageMerges ==
    ASSUME NEW p
    PROVE  /\ \A r \in Page!MergeCalls(p) : \E ch \in p.rows :
                r = [call |-> ch[1], leg |-> IF <<ch[1], "A">> \in p.rows THEN "A" ELSE "B",
                     gw |-> Page!GatewayOf(p, ch[1])]
           /\ \A ch \in p.rows : \E r \in Page!MergeCalls(p) : r.call = ch[1]
<1> DEFINE merged(c) == [call |-> c, leg |-> IF <<c, "A">> \in p.rows THEN "A" ELSE "B", gw |-> Page!GatewayOf(p, c)]
<1>1. Page!MergeCalls(p) = {merged(c) : c \in {ch[1] : ch \in p.rows}}
    BY DEF Page!MergeCalls
<1>2. \A c : merged(c).call = c
    OBVIOUS
<1>3. \A ch \in p.rows : merged(ch[1]) \in Page!MergeCalls(p)
    BY <1>1
<1>4. \A r \in Page!MergeCalls(p) : \E ch \in p.rows : r = merged(ch[1])
    BY <1>1
<1> QED
    BY <1>2, <1>3, <1>4

LEMMA PageRespond ==
    ASSUME PageInv, Page!Respond
    PROVE  PageInv'
<1> DEFINE said == {n \in Node : probe[n] # Page!Failed}
<1> DEFINE calls == UNION {Page!MergeCalls(probe[n]) : n \in said}
<1>1. /\ UNCHANGED <<legs, gw, up, offline, probe, upAll, had>>
      /\ \A n \in Node : probe[n] = Page!Failed \/ (probe[n].pc = "dump" /\ probe[n].todo = {})
      /\ answer' = [calls |-> calls, degraded |-> Page!Degraded(probe), sent |-> TRUE]
    BY DEF Page!Respond, PageInv, PageTyped
<1>2. Page!Degraded(probe) <=> \E n \in Node : probe[n] = Page!Failed
    BY DEF Page!Degraded, PageInv, PageTyped
<1>3. \A r \in calls : \E n \in said : \E ch \in probe[n].rows :
        r = [call |-> ch[1], leg |-> IF <<ch[1], "A">> \in probe[n].rows THEN "A" ELSE "B",
             gw |-> Page!GatewayOf(probe[n], ch[1])]
    BY PageMerges
<1>4. \A n \in said : \A ch \in probe[n].rows : \E r \in calls : r.call = ch[1]
    BY PageMerges
<1>5. \A n \in said : probe[n].pc = "dump" /\ probe[n].todo = {} /\ \A ch \in probe[n].rows : ch \in Call \X Legs /\ NodeOf[ch[1]] = n
    BY <1>1 DEF PageInv, PageTyped, PageProbe, HeardInv
<1> HIDE DEF calls
<1>6. \A r \in calls :
        /\ r.call \in Call /\ NodeOf[r.call] \in said
        /\ r.leg = IF <<r.call, "A">> \in probe[NodeOf[r.call]].rows THEN "A" ELSE "B"
        /\ r.gw = Page!GatewayOf(probe[NodeOf[r.call]], r.call)
        /\ r = [call |-> r.call, leg |-> r.leg, gw |-> r.gw]
    <2> SUFFICES ASSUME NEW r \in calls
                 PROVE  /\ r.call \in Call /\ NodeOf[r.call] \in said
                        /\ r.leg = IF <<r.call, "A">> \in probe[NodeOf[r.call]].rows THEN "A" ELSE "B"
                        /\ r.gw = Page!GatewayOf(probe[NodeOf[r.call]], r.call)
                        /\ r = [call |-> r.call, leg |-> r.leg, gw |-> r.gw]
        OBVIOUS
    <2>1. PICK n \in said : \E ch \in probe[n].rows :
            r = [call |-> ch[1], leg |-> IF <<ch[1], "A">> \in probe[n].rows THEN "A" ELSE "B",
                 gw |-> Page!GatewayOf(probe[n], ch[1])]
        BY <1>3
    <2>2. PICK ch \in probe[n].rows :
            r = [call |-> ch[1], leg |-> IF <<ch[1], "A">> \in probe[n].rows THEN "A" ELSE "B",
                 gw |-> Page!GatewayOf(probe[n], ch[1])]
        BY <2>1
    <2>3. ch[1] \in Call /\ NodeOf[ch[1]] = n
        BY <1>5
    <2> HIDE DEF said
    <2>4. r.call = ch[1] /\ r.gw = Page!GatewayOf(probe[n], ch[1])
          /\ r.leg = IF <<ch[1], "A">> \in probe[n].rows THEN "A" ELSE "B"
        BY <2>2
    <2> QED
        BY <2>3, <2>4, <2>2
<1>7. \A r \in calls : LET g == r.gw
                       IN  g \in Gateways /\ g \in had[r.call] \cup {NoGateway} /\ (r.call \in upAll => g = gw[r.call])
    <2> SUFFICES ASSUME NEW r \in calls
                 PROVE  LET g == r.gw
                        IN  g \in Gateways /\ g \in had[r.call] \cup {NoGateway} /\ (r.call \in upAll => g = gw[r.call])
        OBVIOUS
    <2>1. r.call \in Call /\ NodeOf[r.call] \in Node /\ r.gw = Page!GatewayOf(probe[NodeOf[r.call]], r.call)
        BY <1>6
    <2>2. probe[NodeOf[r.call]].pc = "dump" /\ probe[NodeOf[r.call]].todo = {}
        BY <1>5, <1>6
    <2> QED
        BY <2>1, <2>2, GatewayOfIs
<1>8. answer' \in [calls : SUBSET [call : Call, leg : Legs, gw : Gateways], degraded : BOOLEAN, sent : BOOLEAN]
    <2>1. \A r \in calls : r \in [call : Call, leg : Legs, gw : Gateways]
        <3> SUFFICES ASSUME NEW r \in calls PROVE r \in [call : Call, leg : Legs, gw : Gateways]
            OBVIOUS
        <3>1. r = [call |-> r.call, leg |-> r.leg, gw |-> r.gw] /\ r.call \in Call /\ r.gw \in Gateways
            BY <1>6, <1>7
        <3>2. r.leg \in Legs
            BY <1>6 DEF Legs
        <3> QED
            BY <3>1, <3>2
    <2> QED
        BY <1>1, <1>2, <2>1 DEF Page!Degraded
<1>9. PageTyped'
    BY <1>1, <1>8 DEF PageInv, PageTyped
<1>10. answer'.calls = calls /\ (answer'.degraded <=> \E n \in Node : probe[n] = Page!Failed)
    BY <1>1, <1>2
<1>11. \A r, s \in calls : r.call = s.call => r = s
    BY <1>6
<1>12. (\E c \in upAll : \A r \in calls : r.call # c) => \E n \in Node : probe[n] = Page!Failed
    <2> SUFFICES ASSUME NEW c \in upAll, \A r \in calls : r.call # c, NodeOf[c] \in said PROVE FALSE
        BY PageBounds DEF PageInv, PageTyped
    <2>1. <<c, "A">> \in probe[NodeOf[c]].rows
        BY <1>5 DEF PageInv, HeardInv
    <2> QED
        BY <1>4, <2>1
<1>13. AnswerInv'
    BY <1>1, <1>7, <1>10, <1>11, <1>12 DEF AnswerInv
<1> QED
    BY <1>1, <1>9, <1>13 DEF PageInv, CallsInv, HeardInv

LEMMA PageStep ==
    ASSUME PageInv, Page!Next
    PROVE  PageInv'
<1>1. DOMAIN probe = Node
    BY DEF PageInv, PageTyped
<1>2. CASE ~answer.sent /\ \E c \in Call : Page!Begin(c) \/ Page!End(c) \/ \E g \in Gateway : Page!Bridge(c, g)
    BY <1>2, PageCall
<1>3. CASE \E n \in DOMAIN probe : \/ Page!ShowChannels(n) \/ Page!LoseChannels(n)
                                   \/ \E ch \in Page!Channel : Page!Dump(n, ch) \/ Page!DumpLate(n, ch)
    BY <1>1, <1>3, PageShow, PageDump DEF Page!LoseChannels, Page!DumpLate, Page!Channel, Page!Leg, Legs
<1>4. CASE Page!Respond
    BY <1>4, PageRespond
<1> QED
    BY <1>2, <1>3, <1>4 DEF Page!Next

LEMMA PageTells ==
    PageInv => Page!TypeOK /\ Page!RowIsOwn /\ Page!SteadyCallIsTold /\ Page!MissedIsDegraded
<1> SUFFICES ASSUME PageInv PROVE Page!TypeOK /\ Page!RowIsOwn /\ Page!SteadyCallIsTold /\ Page!MissedIsDegraded
    OBVIOUS
<1>1. Page!TypeOK
    <2>1. \A n \in Node : probe[n].pc = "dump" => probe[n].todo \subseteq probe[n].rows /\ Len(probe[n].late) <= 1
        BY DEF PageInv, HeardInv, PageTyped, PageProbe
    <2> QED
        BY <2>1 DEF PageInv, PageTyped, Gateways, Legs, Page!TypeOK, Page!Leg
<1>2. Page!RowIsOwn
    <2> SUFFICES ASSUME NEW c \in Call
                 PROVE  /\ Page!Cardinality(Page!RowsOf(c)) <= 1
                        /\ \A r \in Page!RowsOf(c) : r.gw \in had[c] \cup {NoGateway}
        BY DEF Page!RowIsOwn
    <2>1. \A r, s \in Page!RowsOf(c) : r = s
        BY DEF PageInv, AnswerInv, Page!RowsOf
    <2>2. Page!RowsOf(c) = {} \/ \E r : Page!RowsOf(c) = {r}
        BY <2>1
    <2>3. Cardinality(Page!RowsOf(c)) <= 1
        <3>1. CASE Page!RowsOf(c) = {}
            BY <3>1, FS_EmptySet
        <3>2. ASSUME NEW r, Page!RowsOf(c) = {r} PROVE Cardinality(Page!RowsOf(c)) <= 1
            <4>1. Cardinality({r}) = 1
                BY FS_Singleton
            <4> QED
                BY <3>2, <4>1
        <3> QED
            BY <2>2, <3>1, <3>2
    <2>4. \A r \in Page!RowsOf(c) : r.gw \in had[c] \cup {NoGateway}
        BY DEF PageInv, AnswerInv, Page!RowsOf
    <2> QED
        BY <2>3, <2>4 DEF Page!Cardinality, Cardinality, Page!IsFiniteSet, IsFiniteSet
<1>3. Page!SteadyCallIsTold
    BY DEF PageInv, AnswerInv, Page!RowsOf, Page!SteadyCallIsTold
<1>4. Page!MissedIsDegraded
    BY DEF PageInv, AnswerInv, Page!RowsOf, Page!MissedIsDegraded
<1> QED
    BY <1>1, <1>2, <1>3, <1>4
-----------------------------------------------------------------------------
(* The same with replies that come late: what is said of a call may be another's, but the  *)
(* channels of a node are listed or the probe has failed.                                  *)

LateProbe ==
    [pc : {"channels", "failed"}]
        \cup [pc : {"dump"}, rows : SUBSET (LateCall \X Legs), todo : SUBSET (LateCall \X Legs),
              dumps : SUBSET ((LateCall \X Legs) \X Gateways), late : Seq(Gateways)]

LateTyped ==
    /\ legs \in [LateCall -> SUBSET Legs] /\ gw \in [LateCall -> Gateways]
    /\ up \in SUBSET Node /\ offline = {} /\ upAll \in SUBSET LateCall
    /\ probe \in [Node -> LateProbe]

LateInv ==
    /\ LateTyped
    /\ \A c \in LateCall :
        /\ legs[c] # {} => "A" \in legs[c]
        /\ c \in upAll => legs[c] # {} /\ LateNodeOf[c] \in up
    /\ \A n \in Node : \A c \in upAll :
        probe[n].pc = "dump" /\ LateNodeOf[c] = n => <<c, "A">> \in probe[n].rows
    /\ answer.sent /\ (\E c \in upAll : \A r \in answer.calls : r.call # c) => answer.degraded

LEMMA LateInit == Late!Init => LateInv
<1> SUFFICES ASSUME Late!Init PROVE LateInv
    OBVIOUS
<1>1. offline = {} /\ up \in SUBSET Node /\ upAll = {c \in LateCall : legs[c] # {} /\ LateNodeOf[c] \in up}
    BY DEF Late!Init
<1>2. legs \in [LateCall -> {{}, {"A"}, {"A", "B"}}] /\ gw \in [LateCall -> Gateways]
    BY DEF Late!Init, Gateways
<1>3. probe = [n \in Node |-> [pc |-> "channels"]]
    BY <1>1 DEF Late!Init
<1>4. ~answer.sent
    BY DEF Late!Init, Late!NoAnswer
<1>5. probe \in [Node -> LateProbe] /\ \A n \in Node : probe[n].pc # "dump"
    BY <1>3 DEF LateProbe
<1>6. legs \in [LateCall -> SUBSET Legs]
    BY <1>2 DEF Legs
<1>7. LateTyped
    BY <1>1, <1>2, <1>5, <1>6 DEF LateTyped
<1> QED
    BY <1>1, <1>2, <1>4, <1>5, <1>7 DEF LateInv

LEMMA LateStartOrEnd ==
    ASSUME LateInv, NEW c \in LateCall,
           ~answer.sent, Late!Begin(c) \/ Late!End(c) \/ \E g \in Gateway : Late!Bridge(c, g)
    PROVE  LateInv'
<1>1. UNCHANGED <<up, offline, probe, answer>>
    BY DEF Late!Begin, Late!End, Late!Bridge
<1>2. upAll' = upAll \ {c}
    BY DEF Late!Begin, Late!End, Late!Bridge, LateInv
<1>3. legs' = [legs EXCEPT ![c] = {}] \/ legs' = [legs EXCEPT ![c] = {"A"}] \/ legs' = [legs EXCEPT ![c] = {"A", "B"}]
    BY DEF Late!Begin, Late!End, Late!Bridge
<1>4. legs' \in [LateCall -> SUBSET Legs] /\ (legs'[c] # {} => "A" \in legs'[c]) /\ \A d \in LateCall \ {c} : legs'[d] = legs[d]
    BY <1>3 DEF LateInv, LateTyped, Legs
<1>5. PICK g \in Gateways : gw' = [gw EXCEPT ![c] = g] \/ gw' = gw
    BY DEF Late!Begin, Late!End, Late!Bridge, Gateways
<1>6. gw' \in [LateCall -> Gateways]
    BY <1>5 DEF LateInv, LateTyped
<1>7. LateTyped'
    BY <1>1, <1>2, <1>4, <1>6 DEF LateInv, LateTyped
<1> QED
    BY <1>1, <1>2, <1>4, <1>7 DEF LateInv

LEMMA LateShow ==
    ASSUME LateInv, NEW n \in Node, Late!ShowChannels(n) \/ Late!LoseChannels(n)
    PROVE  LateInv'
<1> DEFINE rows == Late!Channels(n)
<1> DEFINE p == [pc |-> "dump", rows |-> rows, todo |-> rows, dumps |-> {}, late |-> <<>>]
<1>1. UNCHANGED <<legs, gw, up, offline, answer, upAll, had>>
      /\ (probe' = [probe EXCEPT ![n] = p] \/ probe' = [probe EXCEPT ![n] = Late!Failed])
    BY DEF Late!ShowChannels, Late!LoseChannels
<1>2. rows \in SUBSET (LateCall \X Legs)
    BY DEF Late!Channels, Late!Channel, Late!Leg, Legs
<1>3. \A c \in upAll : LateNodeOf[c] = n => <<c, "A">> \in rows
    BY DEF LateInv, LateTyped, Late!Channels, Late!Channel, Late!Leg
<1> HIDE DEF rows
<1>4. p \in LateProbe /\ p.pc = "dump" /\ p.rows = rows
    <2>1. <<>> \in Seq(Gateways)
        OBVIOUS
    <2> QED
        BY <1>2, <2>1 DEF LateProbe
<1>5. Late!Failed \in LateProbe /\ Late!Failed.pc # "dump"
    BY DEF LateProbe, Late!Failed
<1> HIDE DEF p
<1>6. probe' \in [Node -> LateProbe] /\ (probe'[n] = p \/ probe'[n] = Late!Failed)
      /\ \A m \in Node \ {n} : probe'[m] = probe[m]
    BY <1>1, <1>4, <1>5 DEF LateInv, LateTyped
<1>7. LateTyped'
    BY <1>1, <1>6 DEF LateInv, LateTyped
<1> QED
    BY <1>1, <1>3, <1>4, <1>5, <1>6, <1>7 DEF LateInv

\* Whatever reply a channel gets, the rows of the probe stay.
LEMMA LateReply ==
    ASSUME LateInv, NEW n \in Node, NEW ch \in LateCall \X Legs, Late!Dump(n, ch) \/ Late!DumpLate(n, ch)
    PROVE  LateInv'
<1> DEFINE x == Late!DumpOf(ch)
<1>1. UNCHANGED <<legs, gw, up, offline, answer, upAll, had>> /\ probe[n].pc = "dump"
    BY DEF Late!Dump, Late!DumpLate
<1>2. probe[n] \in [pc : {"dump"}, rows : SUBSET (LateCall \X Legs), todo : SUBSET (LateCall \X Legs),
                    dumps : SUBSET ((LateCall \X Legs) \X Gateways), late : Seq(Gateways)]
    BY <1>1 DEF LateInv, LateTyped, LateProbe
<1>3. x \in Gateways
    <2>1. PICK c \in LateCall, l \in Legs : ch = <<c, l>>
        OBVIOUS
    <2>2. ch[1] \in LateCall
        BY <2>1
    <2> QED
        BY <2>2 DEF Late!DumpOf, LateInv, LateTyped, Gateways
<1> HIDE DEF x
<1> DEFINE late == probe[n].late
<1> DEFINE replies == Append(late, x)
<1>4. late \in Seq(Gateways)
    BY <1>2
<1> HIDE DEF late
<1>5. replies \in Seq(Gateways) /\ replies # <<>>
    BY <1>3, <1>4
<1> HIDE DEF replies
<1>6. Head(replies) \in Gateways /\ Tail(replies) \in Seq(Gateways)
    BY <1>5
<1>7. PICK p \in LateProbe : probe' = [probe EXCEPT ![n] = p] /\ p.pc = "dump" /\ p.rows = probe[n].rows
    <2>1. CASE Late!Dump(n, ch)
        <3> DEFINE h == Head(replies)
        <3> DEFINE t == Tail(replies)
        <3> DEFINE p == [probe[n] EXCEPT !.todo = @ \ {ch}, !.late = t, !.dumps = @ \cup {<<ch, h>>}]
        <3>1. probe' = [probe EXCEPT ![n] = p]
            BY <2>1 DEF Late!Dump, x, replies, late
        <3>2. <<ch, h>> \in (LateCall \X Legs) \X Gateways /\ t \in Seq(Gateways)
            BY <1>6
        <3> HIDE DEF h, t
        <3>3. p \in LateProbe /\ p.pc = "dump" /\ p.rows = probe[n].rows
            BY <1>2, <3>2 DEF LateProbe
        <3> QED
            BY <3>1, <3>3
    <2>2. CASE Late!DumpLate(n, ch)
        <3> DEFINE p == [probe[n] EXCEPT !.todo = @ \ {ch}, !.late = replies]
        <3>1. probe' = [probe EXCEPT ![n] = p]
            BY <2>2 DEF Late!DumpLate, x, replies, late
        <3>2. p \in LateProbe /\ p.pc = "dump" /\ p.rows = probe[n].rows
            BY <1>2, <1>5 DEF LateProbe
        <3> QED
            BY <3>1, <3>2
    <2> QED
        BY <2>1, <2>2
<1>8. probe' \in [Node -> LateProbe] /\ probe'[n] = p /\ \A m \in Node \ {n} : probe'[m] = probe[m]
    BY <1>7 DEF LateInv, LateTyped
<1>9. LateTyped'
    BY <1>1, <1>8 DEF LateInv, LateTyped
<1> QED
    BY <1>1, <1>7, <1>8, <1>9 DEF LateInv

LEMMA LateMerges ==
    ASSUME NEW p
    PROVE  \A ch \in p.rows : \E r \in Late!MergeCalls(p) : r.call = ch[1]
<1> DEFINE merged(c) == [call |-> c, leg |-> IF <<c, "A">> \in p.rows THEN "A" ELSE "B", gw |-> Late!GatewayOf(p, c)]
<1>1. Late!MergeCalls(p) = {merged(c) : c \in {ch[1] : ch \in p.rows}}
    BY DEF Late!MergeCalls
<1>2. \A ch \in p.rows : merged(ch[1]) \in Late!MergeCalls(p) /\ merged(ch[1]).call = ch[1]
    BY <1>1
<1> QED
    BY <1>2

LEMMA LateRespond ==
    ASSUME LateInv, Late!Respond
    PROVE  LateInv'
<1> DEFINE said == {n \in Node : probe[n] # Late!Failed}
<1> DEFINE calls == UNION {Late!MergeCalls(probe[n]) : n \in said}
<1>1. /\ UNCHANGED <<legs, gw, up, offline, probe, upAll>>
      /\ \A n \in Node : probe[n] = Late!Failed \/ (probe[n].pc = "dump" /\ probe[n].todo = {})
      /\ answer' = [calls |-> calls, degraded |-> Late!Degraded(probe), sent |-> TRUE]
    BY DEF Late!Respond, LateInv, LateTyped
<1>2. Late!Degraded(probe) <=> \E n \in Node : probe[n] = Late!Failed
    BY DEF Late!Degraded, LateInv, LateTyped
<1>3. \A n \in said : \A ch \in probe[n].rows : \E r \in calls : r.call = ch[1]
    BY LateMerges
<1> HIDE DEF calls
<1>4. (\E c \in upAll : \A r \in calls : r.call # c) => \E n \in Node : probe[n] = Late!Failed
    <2> SUFFICES ASSUME NEW c \in upAll, \A r \in calls : r.call # c, LateNodeOf[c] \in said PROVE FALSE
        BY CallsAssumption DEF Late!LiveCallsConstants, LateInv, LateTyped
    <2>1. <<c, "A">> \in probe[LateNodeOf[c]].rows
        BY <1>1 DEF LateInv
    <2> QED
        BY <1>3, <2>1
<1>5. answer'.calls = calls /\ (answer'.degraded <=> \E n \in Node : probe[n] = Late!Failed)
    BY <1>1, <1>2
<1>6. LateTyped'
    BY <1>1 DEF LateInv, LateTyped
<1> QED
    BY <1>1, <1>4, <1>5, <1>6 DEF LateInv

LEMMA LateStep ==
    ASSUME LateInv, Late!Next
    PROVE  LateInv'
<1>1. DOMAIN probe = Node
    BY DEF LateInv, LateTyped
<1>2. CASE ~answer.sent /\ \E c \in LateCall : Late!Begin(c) \/ Late!End(c) \/ \E g \in Gateway : Late!Bridge(c, g)
    BY <1>2, LateStartOrEnd
<1>3. CASE \E n \in DOMAIN probe : \/ Late!ShowChannels(n) \/ Late!LoseChannels(n)
                                   \/ \E ch \in Late!Channel : Late!Dump(n, ch) \/ Late!DumpLate(n, ch)
    BY <1>1, <1>3, LateShow, LateReply DEF Late!Channel, Late!Leg, Legs
<1>4. CASE Late!Respond
    BY <1>4, LateRespond
<1> QED
    BY <1>2, <1>3, <1>4 DEF Late!Next

\* The answer never makes up a call or a gateway, tells what nothing happened to, and is
\* degraded when it misses a call, for any nodes, calls and gateways and late replies.
THEOREM LiveCallsAlwaysTold == Spec => []LiveCallsAreTold
<1> DEFINE Inv == (scenario = "page" => PageInv) /\ (scenario = "late" => LateInv)
<1>1. Init => Inv
    BY PageInit, LateInit DEF Init
<1>2. Inv /\ [Next]_vars => Inv'
    <2> SUFFICES ASSUME Inv, [Next]_vars PROVE Inv'
        OBVIOUS
    <2>1. scenario' = scenario
        BY DEF Next, vars
    <2>2. ASSUME scenario = "page" PROVE PageInv'
        <3>1. CASE Page!Next
            BY <2>2, <3>1, PageStep
        <3>2. CASE UNCHANGED callVars
            BY <2>2, <3>2 DEF callVars, PageInv, PageTyped, CallsInv, HeardInv, AnswerInv
        <3> QED
            BY <2>2, <3>1, <3>2 DEF Next, vars
    <2>3. ASSUME scenario = "late" PROVE LateInv'
        <3>1. CASE Late!Next
            BY <2>3, <3>1, LateStep
        <3>2. CASE UNCHANGED callVars
            BY <2>3, <3>2 DEF callVars, LateInv, LateTyped
        <3> QED
            BY <2>3, <3>1, <3>2 DEF Next, vars
    <2> QED
        BY <2>1, <2>2, <2>3
<1>3. Inv => LiveCallsAreTold
    <2>1. LateInv => Late!MissedIsDegraded
        BY DEF LateInv, Late!RowsOf, Late!MissedIsDegraded
    <2> QED
        BY <2>1, PageTells DEF LiveCallsAreTold
<1> QED
    BY <1>1, <1>2, <1>3, PTL DEF Spec
=============================================================================
