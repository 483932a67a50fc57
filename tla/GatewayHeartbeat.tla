-------------------------- MODULE GatewayHeartbeat --------------------------
(***************************************************************************)
(* Heartbeats of one landing gateway.  The prober thread of every node     *)
(* reads the row, sends an OPTIONS, and writes back what changed of what   *)
(* it read; the row decides whether calls are routed to the gateway.       *)
(*                                                                         *)
(* A definition named X_Something is X with a plausible bug, kept to show  *)
(* which property finds it; no specification uses it.                      *)
(***************************************************************************)
EXTENDS Integers

CONSTANTS
    Node,
    FAIL_THRESHOLD,
    MaxCount        \* bound: failures are counted no further

GatewayHeartbeatConstants == FAIL_THRESHOLD \in Nat \ {0} /\ MaxCount \in Nat /\ MaxCount > FAIL_THRESHOLD

VARIABLES
    alive,          \* does the gateway answer
    status, count,  \* heartbeat_status and heartbeat_fail_count of the row
    prober,         \* where each prober is, what it read and what its probe found
    told,           \* the latest alert of the gateway in operation_log
    failures        \* history: probes that failed since one succeeded

vars == <<alive, status, count, prober, told, failures>>

Idle == [pc |-> "idle"]
Up == 1
Down == 0

Counted(n) == IF n < MaxCount THEN n + 1 ELSE n

Init ==
    /\ alive = TRUE /\ status = Up /\ count = 0
    /\ prober = [n \in Node |-> Idle]
    /\ told = "none" /\ failures = 0

Read(n) ==
    /\ prober[n].pc = "idle"
    /\ prober' = [prober EXCEPT ![n] = [pc |-> "probe", status |-> status, count |-> count]]
    /\ UNCHANGED <<alive, status, count, told, failures>>

Probe(n) ==
    /\ prober[n].pc = "probe"
    /\ prober' = [prober EXCEPT ![n] =
                    [pc |-> "found", status |-> @.status, count |-> @.count, answered |-> alive]]
    /\ failures' = IF alive THEN 0 ELSE Counted(failures)
    /\ UNCHANGED <<alive, status, count, told>>

\* Only columns that differ from what was read are written.
Write(was, now) ==
    /\ status' = IF now.status = was.status THEN status ELSE now.status
    /\ count' = IF now.count = was.count THEN count ELSE now.count

\* The count is kept as long as the gateway is up.
X_AfterAnswer(was) == [status |-> Up, count |-> IF was.status = Up THEN was.count ELSE 0]

AfterAnswer(was) == [status |-> Up, count |-> 0]

\* Only the failure that reaches the threshold takes the gateway down.
X_AfterSilence(was) ==
    LET c == Counted(was.count)
    IN  [status |-> IF c = FAIL_THRESHOLD THEN Down ELSE was.status, count |-> c]

AfterSilence(was) ==
    LET c == Counted(was.count)
    IN  [status |-> IF c >= FAIL_THRESHOLD THEN Down ELSE was.status, count |-> c]

\* The alert is committed before the row; a repeat of the latest one is not written.
Alert(was, now) ==
    told' = CASE now.status = Down /\ was.status # Down -> "down"
              [] now.status = Up /\ now.count = 0 /\ (was.status # Up \/ was.count # 0) -> "up"
              [] OTHER -> told

Commit(n) ==
    /\ prober[n].pc = "found"
    /\ LET was == prober[n]
           now == IF was.answered THEN AfterAnswer(was) ELSE AfterSilence(was)
       IN  Write(was, now) /\ Alert(was, now)
    /\ prober' = [prober EXCEPT ![n] = Idle]
    /\ UNCHANGED <<alive, failures>>

Flip == alive' = ~alive /\ UNCHANGED <<status, count, prober, told, failures>>

Next == Flip \/ \E n \in Node : Read(n) \/ Probe(n) \/ Commit(n)

\* The loop of a prober catches every exception and never ends.
Fairness == \A n \in Node : WF_vars(Read(n) \/ Probe(n) \/ Commit(n))

Spec == Init /\ [][Next]_vars /\ Fairness
-----------------------------------------------------------------------------
(* Properties. *)

TypeOK ==
    /\ alive \in BOOLEAN /\ status \in {Up, Down} /\ count \in 0..MaxCount
    /\ \A n \in Node : prober[n].pc \in {"idle", "probe", "found"}
    /\ told \in {"none", "up", "down"} /\ failures \in 0..MaxCount

\* heartbeat.py: a gateway goes down only after FAIL_THRESHOLD probes that failed in a
\* row, and any that succeeds begins anew.
DownOnlyAfterFailures == [][status = Up /\ status' = Down => failures >= FAIL_THRESHOLD]_vars

\* The latest alert tells the status, between two rounds.
AlertTellsStatus ==
    (\A n \in Node : prober[n].pc = "idle") =>
        /\ status = Down => told = "down"
        /\ status = Up => told # "down"

\* Whatever the probers overwrite of each other, a gateway that stays as it is comes to
\* be shown that way.
SteadyGatewayIsShown ==
    /\ <>[]alive => <>[](status = Up)
    /\ <>[](~alive) => <>[](status = Down)
-----------------------------------------------------------------------------
(* Said of the code and refuted by this model; the README tells how. *)

\* heartbeat.py, alerting.py: an alert is written when a gateway goes up or down, so that
\* the latest comes to tell how a steady gateway is.
SteadyGatewayIsAlerted ==
    /\ <>[]alive => <>[](told # "down")
    /\ <>[](~alive) => <>[](told = "down")
=============================================================================
