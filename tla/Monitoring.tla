----------------------------- MODULE Monitoring -----------------------------
(***************************************************************************)
(* NodeHealth, GatewayHeartbeat, GatewayState and LiveCalls beside each    *)
(* other: what is shown of nodes, gateways and calls.  A behaviour is one  *)
(* of an instance, and the others rest.                                    *)
(***************************************************************************)
EXTENDS Integers

CONSTANTS
    HealthNode, FAIL_THRESHOLD, STALE, MaxTrouble, MaxAge,      \* node health
    Prober, MaxCount,                                           \* gateway heartbeat
    Gateway, FsState, Attempts, MaxGwMoves, MaxFaults,          \* gateway registration state
    Node, Call, NodeOf,                                         \* live calls: of the instance "page",
    LateCall, LateNodeOf,                                       \* and of the instance "late"
    NoGateway, MAX_CHANNELS, MaxMoves

VARIABLES
    scenario,                   \* the instance
    process, fs, status, count, age, told, job, trouble, steady, running,
    alive, gwStatus, failCount, prober, alerted, failures,
    gwFs, held, stale, auth, row, events, apply, start, gwMoves, faults, quiet,
    legs, gw, up, offline, probe, answer, moves, upAll, had

\* Nodes sweep each other; processes and FreeSWITCHes fail and are repaired.
Health == INSTANCE NodeHealth WITH Node <- HealthNode, Overloads <- TRUE, Crashes <- TRUE

\* One prober of one gateway.
Beat == INSTANCE GatewayHeartbeat WITH
    Node <- {Prober}, status <- gwStatus, count <- failCount, told <- alerted

\* The gateways of a process that starts.
Align == INSTANCE GatewayState WITH
    JustStarted <- TRUE, Edits <- TRUE, MaxMoves <- MaxGwMoves, fs <- gwFs, moves <- gwMoves

\* A page of the calls of the nodes; every reply comes in time.
Page == INSTANCE LiveCalls WITH SomeOffline <- FALSE, LateReplies <- FALSE, steady <- upAll

\* A reply may come after its timeout.
Late == INSTANCE LiveCalls WITH
    Call <- LateCall, NodeOf <- LateNodeOf, SomeOffline <- FALSE, LateReplies <- TRUE, steady <- upAll

ASSUME HealthAssumption == Health!NodeHealthConstants
ASSUME BeatAssumption == Beat!GatewayHeartbeatConstants
ASSUME AlignAssumption == Align!GatewayStateConstants
ASSUME CallsAssumption == Page!LiveCallsConstants /\ Late!LiveCallsConstants

healthVars == <<process, fs, status, count, age, told, job, trouble, steady, running>>
beatVars == <<alive, gwStatus, failCount, prober, alerted, failures>>
alignVars == <<gwFs, held, stale, auth, row, events, apply, start, gwMoves, faults, quiet>>
callVars == <<legs, gw, up, offline, probe, answer, moves, upAll, had>>
vars == <<scenario, healthVars, beatVars, alignVars, callVars>>

AlignRests ==
    /\ gwFs = 0 /\ held = 0 /\ stale = 0 /\ auth = 0 /\ row = 0 /\ events = 0 /\ apply = 0
    /\ start = 0 /\ gwMoves = 0 /\ faults = 0 /\ quiet = 0

CallsRest ==
    /\ legs = 0 /\ gw = 0 /\ up = 0 /\ offline = 0 /\ probe = 0 /\ answer = 0 /\ moves = 0
    /\ upAll = 0 /\ had = 0

Init ==
    /\ Health!Init /\ Beat!Init
    /\ \/ scenario \in {"health", "beat"} /\ AlignRests /\ CallsRest
       \/ scenario = "align" /\ Align!Init /\ CallsRest
       \/ scenario = "page" /\ AlignRests /\ Page!Init
       \/ scenario = "late" /\ AlignRests /\ Late!Init

Next ==
    \/ scenario = "health" /\ Health!Next /\ UNCHANGED <<scenario, beatVars, alignVars, callVars>>
    \/ scenario = "beat" /\ Beat!Next /\ UNCHANGED <<scenario, healthVars, alignVars, callVars>>
    \/ scenario = "align" /\ Align!Next /\ UNCHANGED <<scenario, healthVars, beatVars, callVars>>
    \/ scenario = "page" /\ Page!Next /\ UNCHANGED <<scenario, healthVars, beatVars, alignVars>>
    \/ scenario = "late" /\ Late!Next /\ UNCHANGED <<scenario, healthVars, beatVars, alignVars>>

Spec == Init /\ [][Next]_vars
-----------------------------------------------------------------------------
(* Properties. *)

\* A node that has run for three intervals on end is not shown offline, whoever swept it
\* and whatever that overwrote; one whose heartbeats ended is shown offline once another
\* process has run for two intervals since they were too old.
SteadyNodeIsOnline ==
    scenario = "health" => Health!TypeOK /\ Health!SteadyNodeIsOnline /\ Health!SilentNodeIsOffline

\* heartbeat.py: a gateway goes down only after FAIL_THRESHOLD probes that failed in a row,
\* and any that succeeds begins anew; between two rounds the latest alert tells its status.
DownOnlyAfterFailures ==
    /\ Beat!DownOnlyAfterFailures
    /\ [](scenario = "beat" => Beat!AlertTellsStatus)

\* At the end of an alignment each gateway nothing happened to meanwhile is shown as
\* FreeSWITCH has it, whatever a lost event or a failed write had left in its row.
AlignmentTells == scenario = "align" => Align!TypeOK /\ Align!AlignmentTells

\* A call is one row, never one per leg, with a gateway the call has had, and with its own
\* if nothing happened to it (live_calls.py:26-33); a call that was there all the time and
\* is missing makes the answer degraded (live_calls.py:442-443), late replies or not.
LiveCallsAreTold ==
    /\ scenario = "page" => /\ Page!TypeOK /\ Page!RowIsOwn
                            /\ Page!SteadyCallIsTold /\ Page!MissedIsDegraded
    /\ scenario = "late" => Late!MissedIsDegraded
=============================================================================
