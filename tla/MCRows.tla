------------------------------- MODULE MCRows -------------------------------
(* An instance of CdrBook and instances of PhoneSync, GatewayState and      *)
(* GatewayHeartbeat: rows of the database that several threads write.  They *)
(* share no state, so that a behaviour is one of an instance, and the       *)
(* others rest.                                                             *)
EXTENDS CdrBook

CONSTANTS c1, s1, s2, n1, n2, u1, u2, g1, g2

VARIABLES
    scenario,                   \* the instance
    reg, phEvents, phStatus, phSync, phMoves, phFaults,
    fs, held, stale, auth, gwRow, events, apply, start, moves, gwFaults, quiet,
    alive, status, count, prober, told, failures

\* Two users of one node.
Phones == INSTANCE PhoneSync WITH
    Node <- {n1}, User <- {u1, u2}, PartOf <- {}, MaxMoves <- 5, MaxFaults <- 3,
    events <- phEvents, status <- phStatus, sync <- phSync, moves <- phMoves, faults <- phFaults

\* Two gateways that register, in every code and in a state that is not in the table.
Regs == INSTANCE GatewayState WITH
    Gateway <- {g1, g2}, FsState <- {"REGED", "TRYING", "DOWN", "FAIL_WAIT", "UNHEARD_OF"},
    Attempts <- 2, JustStarted <- FALSE, Edits <- TRUE, MaxMoves <- 3, MaxFaults <- 0,
    row <- gwRow, faults <- gwFaults

\* Two probers of one gateway.
Beat == INSTANCE GatewayHeartbeat WITH Node <- {n1, n2}, FAIL_THRESHOLD <- 3, MaxCount <- 5

ASSUME Phones!PhoneSyncConstants /\ Regs!GatewayStateConstants /\ Beat!GatewayHeartbeatConstants

Book == vars
phoneVars == <<reg, phEvents, phStatus, phSync, phMoves, phFaults>>
regVars == <<fs, held, stale, auth, gwRow, events, apply, start, moves, gwFaults, quiet>>
beatVars == <<alive, status, count, prober, told, failures>>
rowVars == <<scenario, Book, phoneVars, regVars, beatVars>>

RowsInit ==
    /\ scenario \in {"calls", "phones", "gateways", "probers"}
    /\ Init /\ Phones!Init /\ Regs!Init /\ Beat!Init
    /\ scenario # "gateways" => fs = [g \in {g1, g2} |-> "REGED"]

RestButCalls == UNCHANGED <<scenario, phoneVars, regVars, beatVars>>
RestButPhones == UNCHANGED <<scenario, Book, regVars, beatVars>>
RestButRegs == UNCHANGED <<scenario, Book, phoneVars, beatVars>>
RestButBeat == UNCHANGED <<scenario, Book, phoneVars, regVars>>

RowsNext ==
    \/ scenario = "calls" /\ Next /\ RestButCalls
    \/ scenario = "phones" /\ Phones!Next /\ RestButPhones
    \/ scenario = "gateways" /\ Regs!Next /\ RestButRegs
    \/ scenario = "probers" /\ Beat!Next /\ RestButBeat

\* The fairness of each instance is that of its module.  The scenario never changes, so
\* that one conjunct serves a thread of each.
OneThread ==
    \/ scenario = "calls" /\ Writer /\ RestButCalls
    \/ scenario = "phones" /\ Phones!HandleSofiaReg(n1) /\ RestButPhones
    \/ scenario = "gateways" /\ Regs!Worker /\ RestButRegs
    \/ scenario = "probers" /\ (Beat!Read(n1) \/ Beat!Probe(n1) \/ Beat!Commit(n1)) /\ RestButBeat

AnotherThread ==
    \/ scenario = "calls" /\ Reaper /\ RestButCalls
    \/ scenario = "phones" /\ Phones!Poll(n1) /\ RestButPhones
    \/ scenario = "gateways" /\ Regs!Starter /\ RestButRegs
    \/ scenario = "probers" /\ (Beat!Read(n2) \/ Beat!Probe(n2) \/ Beat!Commit(n2)) /\ RestButBeat

RowsFairness ==
    /\ WF_rowVars(OneThread) /\ WF_rowVars(AnotherThread)
    /\ WF_rowVars(scenario = "calls" /\ DbBack /\ RestButCalls)
    /\ \A s \in Sweeper : /\ WF_rowVars(scenario = "calls" /\ Select(s) /\ RestButCalls)
                          /\ WF_rowVars(scenario = "calls" /\ Charge(s) /\ RestButCalls)

RowsSpec == RowsInit /\ [][RowsNext]_rowVars /\ RowsFairness
-----------------------------------------------------------------------------
(* Properties, beside those of CdrBook. *)

\* A user that stays registered is shown online for good and one that stays away offline,
\* whatever events were lost and however polls and events interleaved (models.py:325); so
\* are gateways whose registration stays as it is (gw_state.py:22), and one whose answers
\* to probes do, whatever two probers overwrite of each other.
SteadyIsShown ==
    Phones!SteadyUserIsShown /\ Regs!SteadyGatewayIsShown /\ Beat!SteadyGatewayIsShown
=============================================================================
