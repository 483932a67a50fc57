---------------------------- MODULE GatewayState ----------------------------
(***************************************************************************)
(* The registration status of the gateways that register with a carrier    *)
(* (auth_type 1): the events of FreeSWITCH, the alignment a process makes  *)
(* once after its start, and the form that turns a gateway into one that   *)
(* does not register.                                                      *)
(*                                                                         *)
(* A definition named X_Something is X with a plausible bug, kept to show  *)
(* which property finds it; no specification uses it.                      *)
(***************************************************************************)
EXTENDS Integers, SequencesExt

CONSTANTS
    Gateway,
    FsState,      \* the states a gateway is seen in
    Attempts,     \* snapshots the alignment tries to take
    JustStarted,  \* does the model begin with a process that starts
    Edits,        \* may the form change auth_type
    MaxMoves,     \* bound: moves of FreeSWITCH and edits
    MaxFaults     \* bound: restarts, lost events, failed writes

GatewayStateConstants ==
    /\ Attempts \in Nat \ {0} /\ JustStarted \in BOOLEAN /\ Edits \in BOOLEAN
    /\ MaxMoves \in Nat /\ MaxFaults \in Nat

VARIABLES
    fs, held,     \* the state of a gateway in FreeSWITCH, and the auth_type it was loaded with
    stale,        \* gateways changed since FreeSWITCH loaded them
    auth, row,    \* auth_type and register_status
    events,       \* sofia::gateway_state events on their way to the worker
    apply,        \* the write the worker, and the alignment, is at
    start,        \* the alignment: attempts left, snapshot, gateways still to do
    moves, faults,
    quiet         \* history: gateways nothing moved, edited or reported since the snapshot

vars == <<fs, held, stale, auth, row, events, apply, start, moves, faults, quiet>>

Writer == {"worker", "start"}
None == [st |-> -1]
Over == [pc |-> "over"]
Begun == [pc |-> "wait", left |-> Attempts]

STATE_MAP == [
    REGED |-> 1,
    TRYING |-> 2, REGISTER |-> 2, PROGRESS |-> 2,
    NOREG |-> 0, UNREGED |-> 0, UNREGISTER |-> 0, EXPIRED |-> 0, DOWN |-> 0,
    FAIL_WAIT |-> 3, FAILED |-> 3, FAIL |-> 3, TIMEOUT |-> 3, REJECT |-> 3]

\* A state that is not in the table is not written.
map_state(s) == IF s \in DOMAIN STATE_MAP THEN STATE_MAP[s] ELSE -1

Init ==
    /\ fs \in [Gateway -> FsState] /\ held = [g \in Gateway |-> 1] /\ stale = {}
    /\ auth = [g \in Gateway |-> 1] /\ events = <<>>
    /\ IF JustStarted THEN start = Begun /\ row = [g \in Gateway |-> 0]
                      ELSE start = Over /\ row = [g \in Gateway |-> IF map_state(fs[g]) = -1 THEN 0 ELSE map_state(fs[g])]
    /\ apply = [w \in Writer |-> None]
    /\ moves = 0 /\ faults = 0 /\ quiet = {}
-----------------------------------------------------------------------------
(* FreeSWITCH and the form. *)

Moved == moves < MaxMoves /\ moves' = moves + 1

\* An event tells each change of state.
FsMoves(g, s) ==
    /\ Moved /\ held[g] = 1 /\ s # fs[g] /\ fs' = [fs EXCEPT ![g] = s]
    /\ events' = Append(events, [gw |-> g, state |-> s])
    /\ quiet' = quiet \ {g}
    /\ UNCHANGED <<held, stale, auth, row, apply, start, faults>>

\* FreeSWITCH kills and loads again a gateway that was changed.
FsReloads(g) ==
    /\ g \in stale /\ stale' = stale \ {g}
    /\ held' = [held EXCEPT ![g] = auth[g]] /\ fs' = [fs EXCEPT ![g] = "NOREG"]
    /\ events' = IF held[g] = 1 THEN Append(events, [gw |-> g, state |-> "DOWN"]) ELSE events
    /\ quiet' = quiet \ {g}
    /\ UNCHANGED <<auth, row, apply, start, moves, faults>>

\* _sync_gateway_node: what no longer registers is shown as not registered.
ToPeer(g) ==
    /\ Edits /\ Moved /\ auth[g] = 1 /\ auth' = [auth EXCEPT ![g] = 0]
    /\ row' = [row EXCEPT ![g] = 0] /\ stale' = stale \cup {g}
    /\ quiet' = quiet \ {g}
    /\ UNCHANGED <<fs, held, events, apply, start, faults>>

ToRegister(g) ==
    /\ Edits /\ Moved /\ auth[g] = 0 /\ auth' = [auth EXCEPT ![g] = 1] /\ stale' = stale \cup {g}
    /\ quiet' = quiet \ {g}
    /\ UNCHANGED <<fs, held, row, events, apply, start, faults>>

Fault == faults < MaxFaults /\ faults' = faults + 1

LoseEvent ==
    /\ Fault /\ events # <<>> /\ events' = Tail(events)
    /\ UNCHANGED <<fs, held, stale, auth, row, apply, start, moves, quiet>>

Restart ==
    /\ Fault /\ events' = <<>> /\ apply' = [w \in Writer |-> None] /\ start' = Begun
    /\ UNCHANGED <<fs, held, stale, auth, row, moves, quiet>>
-----------------------------------------------------------------------------
(* apply_state: both sources write through it. *)

\* What is read of the row: a state that is known, of a gateway that registers, that differs.
ToWrite(g, s) == IF map_state(s) # -1 /\ auth[g] = 1 /\ row[g] # map_state(s)
                 THEN [gw |-> g, st |-> map_state(s)] ELSE None

HandleEvent ==
    /\ events # <<>> /\ apply["worker"] = None
    /\ apply' = [apply EXCEPT !["worker"] = ToWrite(Head(events).gw, Head(events).state)]
    /\ events' = Tail(events)
    /\ UNCHANGED <<fs, held, stale, auth, row, start, moves, faults, quiet>>

\* The status is written by the key of the row, whatever the row has become.
ApplyCommit(w) ==
    /\ apply[w] # None /\ apply' = [apply EXCEPT ![w] = None]
    /\ row' = [row EXCEPT ![apply[w].gw] = apply[w].st]
    /\ UNCHANGED <<fs, held, stale, auth, events, start, moves, faults, quiet>>

\* A failed write is rolled back; the alignment gives up the gateways after it.
ApplyFail(w) ==
    /\ Fault /\ apply[w] # None /\ apply' = [apply EXCEPT ![w] = None]
    /\ start' = IF w = "start" THEN Over ELSE start
    /\ UNCHANGED <<fs, held, stale, auth, row, events, moves, quiet>>
-----------------------------------------------------------------------------
(* start_gateway_state_sync, reconcile_once. *)

\* The snapshot is taken, or FreeSWITCH does not answer yet.
Snapshot ==
    /\ start.pc = "wait"
    /\ \/ start' = [pc |-> "apply", seen |-> fs, todo |-> Gateway]
       \/ start' = IF start.left = 1 THEN Over ELSE [start EXCEPT !.left = @ - 1]
    /\ quiet' = {g \in Gateway \ stale :
                   /\ \A e \in ToSet(events) : e.gw # g
                   /\ apply["worker"] = None \/ apply["worker"].gw # g}
    /\ UNCHANGED <<fs, held, stale, auth, row, events, apply, moves, faults>>

\* The code of a gateway that is not registered, 0, is taken for no state.
X_Align(g) ==
    /\ start.pc = "apply" /\ apply["start"] = None /\ g \in start.todo
    /\ apply' = [apply EXCEPT !["start"] = IF map_state(start.seen[g]) = 0 THEN None ELSE ToWrite(g, start.seen[g])]
    /\ start' = [start EXCEPT !.todo = @ \ {g}]
    /\ UNCHANGED <<fs, held, stale, auth, row, events, moves, faults, quiet>>

Align(g) ==
    /\ start.pc = "apply" /\ apply["start"] = None /\ g \in start.todo
    /\ apply' = [apply EXCEPT !["start"] = ToWrite(g, start.seen[g])]
    /\ start' = [start EXCEPT !.todo = @ \ {g}]
    /\ UNCHANGED <<fs, held, stale, auth, row, events, moves, faults, quiet>>

Aligned ==
    /\ start.pc = "apply" /\ apply["start"] = None /\ start.todo = {} /\ start' = Over
    /\ UNCHANGED <<fs, held, stale, auth, row, events, apply, moves, faults, quiet>>

Worker == HandleEvent \/ ApplyCommit("worker")
Starter == Snapshot \/ Aligned \/ ApplyCommit("start") \/ \E g \in Gateway : Align(g)

Next ==
    \/ Worker \/ Starter
    \/ \E g \in Gateway : FsReloads(g) \/ ToPeer(g) \/ ToRegister(g) \/ \E s \in FsState : FsMoves(g, s)
    \/ LoseEvent \/ Restart \/ \E w \in Writer : ApplyFail(w)

\* Both threads run as long as the process does.
Spec == Init /\ [][Next]_vars /\ WF_vars(Worker) /\ WF_vars(Starter)
-----------------------------------------------------------------------------
\* The rows hold a status code, the threads a write and gateways of the table.
TypeOK ==
    /\ row \in [Gateway -> 0 .. 3] /\ auth \in [Gateway -> {0, 1}] /\ held \in [Gateway -> {0, 1}]
    /\ fs \in [Gateway -> FsState \cup {"NOREG"}] /\ stale \subseteq Gateway
    /\ \A w \in Writer : apply[w] = None \/ (apply[w].gw \in Gateway /\ apply[w].st \in 0 .. 3)
    /\ start = Over \/ (start.pc = "wait" /\ start.left \in 1 .. Attempts)
        \/ (start.pc = "apply" /\ start.todo \subseteq Gateway)
    /\ \A e \in ToSet(events) : e.gw \in Gateway

\* A gateway whose registration stays as it is is shown so for good, events and alignment
\* both writing through apply_state (gw_state.py:22).
SteadyGatewayIsShown ==
    \A g \in Gateway : \A s \in FsState \cap DOMAIN STATE_MAP :
        <>[](auth[g] = 1 /\ g \notin stale /\ fs[g] = s) => <>[](row[g] = STATE_MAP[s])

\* At the end of an alignment each gateway nothing happened to meanwhile is shown as
\* FreeSWITCH has it, whatever a lost event or a failed write had left in its row.
AlignmentTells ==
    start.pc = "apply" /\ start.todo = {} /\ apply["start"] = None =>
        \A g \in quiet : auth[g] = 1 /\ fs[g] \in DOMAIN STATE_MAP => row[g] = STATE_MAP[fs[g]]
-----------------------------------------------------------------------------
(* Said of the code and refuted by this model; the README tells how. *)

\* A gateway that does not register is shown as not registered (models.py:114).
PeerIsUnregistered == \A g \in Gateway : auth[g] = 0 => row[g] = 0
=============================================================================
