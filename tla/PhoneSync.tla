----------------------------- MODULE PhoneSync -----------------------------
(***************************************************************************)
(* The registration status of the users that register with FreeSWITCH: the *)
(* phones of sip_phone and the access points of access_point.  Two writers *)
(* set it: the event worker of each node and the poll of each node's       *)
(* phone_sync thread, all on the one database.                             *)
(***************************************************************************)
EXTENDS Integers, SequencesExt

CONSTANTS
    Node, User,
    PartOf,       \* pairs <<u, v>>: the number of u is part of the text of a registration of v
    MaxMoves,     \* bound: registrations, expiries and unregistrations
    MaxFaults     \* bound: lost events, failed snapshots and commits, restarts

PhoneSyncConstants ==
    /\ PartOf \subseteq User \X User /\ MaxMoves \in Nat /\ MaxFaults \in Nat

VARIABLES
    reg,      \* users registered with the FreeSWITCH of a node
    events,   \* sofia::register and sofia::expire on their way to a node's worker
    status,   \* status and reg_status of the rows
    sync,     \* what each phone_sync thread is at
    moves, faults

vars == <<reg, events, status, sync, moves, faults>>

Idle == [pc |-> "idle"]

Init ==
    /\ reg = [n \in Node |-> {}] /\ events = [n \in Node |-> <<>>]
    /\ status = [u \in User |-> 0] /\ sync = [n \in Node |-> Idle]
    /\ moves = 0 /\ faults = 0
-----------------------------------------------------------------------------
(* FreeSWITCH: a user registers with the node its client points to. *)

Moved == moves < MaxMoves /\ moves' = moves + 1

Register(n, u) ==
    /\ Moved /\ u \notin reg[n]
    /\ reg' = [reg EXCEPT ![n] = @ \cup {u}]
    /\ events' = [events EXCEPT ![n] = Append(@, [sub |-> "register", user |-> u])]
    /\ UNCHANGED <<status, sync, faults>>

Expire(n, u) ==
    /\ Moved /\ u \in reg[n]
    /\ reg' = [reg EXCEPT ![n] = @ \ {u}]
    /\ events' = [events EXCEPT ![n] = Append(@, [sub |-> "expire", user |-> u])]
    /\ UNCHANGED <<status, sync, faults>>

\* sofia::unregister is not subscribed to.
Unregister(n, u) ==
    /\ Moved /\ u \in reg[n]
    /\ reg' = [reg EXCEPT ![n] = @ \ {u}]
    /\ UNCHANGED <<events, status, sync, faults>>

Fault == faults < MaxFaults /\ faults' = faults + 1

\* The socket of the reader is down, or its queue full.
LoseEvent(n) ==
    /\ Fault /\ events[n] # <<>> /\ events' = [events EXCEPT ![n] = Tail(@)]
    /\ UNCHANGED <<reg, status, sync, moves>>

\* Events of a stopped process are lost, its poll ends where it is.
Restart(n) ==
    /\ Fault /\ events' = [events EXCEPT ![n] = <<>>] /\ sync' = [sync EXCEPT ![n] = Idle]
    /\ UNCHANGED <<reg, status, moves>>
-----------------------------------------------------------------------------
(* The two writers. *)

\* _handle_sofia_reg
HandleSofiaReg(n) ==
    /\ events[n] # <<>> /\ events' = [events EXCEPT ![n] = Tail(@)]
    /\ LET e == Head(events[n])
       IN  status' = [status EXCEPT ![e.user] = IF e.sub = "register" THEN 1 ELSE 0]
    /\ UNCHANGED <<reg, sync, moves, faults>>

\* The list of the node's own FreeSWITCH as text; empty when the command fails.
SyncText(n) ==
    /\ sync[n] = Idle
    /\ \/ /\ sync' = [sync EXCEPT ![n] = [pc |-> "rows", users |-> reg[n]]]
          /\ UNCHANGED faults
       \/ /\ Fault /\ sync' = [sync EXCEPT ![n] = [pc |-> "rows", users |-> {}]]
    /\ UNCHANGED <<reg, events, status, moves>>

\* `phone_number in txt`: the number of a user anywhere in the text.
InText(u, users) == users \cap {v \in User : v = u \/ <<u, v>> \in PartOf} # {}

Told(u, users) == IF InText(u, users) THEN 1 ELSE 0

\* Reads the rows, and keeps those to change.
SyncRows(n) ==
    /\ sync[n].pc = "rows"
    /\ LET users == sync[n].users
       IN  sync' = [sync EXCEPT ![n] =
            [pc |-> "commit", write |-> {<<u, Told(u, users)>> : u \in {v \in User : status[v] # Told(v, users)}}]]
    /\ UNCHANGED <<reg, events, status, moves, faults>>

SyncCommit(n) ==
    /\ sync[n].pc = "commit" /\ sync' = [sync EXCEPT ![n] = Idle]
    /\ \/ /\ status' = [u \in User |->
                IF \E s \in {0, 1} : <<u, s>> \in sync[n].write
                THEN CHOOSE s \in {0, 1} : <<u, s>> \in sync[n].write ELSE status[u]]
          /\ UNCHANGED faults
       \/ Fault /\ UNCHANGED status
    /\ UNCHANGED <<reg, events, moves>>

Poll(n) == SyncText(n) \/ SyncRows(n) \/ SyncCommit(n)

Next ==
    \E n \in Node :
        \/ \E u \in User : Register(n, u) \/ Expire(n, u) \/ Unregister(n, u)
        \/ LoseEvent(n) \/ Restart(n) \/ HandleSofiaReg(n) \/ Poll(n)

\* The worker and the thread run as long as the process does.
Spec == Init /\ [][Next]_vars /\ \A n \in Node : WF_vars(HandleSofiaReg(n)) /\ WF_vars(Poll(n))
-----------------------------------------------------------------------------
Job(j) ==
    \/ j = Idle
    \/ j.pc = "rows" /\ j.users \subseteq User
    \/ j.pc = "commit" /\ j.write \subseteq User \X {0, 1}

\* The rows hold a status, the threads what their step needs, the events name users.
TypeOK ==
    /\ reg \in [Node -> SUBSET User] /\ status \in [User -> {0, 1}]
    /\ \A n \in Node : Job(sync[n]) /\ \A e \in ToSet(events[n]) : e.user \in User /\ e.sub \in {"register", "expire"}
    /\ moves \in 0 .. MaxMoves /\ faults \in 0 .. MaxFaults

Online(u) == \E n \in Node : u \in reg[n]

\* A user that stays registered is shown online for good, one that stays away offline,
\* whatever events were lost and however polls and events interleaved
\* (models.py:325 "status: 1 online / 0 offline, written by phone_sync").
SteadyUserIsShown ==
    \A u \in User :
        /\ <>[]Online(u) => <>[](status[u] = 1)
        /\ <>[]~Online(u) => <>[](status[u] = 0)
=============================================================================
