----------------------------- MODULE LiveCalls -----------------------------
(***************************************************************************)
(* One request for the calls in progress: the nodes that are not known to  *)
(* be offline are probed at once, each over a connection of its own, first *)
(* for its channels and then for the variables of one channel after the    *)
(* other, and what came back is merged to one row per call.  Calls begin,  *)
(* change gateway and end meanwhile.                                       *)
(*                                                                         *)
(* A definition named X_Something is X with a plausible bug, kept to show  *)
(* which property finds it; no specification uses it.                      *)
(***************************************************************************)
EXTENDS Naturals, SequencesExt

CONSTANTS
    Node, Call, Gateway,
    NodeOf,         \* the node a call is at
    NoGateway,      \* an empty cdr_gateway_id
    MAX_CHANNELS,   \* MAX_CHANNELS_PER_NODE
    SomeOffline,    \* may a node that runs be known as offline
    LateReplies,    \* may the reply to a command come after its timeout
    MaxMoves        \* bound: changes of calls

LiveCallsConstants ==
    /\ NodeOf \in [Call -> Node] /\ NoGateway \notin Gateway /\ MAX_CHANNELS \in Nat
    /\ SomeOffline \in BOOLEAN /\ LateReplies \in BOOLEAN /\ MaxMoves \in Nat

VARIABLES
    legs, gw,     \* channels of a call that exist, and cdr_gateway_id of its A leg
    up, offline,  \* nodes whose FreeSWITCH runs, nodes known as offline
    probe,        \* the probe of each node
    answer,       \* the response
    moves,
    steady, had   \* history: calls up and unchanged since the request, gateways of a call

vars == <<legs, gw, up, offline, probe, answer, moves, steady, had>>

Leg == {"A", "B"}
Channel == Call \X Leg
NoAnswer == [calls |-> {}, degraded |-> FALSE, sent |-> FALSE]
Failed == [pc |-> "failed"]

Init ==
    /\ legs \in [Call -> {{}, {"A"}, {"A", "B"}}] /\ gw \in [Call -> Gateway \cup {NoGateway}]
    /\ \A c \in Call : legs[c] = {"A", "B"} \/ gw[c] = NoGateway
    /\ up \in SUBSET Node /\ offline \in (IF SomeOffline THEN SUBSET Node ELSE {{}})
    \* A request is made of the nodes that are not known as offline.
    /\ probe = [n \in Node \ offline |-> [pc |-> "channels"]]
    /\ answer = NoAnswer /\ moves = 0
    /\ steady = {c \in Call : legs[c] # {} /\ NodeOf[c] \in up} /\ had = [c \in Call |-> {gw[c]}]
-----------------------------------------------------------------------------
(* The calls. *)

Moved == moves < MaxMoves /\ moves' = moves + 1

Begin(c) ==
    /\ Moved /\ legs[c] = {} /\ had[c] = {NoGateway} /\ legs' = [legs EXCEPT ![c] = {"A"}]
    /\ gw' = [gw EXCEPT ![c] = NoGateway] /\ had' = [had EXCEPT ![c] = @ \cup {NoGateway}]
    /\ UNCHANGED <<up, offline, probe, answer, steady>>

\* The dialplan sets the gateway on the A leg and calls it; again after a failover.
Bridge(c, g) ==
    /\ Moved /\ legs[c] # {} /\ gw[c] # g
    /\ legs' = [legs EXCEPT ![c] = {"A", "B"}] /\ gw' = [gw EXCEPT ![c] = g]
    /\ had' = [had EXCEPT ![c] = @ \cup {g}] /\ steady' = steady \ {c}
    /\ UNCHANGED <<up, offline, probe, answer>>

End(c) ==
    /\ Moved /\ legs[c] # {} /\ legs' = [legs EXCEPT ![c] = {}] /\ steady' = steady \ {c}
    /\ UNCHANGED <<gw, up, offline, probe, answer, had>>
-----------------------------------------------------------------------------
(* probe_node. *)

Channels(n) == {ch \in Channel : NodeOf[ch[1]] = n /\ ch[2] \in legs[ch[1]]}

\* What uuid_dump says of a channel now: nothing of one that is gone.
DumpOf(ch) == IF ch[2] \notin legs[ch[1]] \/ ch[2] = "B" THEN NoGateway ELSE gw[ch[1]]

\* The node is reached and lists its channels; else, or when they are too many, it fails.
ShowChannels(n) ==
    /\ probe[n].pc = "channels"
    /\ IF n \in up /\ Cardinality(Channels(n)) <= MAX_CHANNELS
       THEN probe' = [probe EXCEPT ![n] =
                [pc |-> "dump", rows |-> Channels(n), todo |-> Channels(n), dumps |-> {}, late |-> <<>>]]
       ELSE probe' = [probe EXCEPT ![n] = Failed]
    /\ UNCHANGED <<legs, gw, up, offline, answer, moves, steady, had>>

\* A command that is not answered in time (live_calls.py takes no other way then).
LoseChannels(n) ==
    /\ LateReplies /\ probe[n].pc = "channels" /\ probe' = [probe EXCEPT ![n] = Failed]
    /\ UNCHANGED <<legs, gw, up, offline, answer, moves, steady, had>>

\* The next reply of the connection is taken for the reply to this command.
Dump(n, ch) ==
    /\ probe[n].pc = "dump" /\ ch \in probe[n].todo
    /\ LET replies == Append(probe[n].late, DumpOf(ch))
       IN  probe' = [probe EXCEPT ![n] =
            [probe[n] EXCEPT !.todo = @ \ {ch}, !.late = Tail(replies), !.dumps = @ \cup {<<ch, Head(replies)>>}]]
    /\ UNCHANGED <<legs, gw, up, offline, answer, moves, steady, had>>

\* Without a reply in time the channel has no variables; the probe goes on.
DumpLate(n, ch) ==
    /\ LateReplies /\ probe[n].pc = "dump" /\ ch \in probe[n].todo /\ probe[n].late = <<>>
    /\ probe' = [probe EXCEPT ![n] = [probe[n] EXCEPT !.todo = @ \ {ch}, !.late = Append(@, DumpOf(ch))]]
    /\ UNCHANGED <<legs, gw, up, offline, answer, moves, steady, had>>
-----------------------------------------------------------------------------
(* merge_calls, query_live_calls. *)

Known(p, c) == {d \in p.dumps : d[1][1] = c /\ d[2] # NoGateway}

\* The A leg's gateway, else that of another leg, else nothing.
GatewayOf(p, c) ==
    IF Known(p, c) = {} THEN NoGateway
    ELSE (CHOOSE d \in Known(p, c) : d[1] = <<c, "A">> \/ \A e \in Known(p, c) : e[1] # <<c, "A">>)[2]

\* The legs as they come, a row for each.
X_MergeCalls(p) == {[call |-> ch[1], leg |-> ch[2], gw |-> GatewayOf(p, ch[1])] : ch \in p.rows}

\* One row per call, led by its A leg.
MergeCalls(p) ==
    {[call |-> c, leg |-> IF <<c, "A">> \in p.rows THEN "A" ELSE "B", gw |-> GatewayOf(p, c)] :
        c \in {ch[1] : ch \in p.rows}}

Degraded(ps) == \E n \in DOMAIN ps : ps[n] = Failed

Respond ==
    /\ ~answer.sent
    /\ \A n \in DOMAIN probe : probe[n] = Failed \/ (probe[n].pc = "dump" /\ probe[n].todo = {})
    /\ answer' = [calls |-> UNION {MergeCalls(probe[n]) : n \in {m \in DOMAIN probe : probe[m] # Failed}},
                  degraded |-> Degraded(probe), sent |-> TRUE]
    /\ UNCHANGED <<legs, gw, up, offline, probe, moves, steady, had>>

Next ==
    \/ ~answer.sent /\ \E c \in Call : Begin(c) \/ End(c) \/ \E g \in Gateway : Bridge(c, g)
    \/ \E n \in DOMAIN probe : \/ ShowChannels(n) \/ LoseChannels(n)
                               \/ \E ch \in Channel : Dump(n, ch) \/ DumpLate(n, ch)
    \/ Respond

Spec == Init /\ [][Next]_vars
-----------------------------------------------------------------------------
\* The probes are of nodes asked, the answer of calls.
TypeOK ==
    /\ legs \in [Call -> SUBSET Leg] /\ gw \in [Call -> Gateway \cup {NoGateway}]
    /\ DOMAIN probe = Node \ offline
    /\ \A n \in DOMAIN probe : probe[n].pc = "dump" => probe[n].todo \subseteq probe[n].rows /\ Len(probe[n].late) <= 1
    /\ answer.calls \subseteq [call : Call, leg : Leg, gw : Gateway \cup {NoGateway}]

RowsOf(c) == {r \in answer.calls : r.call = c}

\* A call is one row, never one per leg, and its gateway, if any, one the call has had
\* (live_calls.py:26-33 "one row per call ... fills in, never makes up").
RowIsOwn == \A c \in Call : Cardinality(RowsOf(c)) <= 1 /\ \A r \in RowsOf(c) : r.gw \in had[c] \cup {NoGateway}

\* A call that was there all the time and is not in the answer makes the answer
\* degraded (live_calls.py:442-443: fewer nodes reached must not read as no calls).
MissedIsDegraded == answer.sent /\ (\E c \in steady : RowsOf(c) = {}) => answer.degraded

\* A call nothing happened to while every reply came in time is shown with its gateway.
SteadyCallIsTold == \A c \in steady : \A r \in RowsOf(c) : r.gw = gw[c]
=============================================================================
