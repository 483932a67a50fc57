---------------------------- MODULE GatewayForm ----------------------------
(***************************************************************************)
(* A gateway saved through the management API.  Its row and the row that   *)
(* names the node it registers from are two commits; that no two gateways  *)
(* of a node share address, port and user is checked by the application.   *)
(*                                                                         *)
(* A definition named X_Something is X with a plausible bug, kept to show  *)
(* which property finds it; no specification uses it.                      *)
(***************************************************************************)
EXTENDS Naturals

CONSTANTS
    Gateway, Triple, Node, Request,
    Known,       \* the nodes fs_node has a row for
    None,
    Partial,     \* may a change leave fields out, or does it send the whole form
    MaxRequests  \* bound: requests

GatewayFormConstants ==
    /\ Known \subseteq Node /\ Partial \in BOOLEAN /\ MaxRequests \in Nat
    /\ None \notin Node \cup Triple \cup {0, 1}

VARIABLES
    gw,     \* auth_type, and ip, port and username, of the gateways there are
    node,   \* gateway_node: node_uuid of a gateway
    req,    \* what each request has checked and is about to write
    requests

vars == <<gw, node, req, requests>>

Gateways == DOMAIN gw
Idle == [stage |-> "idle"]

Init ==
    /\ gw = <<>> /\ node = [g \in Gateway |-> None]
    /\ req = [r \in Request |-> Idle] /\ requests = 0

\* A whole form, and one whose empty fields are not sent.
Form == {d \in [auth : {0, 1}, triple : Triple, node : Node \cup {None}] : d.auth = 1 => d.node # None}
Fields == Form \cup (IF Partial THEN [auth : {0, 1, None}, triple : Triple \cup {None}, node : Node \cup {None}] ELSE {})

\* _apply: a field that is not sent stays.
Applied(old, d) == [auth |-> IF d.auth = None THEN old.auth ELSE d.auth,
                    triple |-> IF d.triple = None THEN old.triple ELSE d.triple]

\* That there is a node is all that is checked.
X_Valid(g, row, n) == row.auth = 1 => n # None \/ g \in Gateways

\* _validate_gateway_node
Valid(g, row, n) ==
    row.auth = 1 =>
        IF n = None THEN g \in Gateways
        ELSE \A o \in Gateways \ {g} : node[o] = n => gw[o].triple # row.triple

Begin(r, g, d, new) ==
    /\ requests < MaxRequests /\ requests' = requests + 1
    /\ req[r] = Idle /\ req' = [req EXCEPT ![r] = [stage |-> "row", gateway |-> g, data |-> d, new |-> new]]
    /\ UNCHANGED <<gw, node>>

CreateGateway(r, g) ==
    /\ g \notin Gateways
    /\ \E d \in Form : Valid(g, [auth |-> d.auth, triple |-> d.triple], d.node) /\ Begin(r, g, d, TRUE)

UpdateGateway(r, g) ==
    /\ g \in Gateways
    /\ \E d \in Fields : Valid(g, Applied(gw[g], d), d.node) /\ Begin(r, g, d, FALSE)

\* The name is unique; a row that has gone is not changed.
CommitRow(r) ==
    LET q == req[r]
        g == q.gateway
    IN  /\ q.stage = "row" /\ UNCHANGED <<node, requests>>
        /\ IF q.new = (g \in Gateways)
           THEN req' = [req EXCEPT ![r] = Idle] /\ UNCHANGED gw
           ELSE /\ req' = [req EXCEPT ![r].stage = "node"]
                /\ gw' = [o \in Gateways \cup {g} |->
                            IF o # g THEN gw[o]
                            ELSE IF q.new THEN [auth |-> q.data.auth, triple |-> q.data.triple]
                            ELSE Applied(gw[g], q.data)]

\* _sync_gateway_node; a node without a row in fs_node is refused by the foreign key.
NodeOf(g, n) == IF gw[g].auth # 1 THEN None ELSE IF n \in Known THEN n ELSE node[g]

CommitNode(r) ==
    LET g == req[r].gateway
    IN  /\ req[r].stage = "node" /\ req' = [req EXCEPT ![r] = Idle]
        /\ node' = IF g \in Gateways THEN [node EXCEPT ![g] = NodeOf(g, req[r].data.node)] ELSE node
        /\ UNCHANGED <<gw, requests>>

\* The row of the node goes with the row of the gateway.
DeleteGateway(g) ==
    /\ g \in Gateways /\ gw' = [o \in Gateways \ {g} |-> gw[o]] /\ node' = [node EXCEPT ![g] = None]
    /\ UNCHANGED <<req, requests>>

Next ==
    \/ \E r \in Request :
        \/ \E g \in Gateway : CreateGateway(r, g) \/ UpdateGateway(r, g)
        \/ CommitRow(r) \/ CommitNode(r)
    \/ \E g \in Gateway : DeleteGateway(g)

Spec == Init /\ [][Next]_vars
-----------------------------------------------------------------------------
\* A gateway registers or not; gateway_node names gateways there are and nodes of fs_node.
TypeOK ==
    /\ Gateways \subseteq Gateway /\ \A g \in Gateways : gw[g] \in [auth : {0, 1}, triple : Triple]
    /\ node \in [Gateway -> Known \cup {None}] /\ \A g \in Gateway \ Gateways : node[g] = None
    /\ \A r \in Request : req[r].stage \in {"idle", "row", "node"}

\* No request is between its commits for this gateway.
Saved(g) == g \in Gateways /\ \A r \in Request : req[r] # Idle => req[r].gateway # g

\* Of the gateways a node registers, no two share address, port and user (crud.py:144),
\* whatever was changed, in whatever order.
TriplesUnique ==
    \A g, o \in Gateways :
        (g # o /\ Saved(g) /\ Saved(o) /\ node[g] # None /\ node[g] = node[o]) => gw[g].triple # gw[o].triple

\* A gateway has a node exactly if it registers: without one no node would load it
\* (crud.py:171), and a peer is loaded by all of them (models.py:225).
RegisteredHasNode == \A g \in Gateways : Saved(g) => ((gw[g].auth = 1) <=> node[g] # None)
=============================================================================
