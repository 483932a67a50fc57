-------------------------- MODULE ManagementProofs --------------------------
(***************************************************************************)
(* What the management API and the starts of nodes keep true of the tables *)
(* they write, for any users, accounts, gateways and nodes.                *)
(***************************************************************************)
EXTENDS Management, Sequences, FiniteSetTheorems, WellFoundedInduction, TLAPS

-----------------------------------------------------------------------------
(* The gateway form. *)

FormRow == [auth : {0, 1}, triple : Triple]
FormJob == [stage : {"row", "node"}, gateway : FormGateway, data : Form!Form, new : BOOLEAN]

\* The rows are of gateways, and the request is idle or between its commits.
FormTyped ==
    /\ Form!Gateways \subseteq FormGateway /\ gw \in [Form!Gateways -> FormRow]
    /\ node \in [FormGateway -> FormNode \cup {None}]
    /\ \A g \in FormGateway \ Form!Gateways : node[g] = None
    /\ formReq \in [{Single} -> FormJob \cup {Form!Idle}]

\* The gateway has both its rows: the request is not between them.
Settled(g) ==
    g \in Form!Gateways /\ (formReq[Single].stage = "node" => formReq[Single].gateway # g)

\* No other gateway of the node has the triple that was checked, until it is written.
FormChecked ==
    (formReq[Single].stage \in {"row", "node"} /\ formReq[Single].data.auth = 1) =>
        \A o \in Form!Gateways \ {formReq[Single].gateway} :
            node[o] = formReq[Single].data.node => gw[o].triple # formReq[Single].data.triple

\* Between the two commits the row is what was sent.
FormWritten ==
    (formReq[Single].stage = "node" /\ formReq[Single].gateway \in Form!Gateways) =>
        /\ gw[formReq[Single].gateway].auth = formReq[Single].data.auth
        /\ gw[formReq[Single].gateway].triple = formReq[Single].data.triple

SettledUnique ==
    \A g, o \in Form!Gateways :
        (g # o /\ Settled(g) /\ Settled(o) /\ node[g] # None /\ node[g] = node[o]) => gw[g].triple # gw[o].triple

SettledHasNode == \A g \in Form!Gateways : Settled(g) => ((gw[g].auth = 1) <=> node[g] # None)

FormInv == FormTyped /\ FormChecked /\ FormWritten /\ SettledUnique /\ SettledHasNode

LEMMA FormInit == Form!Init => FormInv
<1> SUFFICES ASSUME Form!Init PROVE FormInv
    OBVIOUS
<1>1. DOMAIN gw = {}
    BY DEF Form!Init
<1>2. FormTyped
    BY <1>1 DEF Form!Init, FormTyped, Form!Gateways, FormJob
<1>3. formReq[Single].stage = "idle"
    BY DEF Form!Init, Form!Idle
<1> QED
    BY <1>1, <1>2, <1>3 DEF FormInv, FormChecked, FormWritten, SettledUnique, SettledHasNode, Form!Gateways

\* A request that begins has checked what it will write, and a whole form is applied as it is.
LEMMA FormBegin ==
    ASSUME FormInv, NEW g \in FormGateway, NEW d \in Form!Form, NEW new \in BOOLEAN,
           Form!Valid(g, [auth |-> d.auth, triple |-> d.triple], d.node), Form!Begin(Single, g, d, new)
    PROVE  FormInv'
<1> DEFINE q == [stage |-> "row", gateway |-> g, data |-> d, new |-> new]
<1>1. formReq' = [formReq EXCEPT ![Single] = q] /\ UNCHANGED <<gw, node>> /\ formReq[Single] = Form!Idle
    BY DEF Form!Begin
<1>2. q \in FormJob
    BY DEF FormJob
<1>3. formReq'[Single] = q /\ formReq' \in [{Single} -> FormJob \cup {Form!Idle}]
    BY <1>1, <1>2 DEF FormInv, FormTyped
<1>4. FormTyped'
    BY <1>1, <1>3 DEF FormInv, FormTyped, Form!Gateways
<1>5. d.auth = 1 => d.node # None
    BY DEF Form!Form
<1>6. FormChecked'
    BY <1>1, <1>3, <1>5 DEF FormChecked, Form!Valid, Form!Gateways
<1>7. formReq[Single].stage = "idle"
    BY <1>1 DEF Form!Idle
<1> QED
    BY <1>1, <1>3, <1>4, <1>6, <1>7
    DEF FormInv, FormWritten, SettledUnique, SettledHasNode, Settled, Form!Gateways

LEMMA FormApplied ==
    ASSUME NEW old, NEW d \in Form!Form
    PROVE  Form!Applied(old, d) = [auth |-> d.auth, triple |-> d.triple]
BY FormAssumption DEF Form!GatewayFormConstants, Form!Form, Form!Applied

LEMMA FormCommitRow ==
    ASSUME FormInv, Form!CommitRow(Single)
    PROVE  FormInv'
<1> DEFINE q == formReq[Single]
<1> DEFINE g == q.gateway
<1> DEFINE new == [auth |-> q.data.auth, triple |-> q.data.triple]
<1>1. q \in FormJob /\ q.stage = "row"
    BY DEF FormInv, FormTyped, Form!CommitRow, Form!Idle
<1>2. g \in FormGateway /\ q.data \in Form!Form /\ new \in FormRow
    BY <1>1 DEF FormJob, Form!Form, FormRow
<1>3. UNCHANGED node
    BY DEF Form!CommitRow
<1>4. CASE q.new = (g \in Form!Gateways)
    <2>1. formReq' = [formReq EXCEPT ![Single] = Form!Idle] /\ UNCHANGED <<gw, node>>
        BY <1>4 DEF Form!CommitRow
    <2>2. formReq'[Single] = Form!Idle /\ formReq'[Single].stage = "idle"
          /\ formReq' \in [{Single} -> FormJob \cup {Form!Idle}]
        BY <2>1 DEF FormInv, FormTyped, Form!Idle
    <2> QED
        BY <1>1, <2>1, <2>2
        DEF FormInv, FormTyped, FormChecked, FormWritten, SettledUnique, SettledHasNode, Settled, Form!Gateways
<1>5. CASE q.new # (g \in Form!Gateways)
    <2>1. formReq' = [formReq EXCEPT ![Single] = [q EXCEPT !.stage = "node"]]
          /\ gw' = [o \in Form!Gateways \cup {g} |-> IF o # g THEN gw[o] ELSE new]
        BY <1>1, <1>2, <1>5, FormApplied DEF Form!CommitRow, FormInv, FormTyped
    <2>2. [q EXCEPT !.stage = "node"] \in FormJob
        BY <1>1 DEF FormJob
    <2>3. formReq'[Single] = [q EXCEPT !.stage = "node"] /\ formReq' \in [{Single} -> FormJob \cup {Form!Idle}]
        BY <2>1, <2>2 DEF FormInv, FormTyped
    <2>4. formReq'[Single].stage = "node" /\ formReq'[Single].gateway = g /\ formReq'[Single].data = q.data
        BY <1>1, <2>3 DEF FormJob
    <2>5. DOMAIN gw' = Form!Gateways \cup {g} /\ gw'[g] = new /\ \A o \in Form!Gateways \ {g} : gw'[o] = gw[o]
        BY <2>1
    <2>6. gw' \in [Form!Gateways \cup {g} -> FormRow]
        BY <1>2, <2>1 DEF FormInv, FormTyped
    <2>7. FormTyped'
        BY <1>2, <1>3, <2>3, <2>5, <2>6 DEF FormInv, FormTyped, Form!Gateways
    <2>8. FormChecked'
        BY <1>1, <1>3, <2>4, <2>5 DEF FormInv, FormChecked, Form!Gateways
    <2>9. FormWritten'
        BY <2>4, <2>5 DEF FormWritten
    <2> QED
        BY <1>1, <1>3, <2>4, <2>5, <2>7, <2>8, <2>9
        DEF FormInv, SettledUnique, SettledHasNode, Settled, Form!Gateways
<1> QED
    BY <1>4, <1>5

LEMMA FormCommitNode ==
    ASSUME FormInv, Form!CommitNode(Single)
    PROVE  FormInv'
<1> DEFINE q == formReq[Single]
<1> DEFINE g == q.gateway
<1>1. q \in FormJob /\ q.stage = "node"
    BY DEF FormInv, FormTyped, Form!CommitNode, Form!Idle
<1>2. g \in FormGateway /\ q.data \in Form!Form
    BY <1>1 DEF FormJob
<1>3. UNCHANGED gw /\ formReq' = [formReq EXCEPT ![Single] = Form!Idle]
    BY DEF Form!CommitNode
<1>4. formReq'[Single].stage = "idle" /\ formReq' \in [{Single} -> FormJob \cup {Form!Idle}]
    BY <1>3 DEF FormInv, FormTyped, Form!Idle
<1>5. CASE g \notin Form!Gateways
    <2>1. UNCHANGED node
        BY <1>5 DEF Form!CommitNode
    <2> QED
        BY <1>1, <1>3, <1>4, <1>5, <2>1
        DEF FormInv, FormTyped, FormChecked, FormWritten, SettledUnique, SettledHasNode, Settled, Form!Gateways
<1>6. CASE g \in Form!Gateways
    <2>1. gw[g].auth = q.data.auth /\ gw[g].triple = q.data.triple
        BY <1>1, <1>6 DEF FormInv, FormWritten
    <2>2. q.data.auth = 1 => q.data.node \in FormNode /\ q.data.node # None
        BY <1>2 DEF Form!Form
    <2> DEFINE n == IF q.data.auth = 1 THEN q.data.node ELSE None
    <2>3. Form!NodeOf(g, q.data.node) = n /\ n \in FormNode \cup {None} /\ (n # None <=> q.data.auth = 1)
        BY <2>1, <2>2 DEF Form!NodeOf
    <2>4. node' = [node EXCEPT ![g] = n]
        BY <1>6, <2>3 DEF Form!CommitNode
    <2>5. node' \in [FormGateway -> FormNode \cup {None}] /\ node'[g] = n
          /\ \A o \in FormGateway \ {g} : node'[o] = node[o]
        BY <1>2, <2>3, <2>4 DEF FormInv, FormTyped
    <2>6. FormTyped'
        BY <1>3, <1>4, <1>6, <2>5 DEF FormInv, FormTyped, Form!Gateways
    <2>7. \A o \in Form!Gateways \ {g} : (n # None /\ node[o] = n) => gw[o].triple # gw[g].triple
        BY <1>1, <2>1, <2>3 DEF FormInv, FormChecked
    <2>8. Form!Gateways \subseteq FormGateway /\ Form!Gateways' = Form!Gateways
        BY <1>3 DEF FormInv, FormTyped, Form!Gateways
    <2>9. \A o \in Form!Gateways \ {g} : Settled(o)
        BY DEF Settled
    <2>10. SettledHasNode'
        BY <1>3, <2>1, <2>3, <2>5, <2>8, <2>9 DEF FormInv, SettledHasNode
    <2>11. SettledUnique'
        BY <1>3, <2>5, <2>7, <2>8, <2>9 DEF FormInv, SettledUnique
    <2> QED
        BY <1>4, <2>6, <2>10, <2>11 DEF FormInv, FormChecked, FormWritten
<1> QED
    BY <1>5, <1>6

LEMMA FormDelete ==
    ASSUME FormInv, NEW g \in FormGateway, Form!DeleteGateway(g)
    PROVE  FormInv'
<1>1. gw' = [o \in Form!Gateways \ {g} |-> gw[o]] /\ node' = [node EXCEPT ![g] = None] /\ UNCHANGED formReq
    BY DEF Form!DeleteGateway
<1>2. Form!Gateways' = Form!Gateways \ {g} /\ \A o \in Form!Gateways \ {g} : gw'[o] = gw[o]
    BY <1>1 DEF Form!Gateways
<1>3. node'[g] = None /\ (\A o \in FormGateway \ {g} : node'[o] = node[o])
      /\ node' \in [FormGateway -> FormNode \cup {None}]
    BY <1>1 DEF FormInv, FormTyped
<1>4. gw' \in [Form!Gateways \ {g} -> FormRow]
    BY <1>1 DEF FormInv, FormTyped
<1>5. FormTyped'
    BY <1>1, <1>2, <1>3, <1>4 DEF FormInv, FormTyped
<1>6. Form!Gateways \subseteq FormGateway
    BY DEF FormInv, FormTyped
<1> QED
    BY <1>1, <1>2, <1>3, <1>5, <1>6
    DEF FormInv, FormChecked, FormWritten, SettledUnique, SettledHasNode, Settled

LEMMA FormNext ==
    ASSUME FormInv, Form!Next
    PROVE  FormInv'
<1>1. ASSUME NEW g \in FormGateway, Form!CreateGateway(Single, g) PROVE FormInv'
    BY <1>1, FormBegin DEF Form!CreateGateway
<1>2. ASSUME NEW g \in FormGateway, Form!UpdateGateway(Single, g) PROVE FormInv'
    BY <1>2, FormBegin, FormApplied DEF Form!UpdateGateway, Form!Fields
<1> QED
    BY <1>1, <1>2, FormCommitRow, FormCommitNode, FormDelete DEF Form!Next

LEMMA FormInvImplies ==
    ASSUME FormInv
    PROVE  Form!TypeOK /\ Form!TriplesUnique /\ Form!RegisteredHasNode
<1>1. formReq[Single] \in FormJob \cup {Form!Idle}
    BY DEF FormInv, FormTyped
<1>2. Form!TypeOK
    BY <1>1 DEF FormInv, FormTyped, Form!TypeOK, FormJob, FormRow, Form!Idle
<1>3. \A g : Form!Saved(g) => Settled(g)
    BY DEF Form!Saved, Settled, Form!Idle
<1> QED
    BY <1>2, <1>3 DEF FormInv, SettledUnique, SettledHasNode, Form!TriplesUnique, Form!RegisteredHasNode

\* Whatever whole forms are sent one after the other, no two gateways of a node share
\* address, port and user, and a gateway has a node exactly if it registers.
THEOREM TriplesAlwaysUnique == Spec => []TriplesUnique
<1> DEFINE Inv == scenario = "form" => FormInv
<1>1. Init => Inv
    BY FormInit DEF Init
<1>2. Inv /\ [Next]_vars => Inv'
    <2> SUFFICES ASSUME Inv, [Next]_vars PROVE Inv'
        OBVIOUS
    <2>1. CASE scenario = "form" /\ Form!Next /\ RestButForm
        BY <2>1, FormNext
    <2>2. CASE UNCHANGED formVars /\ UNCHANGED scenario
        BY <2>2 DEF formVars, FormInv, FormTyped, FormChecked, FormWritten, SettledUnique, SettledHasNode,
                    Settled, Form!Gateways
    <2> QED
        BY <2>1, <2>2 DEF Next, vars, RestButUsers, RestButTenants, RestButProvision, RestButStart
<1>3. Inv => TriplesUnique
    BY FormInvImplies DEF TriplesUnique
<1> QED
    BY <1>1, <1>2, <1>3, PTL DEF Spec
-----------------------------------------------------------------------------
(* The starts of nodes. *)

PcState ==
    [at : {"down", "failed", "up", "register"}] \cup [at : {"check", "make"}, i : DOMAIN Upgrade!Migrations]

\* A process in state s has passed the migration.
Past(s, i) == IF s.at \in {"check", "make"} THEN i < s.i ELSE s.at \in {"register", "up"}

\* The migration is in the database, or the database may refuse it and a start goes on.
MadeOrPassedOver(i, m) == Upgrade!Migrations[i].again = "passes over" \/ Upgrade!Migrations[i].fn \in m

\* Where the processes are, and what the tables hold.
StartTyped ==
    /\ pc \in [StartNode -> PcState] /\ made \subseteq Upgrade!Names
    /\ nodes \in Seq(StartNode) /\ Upgrade!IsInjective(nodes)
    /\ owner \in [StartGateway -> StartNode \cup {None}] /\ faults \in 0 .. MaxStartFaults

\* What a process has passed is made, by whichever process, and stays made.
PastIsMade ==
    \A n \in StartNode : \A i \in DOMAIN Upgrade!Migrations : Past(pc[n], i) => MadeOrPassedOver(i, made)

StartInv == StartTyped /\ PastIsMade

\* The list is not empty, and what it holds are its names.
LEMMA MigrationsListed ==
    /\ Len(Upgrade!Migrations) \in Nat \ {0} /\ DOMAIN Upgrade!Migrations = 1 .. Len(Upgrade!Migrations)
    /\ \A i \in DOMAIN Upgrade!Migrations : Upgrade!Migrations[i].fn \in Upgrade!Names
    /\ \A i, k \in DOMAIN Upgrade!Migrations : k <= i => k < i \/ k = i
<1>1. Len(Upgrade!Migrations) = 51 /\ DOMAIN Upgrade!Migrations = 1 .. 51
    BY DEF Upgrade!Migrations
<1> QED
    BY <1>1 DEF Upgrade!Names

\* After a migration comes the next, or the registration of the node.
LEMMA AfterPasses ==
    ASSUME NEW i \in DOMAIN Upgrade!Migrations
    PROVE  /\ Upgrade!After(i) \in PcState
           /\ \A k \in DOMAIN Upgrade!Migrations : Past(Upgrade!After(i), k) => k <= i
<1>1. CASE i = Len(Upgrade!Migrations)
    BY <1>1, MigrationsListed DEF Upgrade!After, PcState, Past
<1>2. CASE i # Len(Upgrade!Migrations)
    <2>1. i + 1 \in DOMAIN Upgrade!Migrations
        BY <1>2, MigrationsListed
    <2>2. Upgrade!After(i) = [at |-> "check", i |-> i + 1]
        BY <1>2 DEF Upgrade!After, Upgrade!Check
    <2> QED
        BY <2>1, <2>2, MigrationsListed DEF PcState, Past
<1> QED
    BY <1>1, <1>2

\* A process moves to where everything it has passed is made.
LEMMA ProcessMoves ==
    ASSUME StartInv, NEW n \in StartNode, NEW s \in PcState, pc' = [pc EXCEPT ![n] = s],
           made \subseteq made', made' \subseteq Upgrade!Names,
           \A i \in DOMAIN Upgrade!Migrations : Past(s, i) => MadeOrPassedOver(i, made')
    PROVE  pc' \in [StartNode -> PcState] /\ PastIsMade'
<1>1. pc' \in [StartNode -> PcState] /\ pc'[n] = s /\ \A m \in StartNode \ {n} : pc'[m] = pc[m]
    BY DEF StartInv, StartTyped
<1>2. \A m \in StartNode \ {n} : \A i \in DOMAIN Upgrade!Migrations :
        Past(pc'[m], i) => MadeOrPassedOver(i, made')
    BY <1>1 DEF StartInv, PastIsMade, MadeOrPassedOver
<1> QED
    BY <1>1, <1>2 DEF PastIsMade

LEMMA StartInit == Upgrade!Init => StartInv
<1> SUFFICES ASSUME Upgrade!Init PROVE StartInv
    OBVIOUS
<1>1. pc \in [StartNode -> PcState] /\ \A n \in StartNode : pc[n].at = "down"
    BY DEF Upgrade!Init, Upgrade!Down, PcState
<1>2. StartTyped
    BY <1>1, StartupAssumption DEF Upgrade!Init, Upgrade!StartupConstants, StartTyped
<1> QED
    BY <1>1, <1>2 DEF StartInv, PastIsMade, Past

LEMMA StartAndCrash ==
    ASSUME StartInv, NEW n \in StartNode, Upgrade!Start(n) \/ Upgrade!Crash(n)
    PROVE  StartInv'
<1>1. CASE Upgrade!Start(n)
    <2>1. Upgrade!Check(1) \in PcState /\ \A i \in DOMAIN Upgrade!Migrations : ~Past(Upgrade!Check(1), i)
        BY MigrationsListed DEF Upgrade!Check, PcState, Past
    <2> QED
        BY <1>1, <2>1, ProcessMoves DEF Upgrade!Start, StartInv, StartTyped
<1>2. CASE Upgrade!Crash(n)
    <2>1. Upgrade!Down \in PcState /\ \A i \in DOMAIN Upgrade!Migrations : ~Past(Upgrade!Down, i)
        BY DEF Upgrade!Down, PcState, Past
    <2>2. pc' = [pc EXCEPT ![n] = Upgrade!Down] /\ UNCHANGED <<made, nodes, owner>> /\ faults' \in 0 .. MaxStartFaults
        BY <1>2, StartupAssumption DEF Upgrade!Crash, Upgrade!Fault, StartInv, StartTyped, Upgrade!StartupConstants
    <2> QED
        BY <2>1, <2>2, ProcessMoves DEF StartInv, StartTyped
<1> QED
    BY <1>1, <1>2

\* What is looked for and found is made; what is not found is made next.
LEMMA StartLooks ==
    ASSUME StartInv, NEW n \in StartNode, Upgrade!Look(n)
    PROVE  StartInv'
<1> DEFINE i == pc[n].i
<1>1. pc[n] \in PcState /\ pc[n].at = "check"
    BY DEF StartInv, StartTyped, Upgrade!Look
<1>2. i \in DOMAIN Upgrade!Migrations
    BY <1>1 DEF PcState
<1>3. \A k \in DOMAIN Upgrade!Migrations : k < i => MadeOrPassedOver(k, made)
    BY <1>1 DEF StartInv, PastIsMade, Past
<1>4. UNCHANGED <<made, nodes, owner, faults>>
    BY DEF Upgrade!Look
<1>5. CASE Upgrade!Migrations[i].fn \in made /\ pc' = [pc EXCEPT ![n] = Upgrade!After(i)]
    <2>1. \A k \in DOMAIN Upgrade!Migrations : k <= i => MadeOrPassedOver(k, made)
        <3>1. MadeOrPassedOver(i, made)
            BY <1>5 DEF MadeOrPassedOver
        <3> QED
            BY <1>2, <1>3, <3>1, MigrationsListed
    <2> QED
        BY <1>2, <1>4, <1>5, <2>1, AfterPasses, ProcessMoves DEF StartInv, StartTyped
<1>6. CASE pc' = [pc EXCEPT ![n] = Upgrade!Make(i)]
    <2>1. Upgrade!Make(i) \in PcState /\ \A k \in DOMAIN Upgrade!Migrations : Past(Upgrade!Make(i), k) => k < i
        BY <1>2 DEF Upgrade!Make, PcState, Past
    <2> QED
        BY <1>3, <1>4, <1>6, <2>1, ProcessMoves DEF StartInv, StartTyped
<1> QED
    BY <1>5, <1>6 DEF Upgrade!Look

\* A gateway that is nobody's may be given to the first node; no other changes its node.
LEMMA BackfillKeeps ==
    ASSUME StartInv
    PROVE  /\ Upgrade!Backfilled \in [StartGateway -> StartNode \cup {None}]
           /\ \A g \in StartGateway : owner[g] # None => Upgrade!Backfilled[g] = owner[g]
<1>1. nodes # <<>> => nodes[1] \in StartNode
    BY DEF StartInv, StartTyped
<1> QED
    BY <1>1 DEF StartInv, StartTyped, Upgrade!Backfilled

\* What was made before it came to be made raises; otherwise the process goes on.
LEMMA StartMakes ==
    ASSUME StartInv, NEW n \in StartNode, Upgrade!MakeIt(n)
    PROVE  StartInv'
<1> DEFINE i == pc[n].i
<1>1. pc[n] \in PcState /\ pc[n].at = "make"
    BY DEF StartInv, StartTyped, Upgrade!MakeIt
<1>2. i \in DOMAIN Upgrade!Migrations
    BY <1>1 DEF PcState
<1>3. \A k \in DOMAIN Upgrade!Migrations : k < i => MadeOrPassedOver(k, made)
    BY <1>1 DEF StartInv, PastIsMade, Past
<1>4. made' = made \cup {Upgrade!Migrations[i].fn} /\ UNCHANGED <<nodes, faults>>
      /\ owner' \in {owner, Upgrade!Backfilled} /\ pc' = [pc EXCEPT ![n] = Upgrade!Outcome(i)]
    BY DEF Upgrade!MakeIt
<1>5. made' \subseteq Upgrade!Names
    BY <1>2, <1>4, MigrationsListed DEF StartInv, StartTyped
<1>6. \A k \in DOMAIN Upgrade!Migrations : k <= i => MadeOrPassedOver(k, made')
    <2>1. MadeOrPassedOver(i, made') /\ \A k \in DOMAIN Upgrade!Migrations : k < i => MadeOrPassedOver(k, made')
        BY <1>3, <1>4 DEF MadeOrPassedOver
    <2> QED
        BY <1>2, <2>1, MigrationsListed
<1>7. Upgrade!Outcome(i) \in PcState
      /\ \A k \in DOMAIN Upgrade!Migrations : Past(Upgrade!Outcome(i), k) => k <= i
    <2>1. Upgrade!Failed \in PcState /\ \A k \in DOMAIN Upgrade!Migrations : ~Past(Upgrade!Failed, k)
        BY DEF Upgrade!Failed, PcState, Past
    <2> QED
        BY <1>2, <2>1, AfterPasses DEF Upgrade!Outcome
<1>8. pc' \in [StartNode -> PcState] /\ PastIsMade'
    BY <1>4, <1>5, <1>6, <1>7, ProcessMoves
<1>9. owner' \in [StartGateway -> StartNode \cup {None}]
    BY <1>4, BackfillKeeps DEF StartInv, StartTyped
<1> QED
    BY <1>4, <1>5, <1>8, <1>9 DEF StartInv, StartTyped

\* A refused migration is passed over only if it is one of those.
LEMMA StartRefused ==
    ASSUME StartInv, NEW n \in StartNode, Upgrade!Refused(n)
    PROVE  StartInv'
<1> DEFINE i == pc[n].i
<1>1. pc[n] \in PcState /\ pc[n].at = "make"
    BY DEF StartInv, StartTyped, Upgrade!Refused
<1>2. i \in DOMAIN Upgrade!Migrations
    BY <1>1 DEF PcState
<1>3. \A k \in DOMAIN Upgrade!Migrations : k < i => MadeOrPassedOver(k, made)
    BY <1>1 DEF StartInv, PastIsMade, Past
<1>4. UNCHANGED <<made, nodes, owner>> /\ faults' \in 0 .. MaxStartFaults
    <2>1. UNCHANGED <<made, nodes, owner>> /\ Upgrade!Fault
        BY DEF Upgrade!Refused
    <2>2. faults \in 0 .. MaxStartFaults /\ MaxStartFaults \in Nat
        BY StartupAssumption DEF StartInv, StartTyped, Upgrade!StartupConstants
    <2> QED
        BY <2>1, <2>2 DEF Upgrade!Fault
<1>5. CASE Upgrade!Migrations[i].again = "passes over" /\ pc' = [pc EXCEPT ![n] = Upgrade!After(i)]
    <2>1. \A k \in DOMAIN Upgrade!Migrations : k <= i => MadeOrPassedOver(k, made)
        <3>1. MadeOrPassedOver(i, made)
            BY <1>5 DEF MadeOrPassedOver
        <3> QED
            BY <1>2, <1>3, <3>1, MigrationsListed
    <2> QED
        BY <1>2, <1>4, <1>5, <2>1, AfterPasses, ProcessMoves DEF StartInv, StartTyped
<1>6. CASE pc' = [pc EXCEPT ![n] = Upgrade!Failed]
    <2>1. Upgrade!Failed \in PcState /\ \A k \in DOMAIN Upgrade!Migrations : ~Past(Upgrade!Failed, k)
        BY DEF Upgrade!Failed, PcState, Past
    <2> QED
        BY <1>4, <1>6, <2>1, ProcessMoves DEF StartInv, StartTyped
<1> QED
    BY <1>5, <1>6 DEF Upgrade!Refused

LEMMA StartRegisters ==
    ASSUME StartInv, NEW n \in StartNode, Upgrade!RegisterNode(n)
    PROVE  StartInv'
<1>1. pc' = [pc EXCEPT ![n] = Upgrade!Up] /\ UNCHANGED <<made, owner, faults>> /\ pc[n].at = "register"
    BY DEF Upgrade!RegisterNode
<1>2. Upgrade!Up \in PcState
    BY DEF Upgrade!Up, PcState
<1>3. \A i \in DOMAIN Upgrade!Migrations : MadeOrPassedOver(i, made)
    BY <1>1 DEF StartInv, PastIsMade, Past
<1>4. pc' \in [StartNode -> PcState] /\ PastIsMade'
    BY <1>1, <1>2, <1>3, ProcessMoves DEF StartInv, StartTyped
<1>5. nodes' \in Seq(StartNode) /\ Upgrade!IsInjective(nodes')
    <2>1. CASE n \in Upgrade!ToSet(nodes)
        BY <2>1 DEF Upgrade!RegisterNode, StartInv, StartTyped
    <2>2. CASE n \notin Upgrade!ToSet(nodes)
        <3>1. nodes' = Append(nodes, n) /\ nodes \in Seq(StartNode) /\ Upgrade!IsInjective(nodes)
            BY <2>2 DEF Upgrade!RegisterNode, StartInv, StartTyped
        <3>2. \A k \in 1 .. Len(nodes) : nodes[k] # n
            BY <2>2, <3>1 DEF Upgrade!ToSet
        <3>3. Len(nodes') = Len(nodes) + 1 /\ nodes' \in Seq(StartNode)
            BY <3>1
        <3>4. \A k \in 1 .. Len(nodes') : nodes'[k] = IF k <= Len(nodes) THEN nodes[k] ELSE n
            BY <3>1
        <3> QED
            BY <3>1, <3>2, <3>3, <3>4 DEF Upgrade!IsInjective
    <2> QED
        BY <2>1, <2>2
<1> QED
    BY <1>1, <1>4, <1>5 DEF StartInv, StartTyped

LEMMA StartNext ==
    ASSUME StartInv, Upgrade!Next
    PROVE  StartInv' /\ \A g \in StartGateway : owner[g] # None => owner'[g] = owner[g]
<1>1. PICK n \in StartNode : Upgrade!Start(n) \/ Upgrade!Migrate(n) \/ Upgrade!Refused(n) \/ Upgrade!Crash(n)
    BY DEF Upgrade!Next
<1>2. StartInv'
    BY <1>1, StartAndCrash, StartLooks, StartMakes, StartRefused, StartRegisters DEF Upgrade!Migrate
<1>3. owner' \in {owner, Upgrade!Backfilled}
    BY <1>1 DEF Upgrade!Start, Upgrade!Migrate, Upgrade!Look, Upgrade!MakeIt, Upgrade!RegisterNode,
                Upgrade!Refused, Upgrade!Crash
<1> QED
    BY <1>2, <1>3, BackfillKeeps

LEMMA StartInvImplies ==
    ASSUME StartInv
    PROVE  Upgrade!TypeOK /\ Upgrade!ServesOnWholeSchema
<1>1. Upgrade!ToSet(nodes) \subseteq StartNode
    BY DEF StartInv, StartTyped, Upgrade!ToSet
<1>2. \A n \in StartNode : pc[n].at \in {"check", "make"} => pc[n].i \in DOMAIN Upgrade!Migrations
    BY DEF StartInv, StartTyped, PcState
<1> QED
    BY <1>1, <1>2 DEF StartInv, StartTyped, PastIsMade, Past, MadeOrPassedOver,
                      Upgrade!TypeOK, Upgrade!ServesOnWholeSchema

\* Any number of nodes may start at once on any earlier database, crash and be refused: a
\* process that serves has passed no migration that it had to make, and gateways keep
\* their nodes.
THEOREM StartsAlwaysSafe == Spec => StartsAreSafe
<1> DEFINE Kept == \A g \in StartGateway : owner[g] # None => owner'[g] = owner[g]
<1>1. Init => StartInv
    BY StartInit DEF Init
<1>2. StartInv /\ [Next]_vars => StartInv' /\ [Kept]_<<pc, made, nodes, owner, faults>>
    <2> SUFFICES ASSUME StartInv, [Next]_vars PROVE StartInv' /\ [Kept]_<<pc, made, nodes, owner, faults>>
        OBVIOUS
    <2>1. CASE scenario = "upgrade" /\ Upgrade!Next /\ RestButStart
        BY <2>1, StartNext
    <2>2. CASE UNCHANGED startVars
        BY <2>2 DEF startVars, StartInv, StartTyped, PastIsMade
    <2> QED
        BY <2>1, <2>2 DEF Next, vars, RestButUsers, RestButTenants, RestButForm, RestButProvision
<1>3. StartInv => Upgrade!TypeOK /\ Upgrade!ServesOnWholeSchema
    BY StartInvImplies
<1>4. Spec => []StartInv
    BY <1>1, <1>2, PTL DEF Spec
<1>5. Spec => [][Kept]_<<pc, made, nodes, owner, faults>>
    BY <1>2, <1>4, PTL DEF Spec
<1>6. [][Kept]_<<pc, made, nodes, owner, faults>> => Upgrade!OwnerIsKept
    BY DEF Upgrade!OwnerIsKept, Upgrade!vars
<1>7. StartInv => (scenario = "upgrade" => Upgrade!TypeOK /\ Upgrade!ServesOnWholeSchema)
    BY <1>3
<1> QED
    BY <1>4, <1>5, <1>6, <1>7, PTL DEF StartsAreSafe
-----------------------------------------------------------------------------
(* Users and roles. *)

UserRow == [here : BOOLEAN, role : 0 .. 2, code : Role \cup {None, "super", "admin", "viewer"}, status : 0 .. 1]
RoleState == {"absent", "enabled", "disabled"}
CreateJob == [op : {"create"}, u : User, row : UserRow]
UpdateJob == [op : {"update"}, u : User, was : UserRow, row : UserRow]
RoleJob == [op : {"role"}, r : Role, to : RoleState]

UsersTyped ==
    /\ users \in [User -> UserRow] /\ roles \in [Role -> RoleState]
    /\ job \in [{Single} -> {Accounts!Nothing} \cup CreateJob \cup UpdateJob \cup RoleJob]

\* The guards count the row as an enabled super.
Counted(row) == row.here /\ row.role = 2 /\ row.status = 1

\* The row names a role only if it is enabled.
CodeEnabled(row) == row.here /\ row.code \in Role => roles[row.code] = "enabled"

\* All but the code is as it was, which a start may have written.
Read(was, row) ==
    /\ row.here /\ was.here /\ was.role = row.role /\ was.status = row.status
    /\ CodeEnabled(was)

\* What a request is about to commit is of rows that are as it read them, but for what a
\* start wrote: it leaves a row that is counted, gives no role that is not enabled, and takes
\* none that is given.
JobFits(j) ==
    /\ j.op = "create" => ~users[j.u].here /\ CodeEnabled(j.row)
    /\ j.op = "update" =>
        /\ Read(j.was, users[j.u]) /\ CodeEnabled(j.row) /\ (j.row = Accounts!Absent \/ j.row.here)
        /\ \E a \in User : Counted(users[a]) /\ (a = j.u => Counted(j.row))
    /\ (j.op = "role" /\ j.to # "enabled") => ~Accounts!Referenced(j.r)

UsersInv ==
    /\ UsersTyped /\ JobFits(job[Single])
    /\ \E a \in User : Counted(users[a])
    /\ \A u \in User : CodeEnabled(users[u])

\* Of two or more enabled supers one is left beside any.
LEMMA AnotherSuper ==
    ASSUME UsersTyped, ~Accounts!LastSuper, NEW u \in User
    PROVE  \E a \in User : Counted(users[a]) /\ a # u
<1> DEFINE S == Accounts!EnabledSupers
<1>1. IsFiniteSet(S)
    <2>1. IsFiniteSet(User)
        BY UsersAssumption DEF Accounts!UsersConstants, Accounts!IsFiniteSet, IsFiniteSet
    <2> QED
        BY <2>1, FS_Subset DEF Accounts!EnabledSupers
<1>2. ~(Cardinality(S) <= 1)
    BY DEF Accounts!LastSuper, Accounts!Cardinality, Cardinality, Accounts!IsFiniteSet, IsFiniteSet
<1>3. IsFiniteSet({u}) /\ Cardinality({u}) = 1
    BY FS_Singleton
<1> HIDE DEF S
<1>4. ~(S \subseteq {u})
    BY <1>1, <1>2, <1>3, FS_Subset, FS_CardinalityType
<1>5. PICK a \in S : a # u
    BY <1>4
<1> QED
    BY <1>5 DEF S, Accounts!EnabledSupers, Accounts!EnabledSuper, Counted

LEMMA UsersInit == Accounts!Init => UsersInv
<1> SUFFICES ASSUME Accounts!Init PROVE UsersInv
    OBVIOUS
<1> DEFINE founder == [here |-> TRUE, role |-> 2, code |-> None, status |-> 1]
<1>1. founder \in UserRow /\ Accounts!Absent \in UserRow /\ Counted(founder)
    BY DEF UserRow, Accounts!Absent, Counted
<1>2. First \in User /\ None \notin Role
    BY UsersAssumption DEF Accounts!UsersConstants
<1>3. users \in [User -> UserRow] /\ users[First] = founder
    BY <1>1, <1>2 DEF Accounts!Init
<1>4. UsersTyped
    BY <1>3 DEF Accounts!Init, UsersTyped, RoleState
<1>5. \A u \in User : users[u].code = None
    BY DEF Accounts!Init, Accounts!Absent
<1>6. job[Single].op = "none"
    BY DEF Accounts!Init, Accounts!Nothing
<1> QED
    BY <1>1, <1>2, <1>3, <1>4, <1>5, <1>6 DEF UsersInv, JobFits, CodeEnabled

\* A request that plans what fits keeps the invariant.
LEMMA UserPlans ==
    ASSUME UsersInv, NEW j \in CreateJob \cup UpdateJob \cup RoleJob, Accounts!Plan(Single, j), JobFits(j)
    PROVE  UsersInv'
<1>1. job' = [job EXCEPT ![Single] = j] /\ UNCHANGED <<users, roles>>
    BY DEF Accounts!Plan
<1>2. job'[Single] = j /\ UsersTyped'
    BY <1>1 DEF UsersInv, UsersTyped
<1> QED
    BY <1>1, <1>2 DEF UsersInv, JobFits, CodeEnabled, Read, Accounts!Referenced

LEMMA UserCreates ==
    ASSUME UsersInv, NEW u \in User, Accounts!Create(Single, u)
    PROVE  UsersInv'
<1>1. PICK role \in 0 .. 2, c \in Accounts!ValidCodes :
        /\ ~users[u].here
        /\ Accounts!Plan(Single, [op |-> "create", u |-> u,
                    row |-> [here |-> TRUE, role |-> IF c = None THEN role ELSE 1, code |-> c, status |-> 1]])
    BY DEF Accounts!Create
<1> DEFINE row == [here |-> TRUE, role |-> IF c = None THEN role ELSE 1, code |-> c, status |-> 1]
<1> DEFINE j == [op |-> "create", u |-> u, row |-> row]
<1>2. c \in Role \cup {None} /\ (c \in Role => roles[c] = "enabled")
    BY UsersAssumption DEF Accounts!ValidCodes, Accounts!UsersConstants
<1>3. row \in UserRow /\ CodeEnabled(row)
    BY <1>2 DEF UserRow, CodeEnabled
<1>4. j \in CreateJob
    BY <1>3 DEF CreateJob
<1>5. JobFits(j)
    BY <1>1, <1>3 DEF JobFits
<1>6. Accounts!Plan(Single, j)
    BY <1>1
<1> HIDE DEF j
<1> QED
    BY <1>4, <1>5, <1>6, UserPlans

\* Of a column stays what is not given.
LEMMA GivenOrOld ==
    ASSUME NEW S, NEW given \in Accounts!Given(S), NEW old
    PROVE  /\ Accounts!Or(given, old) \in S \cup {old}
           /\ \A x : given \subseteq {x} => Accounts!Or(given, old) \in {x, old}
           /\ \A x : Accounts!Or(given, old) = x => given = {x} \/ old = x
<1>1. CASE given = {}
    BY <1>1 DEF Accounts!Or
<1>2. CASE given # {}
    <2>1. PICK x \in S : given = {x}
        BY <1>2 DEF Accounts!Given
    <2>2. Accounts!Or(given, old) = x
        BY <2>1 DEF Accounts!Or
    <2> QED
        BY <2>1, <2>2
<1> QED
    BY <1>1, <1>2

\* Whoever asks, a super that is demoted or disabled leaves another, and any other change
\* leaves him one.
LEMMA UserUpdates ==
    ASSUME UsersInv, NEW a \in User, NEW u \in User, Accounts!Update(Single, a, u)
    PROVE  UsersInv'
<1>1. PICK role \in Accounts!Given(0 .. 2), c \in Accounts!Given(Accounts!ValidCodes),
           status \in Accounts!Given(0 .. 1) :
        LET row == users[u]
            demote == Accounts!EnabledSuper(u) /\ (~(role \subseteq {2}) \/ ~(c \subseteq {None}))
            guarded == demote \/ (row.status = 1 /\ status = {0})
        IN  /\ row.here /\ ~(guarded /\ Accounts!Yourself(a, u))
            /\ IF guarded /\ Accounts!LastSuper
               THEN refused' = u /\ UNCHANGED <<users, roles, job>>
               ELSE Accounts!Plan(Single, [op |-> "update", u |-> u, was |-> row,
                                           row |-> Accounts!Updated(row, role, c, status)])
    BY DEF Accounts!Update
<1> DEFINE old == users[u]
<1> DEFINE row == Accounts!Updated(old, role, c, status)
<1> DEFINE j == [op |-> "update", u |-> u, was |-> old, row |-> row]
<1> DEFINE newRole == IF c \subseteq {None} THEN Accounts!Or(role, old.role) ELSE 1
<1>2. old \in UserRow /\ old.here
    BY <1>1 DEF UsersInv, UsersTyped
<1>3. row = [old EXCEPT !.role = newRole, !.code = Accounts!Or(c, old.code), !.status = Accounts!Or(status, old.status)]
    BY DEF Accounts!Updated
<1>4. newRole \in 0 .. 2
    BY <1>2, GivenOrOld DEF UserRow
<1>5. Accounts!Or(status, old.status) \in 0 .. 1
    BY <1>2, GivenOrOld DEF UserRow
<1>6. Accounts!Or(c, old.code) \in Accounts!ValidCodes \cup {old.code}
    BY GivenOrOld
<1>7. Accounts!ValidCodes \subseteq Role \cup {None}
    BY DEF Accounts!ValidCodes
<1> HIDE DEF newRole
<1>8. row \in UserRow /\ row.here /\ row.role = newRole /\ row.code = Accounts!Or(c, old.code)
      /\ row.status = Accounts!Or(status, old.status)
    BY <1>2, <1>3, <1>4, <1>5, <1>6, <1>7 DEF UserRow
<1>9. CodeEnabled(row)
    <2>1. CodeEnabled(old)
        BY DEF UsersInv
    <2>2. \A k \in Accounts!ValidCodes : k \in Role => roles[k] = "enabled"
        BY UsersAssumption DEF Accounts!ValidCodes, Accounts!UsersConstants
    <2> QED
        BY <1>2, <1>6, <1>8, <2>1, <2>2 DEF CodeEnabled
<1>10. \/ UNCHANGED <<users, roles, job>>
       \/ \E b \in User : Counted(users[b]) /\ (b = u => Counted(row))
    <2>1. CASE ~Accounts!LastSuper
        BY <2>1, AnotherSuper DEF UsersInv
    <2>2. CASE Accounts!LastSuper /\ ~UNCHANGED <<users, roles, job>>
        <3>1. PICK b \in User : Counted(users[b])
            BY DEF UsersInv
        <3>2. ASSUME b = u PROVE Counted(row)
            <4>1. Counted(old)
                BY <3>1, <3>2
            <4>2. role \subseteq {2} /\ c \subseteq {None} /\ status # {0}
                BY <1>1, <2>2, <4>1 DEF Accounts!EnabledSuper, Counted
            <4>3. Accounts!Or(role, old.role) = 2
                BY <4>1, <4>2, GivenOrOld DEF Counted
            <4>4. Accounts!Or(status, old.status) = 1
                BY <1>5, <4>1, <4>2, GivenOrOld DEF Counted
            <4> QED
                BY <1>8, <4>2, <4>3, <4>4 DEF Counted, newRole
        <3> QED
            BY <3>1, <3>2
    <2> QED
        BY <2>1, <2>2
<1> HIDE DEF row
<1>11. j \in UpdateJob
    BY <1>2, <1>8 DEF UpdateJob
<1>12. Read(old, old)
    BY <1>2 DEF UsersInv, Read
<1>13. UNCHANGED <<users, roles, job>> \/ Accounts!Plan(Single, j)
    BY <1>1 DEF row
<1>14. CASE UNCHANGED <<users, roles, job>>
    BY <1>14 DEF UsersInv, UsersTyped, JobFits, CodeEnabled, Read, Accounts!Referenced
<1>15. CASE ~UNCHANGED <<users, roles, job>>
    <2>1. JobFits(j)
        BY <1>8, <1>9, <1>10, <1>12, <1>15 DEF JobFits, row
    <2> HIDE DEF j
    <2> QED
        BY <1>11, <1>13, <1>15, <2>1, UserPlans
<1> QED
    BY <1>14, <1>15

\* A super that is deleted leaves another.
LEMMA UserDeletes ==
    ASSUME UsersInv, NEW a \in User, NEW u \in User, Accounts!Delete(Single, a, u)
    PROVE  UsersInv'
<1> DEFINE j == [op |-> "update", u |-> u, was |-> users[u], row |-> Accounts!Absent]
<1>1. /\ users[u].here
      /\ \/ UNCHANGED <<users, roles, job>>
         \/ ~(Accounts!EnabledSuper(u) /\ Accounts!LastSuper) /\ Accounts!Plan(Single, j)
    BY DEF Accounts!Delete
<1>2. Accounts!Absent \in UserRow /\ CodeEnabled(Accounts!Absent)
    BY DEF Accounts!Absent, UserRow, CodeEnabled
<1>3. j \in UpdateJob
    BY <1>2 DEF UpdateJob, UsersInv, UsersTyped
<1>4. Read(users[u], users[u])
    BY <1>1 DEF UsersInv, Read
<1>5. CASE UNCHANGED <<users, roles, job>>
    BY <1>5 DEF UsersInv, UsersTyped, JobFits, CodeEnabled, Read, Accounts!Referenced
<1>6. CASE ~(Accounts!EnabledSuper(u) /\ Accounts!LastSuper) /\ Accounts!Plan(Single, j)
    <2>1. \E b \in User : Counted(users[b]) /\ b # u
        <3>1. CASE ~Accounts!LastSuper
            BY <3>1, AnotherSuper DEF UsersInv
        <3>2. CASE ~Accounts!EnabledSuper(u)
            BY <3>2 DEF UsersInv, Accounts!EnabledSuper, Counted
        <3> QED
            BY <1>6, <3>1, <3>2
    <2>2. JobFits(j)
        BY <1>2, <1>4, <2>1 DEF JobFits
    <2> HIDE DEF j
    <2> QED
        BY <1>3, <1>6, <2>2, UserPlans
<1> QED
    BY <1>1, <1>5, <1>6

\* A role is disabled or deleted only if nobody has it.
LEMMA RoleChanges ==
    ASSUME UsersInv, NEW r \in Role,
           \/ Accounts!CreateRole(Single, r) \/ Accounts!EnableRole(Single, r)
           \/ Accounts!DisableRole(Single, r) \/ Accounts!DeleteRole(Single, r)
    PROVE  UsersInv'
<1>1. PICK to \in RoleState :
        Accounts!Plan(Single, [op |-> "role", r |-> r, to |-> to]) /\ (to # "enabled" => ~Accounts!Referenced(r))
    BY DEF Accounts!CreateRole, Accounts!EnableRole, Accounts!DisableRole, Accounts!DeleteRole, RoleState
<1> DEFINE j == [op |-> "role", r |-> r, to |-> to]
<1>2. j \in RoleJob /\ JobFits(j) /\ Accounts!Plan(Single, j)
    BY <1>1 DEF RoleJob, JobFits
<1> HIDE DEF j
<1> QED
    BY <1>2, UserPlans

\* One request at a time: all of the row is written but a code that stays, which may be what
\* a start wrote.
LEMMA AllMerged ==
    ASSUME UsersTyped, NEW now \in UserRow, NEW was \in UserRow, NEW row \in UserRow,
           Read(was, now), row.here, CodeEnabled(row), CodeEnabled(now)
    PROVE  LET new == Accounts!Merged(now, was, row)
           IN  new \in UserRow /\ CodeEnabled(new) /\ (Counted(row) => Counted(new))
<1> DEFINE code == IF row.code = was.code THEN now.code ELSE row.code
<1> DEFINE new == [here |-> row.here, role |-> row.role, code |-> code, status |-> row.status]
<1>1. DOMAIN now = {"here", "role", "code", "status"}
    BY DEF UserRow
<1>2. /\ row.here = was.here => now.here = row.here
      /\ row.role = was.role => now.role = row.role
      /\ row.status = was.status => now.status = row.status
    BY DEF Read
<1>3. new = [f \in {"here", "role", "code", "status"} |-> IF row[f] = was[f] THEN now[f] ELSE row[f]]
    <2> DEFINE merged == [f \in {"here", "role", "code", "status"} |-> IF row[f] = was[f] THEN now[f] ELSE row[f]]
    <2>1. DOMAIN merged = {"here", "role", "code", "status"} /\ DOMAIN new = {"here", "role", "code", "status"}
        OBVIOUS
    <2> HIDE DEF merged
    <2>2. \A f \in {"here", "role", "code", "status"} : merged[f] = new[f]
        <3>1. /\ merged["here"] = row.here /\ merged["role"] = row.role /\ merged["status"] = row.status
              /\ merged["code"] = code
            BY <1>2 DEF merged
        <3>2. /\ new["here"] = row.here /\ new["role"] = row.role /\ new["status"] = row.status
              /\ new["code"] = code
            OBVIOUS
        <3> QED
            BY <3>1, <3>2
    <2> HIDE DEF new
    <2>3. new = [f \in {"here", "role", "code", "status"} |-> new[f]]
        BY <2>1 DEF new
    <2>4. merged = [f \in {"here", "role", "code", "status"} |-> merged[f]]
        BY DEF merged
    <2> QED
        BY <2>2, <2>3, <2>4 DEF merged
<1>4. Accounts!Merged(now, was, row) = new
    BY <1>1, <1>3 DEF Accounts!Merged
<1>5. code \in Role \cup {None, "super", "admin", "viewer"}
    BY DEF UserRow
<1>6. row.here /\ now.here /\ (code = now.code \/ code = row.code)
    BY DEF Read
<1> HIDE DEF code
<1>7. new \in UserRow
    BY <1>5 DEF UserRow
<1>8. CodeEnabled(new)
    BY <1>6 DEF CodeEnabled
<1>9. Counted(row) => Counted(new)
    BY DEF Counted
<1> QED
    BY <1>4, <1>7, <1>8, <1>9

LEMMA UserCommits ==
    ASSUME UsersInv, Accounts!Commit(Single)
    PROVE  UsersInv'
<1> DEFINE j == job[Single]
<1>1. j \in CreateJob \cup UpdateJob \cup RoleJob /\ job' = [job EXCEPT ![Single] = Accounts!Nothing]
    BY DEF Accounts!Commit, UsersInv, UsersTyped
<1>2. job'[Single] = Accounts!Nothing /\ JobFits(job[Single])'
      /\ job' \in [{Single} -> {Accounts!Nothing} \cup CreateJob \cup UpdateJob \cup RoleJob]
    BY <1>1 DEF UsersInv, UsersTyped, JobFits, Accounts!Nothing
<1>3. CASE j \in RoleJob
    <2>1. j.op = "role" /\ j.r \in Role /\ j.to \in RoleState
        BY <1>3 DEF RoleJob
    <2>2. UNCHANGED users /\ roles' = [roles EXCEPT ![j.r] = j.to]
        BY <2>1 DEF Accounts!Commit
    <2>3. roles' \in [Role -> RoleState] /\ roles'[j.r] = j.to /\ \A r \in Role \ {j.r} : roles'[r] = roles[r]
        BY <2>1, <2>2 DEF UsersInv, UsersTyped
    <2>4. j.to = "enabled" \/ \A u \in User : ~(users[u].here /\ users[u].code = j.r)
        BY <2>1 DEF UsersInv, JobFits, Accounts!Referenced
    <2>5. \A u \in User : CodeEnabled(users[u])'
        BY <2>2, <2>3, <2>4 DEF UsersInv, CodeEnabled
    <2> QED
        BY <1>2, <2>2, <2>3, <2>5 DEF UsersInv, UsersTyped
<1>4. CASE j \in CreateJob \cup UpdateJob
    <2>1. j.op \in {"create", "update"} /\ j.u \in User /\ j.row \in UserRow /\ CodeEnabled(j.row)
        BY <1>4 DEF CreateJob, UpdateJob, UsersInv, JobFits
    <2>2. UNCHANGED roles /\ Accounts!CommitUser(j)
        BY <2>1 DEF Accounts!Commit, Accounts!CommitUser
    <2>3. PICK new \in UserRow :
            users' = [users EXCEPT ![j.u] = new] /\ CodeEnabled(new) /\ (Counted(j.row) => Counted(new))
        <3>1. CASE j.op = "create"
            BY <2>1, <2>2, <3>1 DEF Accounts!CommitUser, UsersInv, JobFits
        <3>2. CASE j.op = "update" /\ j.row = Accounts!Absent
            <4>1. users' = [users EXCEPT ![j.u] = Accounts!Absent]
                BY <2>2, <3>2 DEF Accounts!CommitUser, UsersInv, JobFits, Read
            <4> QED
                BY <2>1, <3>2, <4>1
        <3>3. CASE j.op = "update" /\ j.row # Accounts!Absent
            <4>1. j.was \in UserRow
                BY <1>4, <3>3 DEF CreateJob, UpdateJob
            <4>2. /\ Read(j.was, users[j.u]) /\ j.row.here /\ users[j.u] \in UserRow /\ CodeEnabled(users[j.u])
                  /\ UsersTyped
                BY <2>1, <3>3 DEF UsersInv, UsersTyped, JobFits
            <4> DEFINE merged == Accounts!Merged(users[j.u], j.was, j.row)
            <4>3. merged \in UserRow /\ CodeEnabled(merged) /\ (Counted(j.row) => Counted(merged))
                BY <2>1, <4>1, <4>2, AllMerged
            <4>4. users' = [users EXCEPT ![j.u] = merged]
                <5>1. users[j.u].here
                    BY <4>2 DEF Read
                <5> QED
                    BY <2>2, <3>3, <5>1 DEF Accounts!CommitUser
            <4> HIDE DEF merged
            <4> QED
                BY <4>3, <4>4
        <3> QED
            BY <2>1, <3>1, <3>2, <3>3
    <2>4. users' \in [User -> UserRow] /\ users'[j.u] = new /\ \A u \in User \ {j.u} : users'[u] = users[u]
        BY <2>1, <2>3 DEF UsersInv, UsersTyped
    <2>5. PICK a \in User : Counted(users[a]) /\ (a = j.u => Counted(j.row))
        BY <2>1 DEF UsersInv, JobFits, Counted
    <2>6. Counted(users'[a])
        BY <2>3, <2>4, <2>5
    <2>7. \A u \in User : CodeEnabled(users[u])'
        BY <2>2, <2>3, <2>4 DEF UsersInv, CodeEnabled
    <2>8. (\E b \in User : Counted(users[b]))'
        BY <2>6 DEF Counted
    <2> QED
        BY <1>2, <2>2, <2>4, <2>7, <2>8 DEF UsersInv, UsersTyped
<1> QED
    BY <1>1, <1>3, <1>4

\* A start writes codes of built-in roles, into rows that have none.
LEMMA UserRestart ==
    ASSUME UsersInv, Accounts!Restart
    PROVE  UsersInv'
<1> DEFINE coded(row) == [row EXCEPT !.code = Accounts!Builtin(row.role)]
<1>1. users' = [u \in User |-> IF users[u].here /\ users[u].code = None THEN coded(users[u]) ELSE users[u]]
      /\ UNCHANGED <<roles, job>>
    BY DEF Accounts!Restart
<1>2. Role \cap {None, "super", "admin", "viewer"} = {}
    BY UsersAssumption DEF Accounts!UsersConstants
<1>3. ASSUME NEW u \in User
      PROVE  /\ users'[u] \in UserRow /\ CodeEnabled(users[u])'
             /\ users'[u].here = users[u].here /\ users'[u].role = users[u].role /\ users'[u].status = users[u].status
             /\ users'[u].code \in Role => users'[u].code = users[u].code
    <2>1. users[u] \in UserRow /\ CodeEnabled(users[u])
        BY DEF UsersInv, UsersTyped
    <2>2. Accounts!Builtin(users[u].role) \in {"super", "admin", "viewer"}
        BY <2>1 DEF Accounts!Builtin, UserRow
    <2>3. CASE users[u].here /\ users[u].code = None
        <3>1. users'[u] = coded(users[u])
            BY <1>1, <2>3
        <3>2. /\ coded(users[u]) \in UserRow /\ coded(users[u]).code = Accounts!Builtin(users[u].role)
              /\ coded(users[u]).here = users[u].here /\ coded(users[u]).role = users[u].role
              /\ coded(users[u]).status = users[u].status
            BY <2>1, <2>2 DEF UserRow
        <3> HIDE DEF coded
        <3> QED
            BY <1>2, <2>2, <3>1, <3>2 DEF CodeEnabled
    <2>4. CASE ~(users[u].here /\ users[u].code = None)
        BY <1>1, <2>1, <2>4 DEF CodeEnabled
    <2> QED
        BY <2>3, <2>4
<1>4. UsersTyped'
    BY <1>1, <1>3 DEF UsersInv, UsersTyped
<1>5. \A u \in User : CodeEnabled(users[u])'
    BY <1>3
<1>6. \A u \in User : Counted(users[u]) => Counted(users'[u])
    BY <1>3 DEF Counted
<1>7. (\E u \in User : Counted(users[u]))'
    BY <1>6 DEF UsersInv, Counted
<1>8. JobFits(job[Single])'
    <2>0. PICK j \in {Accounts!Nothing} \cup CreateJob \cup UpdateJob \cup RoleJob : j = job[Single] /\ JobFits(j)
        BY DEF UsersInv, UsersTyped
    <2> SUFFICES JobFits(j)'
        BY <1>1, <2>0
    <2>1. CASE j = Accounts!Nothing
        BY <2>0, <2>1 DEF JobFits, Accounts!Nothing
    <2>2. CASE j \in CreateJob
        BY <1>1, <1>3, <2>0, <2>2 DEF JobFits, CreateJob, CodeEnabled
    <2>3. CASE j \in RoleJob
        BY <1>3, <2>0, <2>3 DEF JobFits, RoleJob, Accounts!Referenced
    <2>4. CASE j \in UpdateJob
        <3>1. j.op = "update" /\ j.u \in User
            BY <2>4 DEF UpdateJob
        <3>2. (Read(j.was, users[j.u]) /\ CodeEnabled(j.row))'
            BY <1>1, <1>3, <2>0, <3>1 DEF JobFits, Read, CodeEnabled
        <3>3. PICK a \in User : Counted(users[a]) /\ (a = j.u => Counted(j.row))
            BY <2>0, <3>1 DEF JobFits
        <3>4. \E b \in User : Counted(users'[b]) /\ (b = j.u => Counted(j.row))
            BY <1>6, <3>3
        <3>5. j.row = Accounts!Absent \/ j.row.here
            BY <2>0, <3>1 DEF JobFits
        <3> QED
            BY <2>0, <3>1, <3>2, <3>4, <3>5 DEF JobFits, Counted
    <2> QED
        BY <2>0, <2>1, <2>2, <2>3, <2>4
<1> QED
    BY <1>4, <1>5, <1>7, <1>8 DEF UsersInv

LEMMA UsersNext ==
    ASSUME UsersInv, Accounts!Next
    PROVE  UsersInv'
<1>1. Accounts!Request(Single) \/ Accounts!Commit(Single) \/ Accounts!Restart
    BY DEF Accounts!Next
<1>2. ASSUME NEW a \in User,
             \/ \E u \in User : Accounts!Create(Single, u) \/ Accounts!Update(Single, a, u) \/ Accounts!Delete(Single, a, u)
             \/ \E r \in Role : Accounts!CreateRole(Single, r) \/ Accounts!EnableRole(Single, r)
                                \/ Accounts!DisableRole(Single, r) \/ Accounts!DeleteRole(Single, r)
      PROVE  UsersInv'
    BY <1>2, UserCreates, UserUpdates, UserDeletes, RoleChanges
<1> QED
    BY <1>1, <1>2, UserCommits, UserRestart DEF Accounts!Request

\* Whatever requests come one after the other, of whomever, and however often nodes start,
\* the guards leave an enabled super, who can log in and manage the users if his code does
\* not say otherwise, and no role of a user is disabled or deleted (users.py, roles.py).
THEOREM SomeSuperAlwaysStays == Spec => []SomeSuperStays
<1>1. Init => UsersInv
    BY UsersInit DEF Init
<1>2. UsersInv /\ [Next]_vars => UsersInv'
    <2> SUFFICES ASSUME UsersInv, [Next]_vars PROVE UsersInv'
        OBVIOUS
    <2>1. CASE scenario = "accounts" /\ Accounts!Next /\ RestButUsers
        BY <2>1, UsersNext
    <2>2. CASE UNCHANGED userVars
        BY <2>2 DEF userVars, UsersInv, UsersTyped, JobFits, CodeEnabled, Read, Accounts!Referenced
    <2> QED
        BY <2>1, <2>2 DEF Next, vars, RestButTenants, RestButForm, RestButProvision, RestButStart
<1>3. UsersInv => SomeSuperStays
    <2> SUFFICES ASSUME UsersInv PROVE Accounts!SomeSuperStays /\ Accounts!RolesOfUsersStay
        BY DEF SomeSuperStays
    <2>1. Accounts!SomeSuperStays
        BY DEF UsersInv, Counted, Accounts!SomeSuperStays, Accounts!EnabledSupers, Accounts!EnabledSuper,
               Accounts!Manages
    <2>2. Accounts!RolesOfUsersStay
        BY DEF UsersInv, CodeEnabled, Accounts!RolesOfUsersStay, Accounts!Coded
    <2> QED
        BY <2>1, <2>2
<1> QED
    BY <1>1, <1>2, <1>3, PTL DEF Spec
-----------------------------------------------------------------------------
(* Account numbers, while requests overlap. *)

\* A set of numbers below a bound has a largest.
LEMMA LargestNumber ==
    ASSUME NEW S \in SUBSET Nat, S # {}, NEW b \in Nat, \A x \in S : x < b
    PROVE  Numbers!Max(S) \in S /\ \A x \in S : x <= Numbers!Max(S)
<1> DEFINE T == {b - x : x \in S}
<1>1. T \subseteq Nat /\ T # {}
    <2>1. \A x \in S : b - x \in Nat
        OBVIOUS
    <2> QED
        BY <2>1
<1>2. PICK t \in T : \A y \in T : ~ (<<y, t>> \in OpToRel(<, Nat))
    BY <1>1, NatLessThanWellFounded, WFMin
<1>3. \A y \in T : t <= y
    <2> SUFFICES ASSUME NEW y \in T, ~ (t <= y) PROVE FALSE
        OBVIOUS
    <2>1. t \in Nat /\ y \in Nat /\ y < t
        BY <1>1
    <2>2. <<y, t>> \in OpToRel(<, Nat)
        BY <2>1 DEF OpToRel
    <2> QED
        BY <1>2, <2>2
<1>4. PICK m \in S : t = b - m
    OBVIOUS
<1>5. \A x \in S : b - x \in T
    OBVIOUS
<1>6. \A x \in S : m >= x
    BY <1>3, <1>4, <1>5
<1>7. Numbers!Max(S) \in S /\ \A x \in S : Numbers!Max(S) >= x
    BY <1>6 DEF Numbers!Max
<1> QED
    BY <1>7

\* Each request raises the largest number by one at most.
NumbersUpTo(k) == Numbers!FIRST .. (Numbers!FIRST + k - 1)

AccountJob(k) == [op : {"account"}, acct : Account, number : NumbersUpTo(k)]
DeleteJob == [op : {"delete"}, acct : Account]
PhoneJob == [op : {"phone"}, phone : Phone, acct : Account \cup {None}, prefix : Nat, blank : BOOLEAN, new : BOOLEAN]
PointJob == [op : {"ap"}, ap : AccessPoint, acct : Account]
TenantJob(k) == {Numbers!Idle} \cup AccountJob(k) \cup DeleteJob \cup PhoneJob \cup PointJob

NumbersTyped ==
    /\ Numbers!Accounts \subseteq Account /\ number \in [Numbers!Accounts -> NumbersUpTo(requests)]
    /\ phone \in [Phone -> [acct : Account \cup {None}, prefix : Nat]]
    /\ ap \in [AccessPoint -> Account \cup {None}]
    /\ requests \in 0 .. MaxNumbers /\ req \in [Overlapping -> TenantJob(requests)]

NumbersInv == NumbersTyped /\ Numbers!NumbersAreUnique

LEMMA NumbersInit == Numbers!Init => NumbersInv
<1> SUFFICES ASSUME Numbers!Init PROVE NumbersInv
    OBVIOUS
<1>1. DOMAIN number = {}
    BY DEF Numbers!Init
<1>2. Numbers!Absent \in [acct : Account \cup {None}, prefix : Nat]
    BY DEF Numbers!Absent
<1>3. MaxNumbers \in Nat
    BY TenantsAssumption DEF Numbers!TenantsConstants
<1> QED
    BY <1>1, <1>2, <1>3
    DEF Numbers!Init, NumbersInv, NumbersTyped, Numbers!NumbersAreUnique, Numbers!Accounts, TenantJob

LEMMA MoreRequests ==
    ASSUME NEW k \in Nat
    PROVE  NumbersUpTo(k) \subseteq NumbersUpTo(k + 1) /\ TenantJob(k) \subseteq TenantJob(k + 1)
<1>1. NumbersUpTo(k) \subseteq NumbersUpTo(k + 1)
    BY DEF NumbersUpTo, Numbers!FIRST
<1> QED
    BY <1>1 DEF TenantJob, AccountJob

\* A request that begins.
LEMMA NumbersBegin ==
    ASSUME NumbersInv, NEW r \in Overlapping, NEW j \in TenantJob(requests + 1), Numbers!Begin(r, j)
    PROVE  NumbersInv'
<1>1. UNCHANGED <<number, phone, ap>> /\ req' = [req EXCEPT ![r] = j]
      /\ requests' = requests + 1 /\ requests < MaxNumbers
    BY DEF Numbers!Begin
<1>2. requests \in Nat /\ MaxNumbers \in Nat
    BY TenantsAssumption DEF Numbers!TenantsConstants, NumbersInv, NumbersTyped
<1>3. requests' \in 0 .. MaxNumbers
    BY <1>1, <1>2
<1>4. req' \in [Overlapping -> TenantJob(requests')]
    BY <1>1, <1>2, MoreRequests DEF NumbersInv, NumbersTyped
<1>5. number' \in [Numbers!Accounts -> NumbersUpTo(requests')]
    BY <1>1, <1>2, MoreRequests DEF NumbersInv, NumbersTyped
<1> QED
    BY <1>1, <1>3, <1>4, <1>5 DEF NumbersInv, NumbersTyped, Numbers!NumbersAreUnique, Numbers!Accounts

\* The number of a new account is one above the largest there is.
LEMMA NextNumberTyped ==
    ASSUME NumbersInv
    PROVE  Numbers!NextNumber \in NumbersUpTo(requests + 1) /\ Numbers!Numbers \subseteq Nat
<1> DEFINE S == Numbers!Numbers
<1> DEFINE b == 8000 + requests
<1>1. requests \in Nat /\ S \subseteq NumbersUpTo(requests)
    BY DEF NumbersInv, NumbersTyped, Numbers!Numbers
<1>2. b \in Nat /\ S \in SUBSET Nat /\ \A x \in S : x < b /\ x >= 8000
    BY <1>1 DEF NumbersUpTo, Numbers!FIRST
<1>3. Numbers!NextNumber = IF S = {} THEN 8000 ELSE Numbers!Max(S) + 1
    BY DEF Numbers!NextNumber, Numbers!FIRST
<1>4. \A x \in 8000 .. b : x \in NumbersUpTo(requests + 1)
    BY <1>1 DEF NumbersUpTo, Numbers!FIRST
<1>5. b >= 8000
    BY <1>1
<1> HIDE DEF S, b
<1>6. S # {} => Numbers!Max(S) \in S
    BY <1>2, LargestNumber
<1>7. S # {} => Numbers!Max(S) + 1 \in 8000 .. b
    <2>1. \A x \in S : x \in Nat /\ x < b /\ x >= 8000
        BY <1>2
    <2>2. \A x \in S : x + 1 \in 8000 .. b
        BY <1>2, <2>1
    <2> QED
        BY <1>6, <2>2
<1>8. Numbers!NextNumber \in 8000 .. b
    BY <1>2, <1>3, <1>5, <1>7
<1> QED
    BY <1>2, <1>4, <1>8 DEF S

LEMMA NumbersRequest ==
    ASSUME NumbersInv, NEW r \in Overlapping,
           \/ \E a \in Account : Numbers!CreateAccount(r, a) \/ Numbers!DeleteAccount(r, a)
           \/ \E p \in Phone : Numbers!SavePhone(r, p)
           \/ \E x \in AccessPoint : Numbers!SaveAccessPoint(r, x)
    PROVE  NumbersInv'
<1>1. ASSUME NEW a \in Account, Numbers!CreateAccount(r, a) PROVE NumbersInv'
    <2> DEFINE j == [op |-> "account", acct |-> a, number |-> Numbers!NextNumber]
    <2>1. j \in TenantJob(requests + 1)
        BY NextNumberTyped DEF TenantJob, AccountJob
    <2>2. Numbers!Begin(r, j)
        BY <1>1 DEF Numbers!CreateAccount
    <2> HIDE DEF j
    <2> QED
        BY <2>1, <2>2, NumbersBegin
<1>2. ASSUME NEW a \in Account, Numbers!DeleteAccount(r, a) PROVE NumbersInv'
    <2> DEFINE j == [op |-> "delete", acct |-> a]
    <2>1. j \in TenantJob(requests + 1)
        BY DEF TenantJob, DeleteJob
    <2>2. Numbers!Begin(r, j)
        BY <1>2 DEF Numbers!DeleteAccount
    <2> HIDE DEF j
    <2> QED
        BY <2>1, <2>2, NumbersBegin
<1>3. ASSUME NEW p \in Phone, Numbers!SavePhone(r, p) PROVE NumbersInv'
    <2>1. PICK acct \in Account \cup {None}, prefix \in Numbers!Numbers \cup {0}, blank \in BOOLEAN :
            Numbers!Begin(r, [op |-> "phone", phone |-> p, acct |-> acct, prefix |-> prefix, blank |-> blank,
                              new |-> phone[p] = Numbers!Absent])
        BY <1>3 DEF Numbers!SavePhone
    <2> DEFINE j == [op |-> "phone", phone |-> p, acct |-> acct, prefix |-> prefix, blank |-> blank,
                     new |-> phone[p] = Numbers!Absent]
    <2>2. prefix \in Nat
        BY NextNumberTyped
    <2>3. j \in TenantJob(requests + 1)
        BY <2>2 DEF TenantJob, PhoneJob
    <2>4. Numbers!Begin(r, j)
        BY <2>1
    <2> HIDE DEF j
    <2> QED
        BY <2>3, <2>4, NumbersBegin
<1>4. ASSUME NEW x \in AccessPoint, Numbers!SaveAccessPoint(r, x) PROVE NumbersInv'
    <2>1. PICK a \in Numbers!Accounts : Numbers!Begin(r, [op |-> "ap", ap |-> x, acct |-> a])
        BY <1>4 DEF Numbers!SaveAccessPoint
    <2> DEFINE j == [op |-> "ap", ap |-> x, acct |-> a]
    <2>2. j \in TenantJob(requests + 1)
        BY DEF TenantJob, PointJob, NumbersInv, NumbersTyped
    <2>3. Numbers!Begin(r, j)
        BY <2>1
    <2> HIDE DEF j
    <2> QED
        BY <2>2, <2>3, NumbersBegin
<1> QED
    BY <1>1, <1>2, <1>3, <1>4

\* A number is written only if no account has it by then.
LEMMA NumbersCommit ==
    ASSUME NumbersInv, NEW r \in Overlapping,
           \/ Numbers!CommitAccount(r) \/ Numbers!CommitDelete(r)
           \/ Numbers!CommitPhone(r) \/ Numbers!CommitAccessPoint(r)
    PROVE  NumbersInv'
<1> DEFINE j == req[r]
<1>1. j \in TenantJob(requests)
    BY DEF NumbersInv, NumbersTyped
<1>2. UNCHANGED requests /\ req' \in [Overlapping -> TenantJob(requests)]
    <2>1. UNCHANGED requests /\ req' = [req EXCEPT ![r] = Numbers!Idle]
        BY DEF Numbers!CommitAccount, Numbers!CommitDelete, Numbers!CommitPhone, Numbers!CommitAccessPoint, Numbers!End
    <2>2. Numbers!Idle \in TenantJob(requests)
        BY DEF TenantJob
    <2> QED
        BY <2>1, <2>2 DEF NumbersInv, NumbersTyped
<1>3. CASE Numbers!CommitAccount(r)
    <2>1. j.acct \in Account /\ j.number \in NumbersUpTo(requests)
        BY <1>1, <1>3 DEF Numbers!CommitAccount, TenantJob, AccountJob, DeleteJob, PhoneJob, PointJob, Numbers!Idle
    <2>2. UNCHANGED <<phone, ap>>
        BY <1>3 DEF Numbers!CommitAccount
    <2>3. CASE UNCHANGED number
        BY <1>2, <2>2, <2>3 DEF NumbersInv, NumbersTyped, Numbers!NumbersAreUnique, Numbers!Accounts
    <2>4. CASE /\ j.number \notin Numbers!Numbers
               /\ number' = [a \in Numbers!Accounts \cup {j.acct} |-> IF a = j.acct THEN j.number ELSE number[a]]
        <3>1. DOMAIN number' = Numbers!Accounts \cup {j.acct} /\ Numbers!Accounts \cup {j.acct} \subseteq Account
              /\ number' \in [Numbers!Accounts \cup {j.acct} -> NumbersUpTo(requests)]
            BY <2>1, <2>4 DEF NumbersInv, NumbersTyped
        <3>2. \A a \in Numbers!Accounts : number[a] # j.number
            BY <2>4 DEF Numbers!Numbers
        <3>3. Numbers!NumbersAreUnique'
            BY <2>4, <3>1, <3>2 DEF NumbersInv, Numbers!NumbersAreUnique, Numbers!Accounts
        <3> QED
            BY <1>2, <2>2, <3>1, <3>3 DEF NumbersInv, NumbersTyped, Numbers!Accounts
    <2> QED
        BY <1>3, <2>3, <2>4 DEF Numbers!CommitAccount
<1>4. CASE Numbers!CommitDelete(r)
    <2>1. UNCHANGED <<phone, ap>>
          /\ (UNCHANGED number \/ number' = [a \in Numbers!Accounts \ {j.acct} |-> number[a]])
        BY <1>4 DEF Numbers!CommitDelete
    <2> QED
        BY <1>2, <2>1 DEF NumbersInv, NumbersTyped, Numbers!NumbersAreUnique, Numbers!Accounts
<1>5. CASE Numbers!CommitPhone(r)
    <2>1. j \in PhoneJob
        BY <1>1, <1>5 DEF Numbers!CommitPhone, TenantJob, AccountJob, DeleteJob, PointJob, Numbers!Idle
    <2> DEFINE old == phone[j.phone]
    <2> DEFINE row == [acct |-> IF j.blank THEN None ELSE IF j.acct = None THEN old.acct ELSE j.acct,
                       prefix |-> IF j.prefix = 0 THEN old.prefix ELSE j.prefix]
    <2>2. row \in [acct : Account \cup {None}, prefix : Nat]
        BY <2>1 DEF PhoneJob, NumbersInv, NumbersTyped
    <2>3. UNCHANGED <<number, ap>> /\ phone' \in {phone, [phone EXCEPT ![j.phone] = row]}
        BY <1>5 DEF Numbers!CommitPhone
    <2> HIDE DEF row
    <2>4. phone' \in [Phone -> [acct : Account \cup {None}, prefix : Nat]]
        BY <2>2, <2>3 DEF NumbersInv, NumbersTyped
    <2> QED
        BY <1>2, <2>3, <2>4 DEF NumbersInv, NumbersTyped, Numbers!NumbersAreUnique, Numbers!Accounts
<1>6. CASE Numbers!CommitAccessPoint(r)
    <2>1. j.acct \in Account
        BY <1>1, <1>6 DEF Numbers!CommitAccessPoint, TenantJob, AccountJob, DeleteJob, PhoneJob, PointJob, Numbers!Idle
    <2>2. UNCHANGED <<number, phone>> /\ ap' \in [AccessPoint -> Account \cup {None}]
        BY <1>6, <2>1 DEF Numbers!CommitAccessPoint, NumbersInv, NumbersTyped
    <2> QED
        BY <1>2, <2>2 DEF NumbersInv, NumbersTyped, Numbers!NumbersAreUnique, Numbers!Accounts
<1> QED
    BY <1>3, <1>4, <1>5, <1>6

LEMMA NumbersInvImplies == ASSUME NumbersInv PROVE Numbers!TypeOK
<1>1. \A k \in 0 .. MaxNumbers : NumbersUpTo(k) \subseteq Numbers!FIRST .. Numbers!FIRST + MaxNumbers
    BY TenantsAssumption DEF Numbers!TenantsConstants, NumbersUpTo, Numbers!FIRST
<1>2. \A r \in Overlapping : req[r].op \in {"idle", "account", "delete", "phone", "ap"}
    BY DEF NumbersInv, NumbersTyped, TenantJob, AccountJob, DeleteJob, PhoneJob, PointJob, Numbers!Idle
<1> QED
    BY <1>1, <1>2 DEF NumbersInv, NumbersTyped, Numbers!TypeOK
-----------------------------------------------------------------------------
(* Phones and their accounts, one request at a time. *)

\* What a request is about to write, of rows that are as it read them.
TenantJobFits(j) ==
    /\ j.op \in {"idle", "account", "delete", "phone"}
    /\ j.op = "account" => j.acct \in Account \ Phones!Accounts
    /\ j.op = "delete" => Phones!Phones(j.acct) = {}
    /\ j.op = "phone" =>
        /\ j.phone \in Phone2 /\ j.blank \in BOOLEAN /\ (j.blank => j.acct = None)
        /\ LET a == IF j.acct = None THEN phone[j.phone].acct ELSE j.acct
               n == IF j.prefix = 0 THEN phone[j.phone].prefix ELSE j.prefix
           IN  a \in Phones!Accounts /\ n = number[a]

PhonesInv ==
    /\ Phones!Accounts \subseteq Account /\ DOMAIN phone = Phone2 /\ phone = [p \in Phone2 |-> phone[p]]
    /\ req = [r \in {Single} |-> req[Single]] /\ TenantJobFits(req[Single])
    /\ Phones!PhoneIsOfItsAccount

LEMMA PhonesInit == Phones!Init => PhonesInv
<1> SUFFICES ASSUME Phones!Init PROVE PhonesInv
    OBVIOUS
<1>1. DOMAIN number = {} /\ req[Single].op = "idle" /\ req = [r \in {Single} |-> req[Single]]
    BY DEF Phones!Init, Phones!Idle
<1> QED
    BY <1>1 DEF Phones!Init, PhonesInv, TenantJobFits, Phones!Accounts, Phones!PhoneIsOfItsAccount

LEMMA PhonesBegin ==
    ASSUME PhonesInv, NEW j, TenantJobFits(j), Phones!Begin(Single, j)
    PROVE  PhonesInv'
<1>1. UNCHANGED <<number, phone, ap>> /\ req' = [req EXCEPT ![Single] = j]
    BY DEF Phones!Begin
<1>2. req'[Single] = j /\ req' = [r \in {Single} |-> req'[Single]]
    BY <1>1 DEF PhonesInv
<1>3. TenantJobFits(req[Single])'
    BY <1>1, <1>2 DEF TenantJobFits, Phones!Accounts, Phones!Phones
<1> QED
    BY <1>1, <1>2, <1>3 DEF PhonesInv, Phones!PhoneIsOfItsAccount, Phones!Accounts

LEMMA PhonesRequest ==
    ASSUME PhonesInv,
           \/ \E a \in Account : Phones!CreateAccount(Single, a) \/ Phones!DeleteAccount(Single, a)
           \/ \E p \in Phone2 : Phones!SavePhone(Single, p)
    PROVE  PhonesInv'
<1>1. ASSUME NEW a \in Account, Phones!CreateAccount(Single, a) PROVE PhonesInv'
    <2> DEFINE j == [op |-> "account", acct |-> a, number |-> Phones!NextNumber]
    <2>1. TenantJobFits(j) /\ Phones!Begin(Single, j)
        BY <1>1 DEF Phones!CreateAccount, TenantJobFits
    <2> HIDE DEF j
    <2> QED
        BY <2>1, PhonesBegin
<1>2. ASSUME NEW a \in Account, Phones!DeleteAccount(Single, a) PROVE PhonesInv'
    <2> DEFINE j == [op |-> "delete", acct |-> a]
    <2>1. TenantJobFits(j) /\ Phones!Begin(Single, j)
        BY <1>2 DEF Phones!DeleteAccount, TenantJobFits
    <2> HIDE DEF j
    <2> QED
        BY <2>1, PhonesBegin
<1>3. ASSUME NEW p \in Phone2, Phones!SavePhone(Single, p) PROVE PhonesInv'
    <2>1. PICK acct \in Account \cup {None}, prefix \in Phones!Numbers \cup {0}, blank \in BOOLEAN :
            /\ blank => acct = None
            /\ Phones!Valid(p, acct, prefix)
            /\ Phones!Begin(Single, [op |-> "phone", phone |-> p, acct |-> acct, prefix |-> prefix,
                                     blank |-> blank, new |-> phone[p] = Phones!Absent])
        BY <1>3 DEF Phones!SavePhone
    <2> DEFINE j == [op |-> "phone", phone |-> p, acct |-> acct, prefix |-> prefix, blank |-> blank,
                     new |-> phone[p] = Phones!Absent]
    <2>2. TenantJobFits(j)
        BY <2>1 DEF Phones!Valid, TenantJobFits
    <2>3. Phones!Begin(Single, j)
        BY <2>1
    <2> HIDE DEF j
    <2> QED
        BY <2>2, <2>3, PhonesBegin
<1> QED
    BY <1>1, <1>2, <1>3

\* No account goes while it has phones, and a phone gets the account and the number that
\* were checked; an account that is sent empty is refused by the column.
LEMMA PhonesCommit ==
    ASSUME PhonesInv,
           \/ Phones!CommitAccount(Single) \/ Phones!CommitDelete(Single)
           \/ Phones!CommitPhone(Single) \/ Phones!CommitAccessPoint(Single)
    PROVE  PhonesInv'
<1> DEFINE j == req[Single]
<1>1. req' = [req EXCEPT ![Single] = Phones!Idle]
    BY DEF Phones!CommitAccount, Phones!CommitDelete, Phones!CommitPhone, Phones!CommitAccessPoint, Phones!End
<1>2. req'[Single] = Phones!Idle /\ req' = [r \in {Single} |-> req'[Single]]
    BY <1>1 DEF PhonesInv
<1>3. TenantJobFits(req[Single])'
    BY <1>2 DEF TenantJobFits, Phones!Idle
<1>4. CASE Phones!CommitAccount(Single)
    <2>1. j.acct \in Account \ Phones!Accounts /\ UNCHANGED phone
        BY <1>4 DEF Phones!CommitAccount, PhonesInv, TenantJobFits
    <2>2. UNCHANGED number \/ number' = [a \in Phones!Accounts \cup {j.acct} |-> IF a = j.acct THEN j.number ELSE number[a]]
        BY <1>4 DEF Phones!CommitAccount
    <2>3. DOMAIN number' \subseteq Account
          /\ \A a \in Phones!Accounts : a \in DOMAIN number' /\ number'[a] = number[a]
        BY <2>1, <2>2 DEF PhonesInv, Phones!Accounts
    <2> QED
        BY <1>2, <1>3, <2>1, <2>3 DEF PhonesInv, Phones!PhoneIsOfItsAccount, Phones!Accounts
<1>5. CASE Phones!CommitDelete(Single)
    <2>1. \A p \in Phone2 : phone[p].acct # j.acct
        BY <1>5 DEF Phones!CommitDelete, PhonesInv, TenantJobFits, Phones!Phones
    <2>2. UNCHANGED phone /\ (UNCHANGED number \/ number' = [a \in Phones!Accounts \ {j.acct} |-> number[a]])
        BY <1>5 DEF Phones!CommitDelete
    <2>3. DOMAIN number' \subseteq Account
          /\ \A a \in Phones!Accounts \ {j.acct} : a \in DOMAIN number' /\ number'[a] = number[a]
        BY <2>2 DEF PhonesInv, Phones!Accounts
    <2> QED
        BY <1>2, <1>3, <2>1, <2>2, <2>3 DEF PhonesInv, Phones!PhoneIsOfItsAccount, Phones!Accounts
<1>6. CASE Phones!CommitPhone(Single)
    <2> DEFINE old == phone[j.phone]
    <2> DEFINE row == [acct |-> IF j.blank THEN None ELSE IF j.acct = None THEN old.acct ELSE j.acct,
                       prefix |-> IF j.prefix = 0 THEN old.prefix ELSE j.prefix]
    <2>1. j.op = "phone" /\ UNCHANGED number /\ j.phone \in Phone2
        BY <1>6 DEF Phones!CommitPhone, PhonesInv, TenantJobFits
    <2>2. CASE UNCHANGED phone
        BY <1>2, <1>3, <2>1, <2>2 DEF PhonesInv, Phones!PhoneIsOfItsAccount, Phones!Accounts
    <2>3. CASE row.acct \in Phones!Accounts /\ phone' = [phone EXCEPT ![j.phone] = row]
        <3>1. None \notin Phones!Accounts
            BY TenantsAssumption DEF Numbers!TenantsConstants, PhonesInv
        <3>2. j.blank = FALSE
            BY <2>1, <2>3, <3>1 DEF PhonesInv, TenantJobFits
        <3>3. row.prefix = number[row.acct]
            BY <2>1, <3>2 DEF PhonesInv, TenantJobFits
        <3> HIDE DEF row
        <3>4. phone'[j.phone] = row /\ (\A p \in Phone2 \ {j.phone} : phone'[p] = phone[p])
              /\ DOMAIN phone' = Phone2 /\ phone' = [p \in Phone2 |-> phone'[p]]
            BY <2>1, <2>3 DEF PhonesInv
        <3> QED
            BY <1>2, <1>3, <2>1, <2>3, <3>3, <3>4 DEF PhonesInv, Phones!PhoneIsOfItsAccount, Phones!Accounts
    <2> QED
        BY <1>6, <2>2, <2>3 DEF Phones!CommitPhone
<1>7. CASE Phones!CommitAccessPoint(Single)
    BY <1>7 DEF Phones!CommitAccessPoint, PhonesInv, TenantJobFits
<1> QED
    BY <1>4, <1>5, <1>6, <1>7

\* Whatever requests overlap, account numbers are unique; and if they come one after the
\* other, a phone is of an account there is and has its number.
THEOREM PhoneAlwaysOfItsAccount == Spec => []PhoneIsOfItsAccount
<1> DEFINE Inv == (scenario = "numbers" => NumbersInv) /\ (scenario = "phones" => PhonesInv)
<1>1. Init => Inv
    BY NumbersInit, PhonesInit DEF Init
<1>2. Inv /\ [Next]_vars => Inv'
    <2> SUFFICES ASSUME Inv, [Next]_vars PROVE Inv'
        OBVIOUS
    <2>1. CASE scenario = "numbers" /\ Numbers!Next /\ RestButTenants
        <3>1. NumbersInv'
            BY <2>1, NumbersRequest, NumbersCommit DEF Numbers!Next
        <3> QED
            BY <2>1, <3>1 DEF RestButTenants
    <2>2. CASE scenario = "phones" /\ Phones!Next /\ RestButTenants
        <3>1. PhonesInv'
            BY <2>2, PhonesRequest, PhonesCommit DEF Phones!Next
        <3> QED
            BY <2>2, <3>1 DEF RestButTenants
    <2>3. CASE UNCHANGED tenantVars /\ UNCHANGED scenario
        <3>1. NumbersInv => NumbersInv'
            BY <2>3 DEF tenantVars, NumbersInv, NumbersTyped, Numbers!NumbersAreUnique, Numbers!Accounts
        <3>2. PhonesInv => PhonesInv'
            BY <2>3 DEF tenantVars, PhonesInv, TenantJobFits, Phones!PhoneIsOfItsAccount, Phones!Accounts, Phones!Phones
        <3> QED
            BY <2>3, <3>1, <3>2
    <2> QED
        BY <2>1, <2>2, <2>3 DEF Next, vars, RestButUsers, RestButForm, RestButProvision, RestButStart
<1>3. Inv => PhoneIsOfItsAccount
    BY NumbersInvImplies DEF PhoneIsOfItsAccount, NumbersInv, PhonesInv
<1> QED
    BY <1>1, <1>2, <1>3, PTL DEF Spec
-----------------------------------------------------------------------------
(* Changes of gateways: the lemmas of ProvisionProofs in the two instances *)
(* of Provision.                                                           *)

SavesP == INSTANCE ProvisionProofs WITH
    Node <- NewsNode, Request <- Overlapping, Op <- {"save"}, Existing <- Gateway, Listed <- <<>>,
    MaxPending <- 1, MaxRestarts <- 0, MaxFailures <- 0

NamesP == INSTANCE ProvisionProofs WITH
    Node <- NewsNode, Gateway <- RenamedGateway, Request <- {Single},
    Op <- {"save", "rename", "remove", "force"}, Existing <- Gateway,
    MaxPending <- 4, MaxRestarts <- 1, MaxFailures <- 1

\* The lemmas speak of the same steps and the same properties.
LEMMA SavesSame ==
    /\ SavesP!ProvisionConstants
    /\ Saves!Init <=> SavesP!Init
    /\ Saves!Next <=> SavesP!Next
    /\ Saves!TypeOK <=> SavesP!TypeOK
    /\ Saves!ChangeReachesNodes <=> SavesP!ChangeReachesNodes
    /\ Saves!OwnNodeIsCurrent <=> SavesP!OwnNodeIsCurrent
<1>1. SavesP!ProvisionConstants
    BY ProvisionAssumption
    DEF Saves!ProvisionConstants, SavesP!ProvisionConstants, Saves!IsInjective, SavesP!IsInjective
<1>2. Saves!Init <=> SavesP!Init
    BY DEF Saves!Init, SavesP!Init
<1>3. Saves!Next <=> SavesP!Next
    BY DEF Saves!Next, SavesP!Next, Saves!Save, SavesP!Save, Saves!Rename, SavesP!Rename, Saves!RemoveGateway,
           SavesP!RemoveGateway, Saves!ForceRescan, SavesP!ForceRescan, Saves!Free, SavesP!Free, Saves!Enter, SavesP!Enter,
           Saves!Commit, SavesP!Commit, Saves!Between, SavesP!Between, Saves!AllGateways, SavesP!AllGateways,
           Saves!ReadList, SavesP!ReadList, Saves!Merged, SavesP!Merged, Saves!Added, SavesP!Added,
           Saves!Contains, SavesP!Contains, Saves!Last, SavesP!Last, Saves!ToSet, SavesP!ToSet, Saves!WriteSeq,
           SavesP!WriteSeq, Saves!WriteList, SavesP!WriteList, Saves!Rescan, SavesP!Rescan, Saves!Spawn,
           SavesP!Spawn, Saves!Job, SavesP!Job, Saves!Look, SavesP!Look, Saves!Sync, SavesP!Sync,
           Saves!ToRebuild, SavesP!ToRebuild, Saves!Full, SavesP!Full, Saves!RunJob, SavesP!RunJob,
           Saves!Rescanned, SavesP!Rescanned, Saves!RemoveAt, SavesP!RemoveAt, Saves!JobFails, SavesP!JobFails,
           Saves!Restart, SavesP!Restart
<1>4. Saves!TypeOK <=> SavesP!TypeOK
    BY DEF Saves!TypeOK, SavesP!TypeOK, Saves!ToSet, SavesP!ToSet
<1>5. Saves!ChangeReachesNodes <=> SavesP!ChangeReachesNodes
    BY DEF Saves!ChangeReachesNodes, SavesP!ChangeReachesNodes, Saves!Quiet, SavesP!Quiet, Saves!Current,
           SavesP!Current, Saves!AllGateways, SavesP!AllGateways
<1>6. Saves!OwnNodeIsCurrent <=> SavesP!OwnNodeIsCurrent
    BY DEF Saves!OwnNodeIsCurrent, SavesP!OwnNodeIsCurrent, Saves!Quiet, SavesP!Quiet, Saves!AllGateways,
           SavesP!AllGateways
<1> QED
    BY <1>1, <1>2, <1>3, <1>4, <1>5, <1>6

LEMMA NamesSame ==
    /\ NamesP!ProvisionConstants
    /\ Names!Init <=> NamesP!Init
    /\ Names!Next <=> NamesP!Next
    /\ Names!ChangeReachesNodes <=> NamesP!ChangeReachesNodes
    /\ Names!RemovedReachesNodes <=> NamesP!RemovedReachesNodes
<1>1. NamesP!ProvisionConstants
    BY ProvisionAssumption
    DEF Names!ProvisionConstants, NamesP!ProvisionConstants, Names!IsInjective, NamesP!IsInjective
<1>2. Names!Init <=> NamesP!Init
    BY DEF Names!Init, NamesP!Init
<1>3. Names!Next <=> NamesP!Next
    BY DEF Names!Next, NamesP!Next, Names!Save, NamesP!Save, Names!Rename, NamesP!Rename, Names!RemoveGateway,
           NamesP!RemoveGateway, Names!ForceRescan, NamesP!ForceRescan, Names!Free, NamesP!Free, Names!Enter, NamesP!Enter,
           Names!Commit, NamesP!Commit, Names!Between, NamesP!Between, Names!AllGateways, NamesP!AllGateways,
           Names!ReadList, NamesP!ReadList, Names!Merged, NamesP!Merged, Names!Added, NamesP!Added,
           Names!Contains, NamesP!Contains, Names!Last, NamesP!Last, Names!ToSet, NamesP!ToSet, Names!WriteSeq,
           NamesP!WriteSeq, Names!WriteList, NamesP!WriteList, Names!Rescan, NamesP!Rescan, Names!Spawn,
           NamesP!Spawn, Names!Job, NamesP!Job, Names!Look, NamesP!Look, Names!Sync, NamesP!Sync,
           Names!ToRebuild, NamesP!ToRebuild, Names!Full, NamesP!Full, Names!RunJob, NamesP!RunJob,
           Names!Rescanned, NamesP!Rescanned, Names!RemoveAt, NamesP!RemoveAt, Names!JobFails, NamesP!JobFails,
           Names!Restart, NamesP!Restart
<1>4. Names!ChangeReachesNodes <=> NamesP!ChangeReachesNodes
    BY DEF Names!ChangeReachesNodes, NamesP!ChangeReachesNodes, Names!Quiet, NamesP!Quiet, Names!Current,
           NamesP!Current, Names!AllGateways, NamesP!AllGateways
<1>5. Names!RemovedReachesNodes <=> NamesP!RemovedReachesNodes
    BY DEF Names!RemovedReachesNodes, NamesP!RemovedReachesNodes, Names!Quiet, NamesP!Quiet, Names!Clean,
           NamesP!Clean, Names!AllGateways, NamesP!AllGateways
<1> QED
    BY <1>1, <1>2, <1>3, <1>4, <1>5

\* The invariant holds at first and after every step of the instance.
LEMMA SavesAlways ==
    /\ Saves!Init => SavesP!ProvisionInv
    /\ SavesP!ProvisionInv /\ [Saves!Next]_provisionVars => SavesP!ProvisionInv'
<1>1. Saves!Init => SavesP!ProvisionInv
    BY SavesSame, SavesP!ProvisionInit
<1>2. ASSUME SavesP!ProvisionInv, [Saves!Next]_provisionVars PROVE SavesP!ProvisionInv'
    <2>1. [SavesP!Next]_SavesP!vars
        BY <1>2, SavesSame DEF SavesP!vars, provisionVars
    <2> QED
        BY <1>2, <2>1, SavesSame, SavesP!ProvisionNext
<1> QED
    BY <1>1, <1>2

LEMMA NamesAlways ==
    /\ Names!Init => NamesP!ProvisionInv
    /\ NamesP!ProvisionInv /\ [Names!Next]_provisionVars => NamesP!ProvisionInv'
<1>1. Names!Init => NamesP!ProvisionInv
    BY NamesSame, NamesP!ProvisionInit
<1>2. ASSUME NamesP!ProvisionInv, [Names!Next]_provisionVars PROVE NamesP!ProvisionInv'
    <2>1. [NamesP!Next]_NamesP!vars
        BY <1>2, NamesSame DEF NamesP!vars, provisionVars
    <2> QED
        BY <1>2, <2>1, NamesSame, NamesP!ProvisionNext
<1> QED
    BY <1>1, <1>2

\* A gateway that is saved, renamed or removed reaches every node, if requests do not
\* overlap and the list has room for their names; and the node that changed it last
\* has it in any case.
THEOREM ChangesAlwaysReach == Spec => []ChangeReachesNodes
<1> DEFINE Inv == /\ scenario = "saves" => SavesP!ProvisionInv
                  /\ scenario = "names" => NamesP!ProvisionInv
<1>1. Init => Inv
    BY SavesAlways, NamesAlways DEF Init
<1>2. Inv /\ [Next]_vars => Inv'
    <2> SUFFICES ASSUME Inv, [Next]_vars PROVE Inv'
        OBVIOUS
    <2>1. CASE scenario = "saves" /\ Saves!Next /\ RestButProvision
        BY <2>1, SavesAlways DEF RestButProvision
    <2>2. CASE scenario = "names" /\ Names!Next /\ RestButProvision
        BY <2>2, NamesAlways DEF RestButProvision
    <2>3. CASE UNCHANGED provisionVars /\ UNCHANGED scenario
        BY <2>3, SavesAlways, NamesAlways
    <2> QED
        BY <2>1, <2>2, <2>3 DEF Next, vars, RestButUsers, RestButTenants, RestButForm, RestButStart
<1>3. SavesP!ProvisionInv => Saves!TypeOK /\ Saves!ChangeReachesNodes /\ Saves!OwnNodeIsCurrent
    BY SavesSame, SavesP!ProvisionImplies
<1>4. NamesP!ProvisionInv => Names!RemovedReachesNodes /\ Names!ChangeReachesNodes
    BY NamesSame, NamesP!ProvisionImplies
<1>5. Inv => ChangeReachesNodes
    BY <1>3, <1>4 DEF ChangeReachesNodes
<1> QED
    BY <1>1, <1>2, <1>5, PTL DEF Spec
================================================================================
