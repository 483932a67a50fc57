----------------------------- MODULE Management -----------------------------
(***************************************************************************)
(* Users, Tenants, GatewayForm, Provision and Startup beside each other:   *)
(* what the management API and the start of the nodes do to the tables and *)
(* to the nodes.  A behaviour is one of an instance, and the others rest.  *)
(***************************************************************************)
EXTENDS Integers

CONSTANTS
    User, Role, First,                  \* users, custom roles, who is there at first
    Account, AccessPoint,               \* tenants
    Phone, Phone2,                      \* phones of the instances "numbers" and "phones"
    FormGateway, Triple, FormNode,      \* the gateway form
    NewsNode, Gateway, RenamedGateway,  \* provisioning: of the instances "saves" and "names"
    Listed,                             \* names that were listed before "names"
    StartNode, StartGateway, OldNodes, Owner0, Missing0,
    Overlapping, Single,                \* requests that overlap, and one that does not
    None, NoSeq,
    MaxNumbers, MaxPhones, MaxForms, MaxStartFaults     \* bounds

VARIABLES
    scenario,                   \* the instance
    users, roles, job, refused,
    number, phone, ap, req, requests,
    gw, node, formReq, formRequests,
    db, version, seq, pending, fs, last, seen, watcher, request, jobs, by, trouble, restarts, failures,
    pc, made, nodes, owner, faults

\* One request at a time; nodes start again.
Accounts == INSTANCE Users WITH Slot <- {Single}, Restarts <- TRUE

\* Overlapping requests create and delete accounts of a new database.
Numbers == INSTANCE Tenants WITH
    Request <- Overlapping, NewSchema <- TRUE, Blanks <- TRUE, MaxRequests <- MaxNumbers

\* One request at a time, and no access points.
Phones == INSTANCE Tenants WITH
    Phone <- Phone2, AccessPoint <- {}, Request <- {Single},
    NewSchema <- TRUE, Blanks <- TRUE, MaxRequests <- MaxPhones

\* One request at a time, sent as a whole form; nodes are in fs_node.
Form == INSTANCE GatewayForm WITH
    Gateway <- FormGateway, Node <- FormNode, Known <- FormNode, Request <- {Single},
    Partial <- FALSE, MaxRequests <- MaxForms, req <- formReq, requests <- formRequests

\* Requests overlap, and the list of names is short.
Saves == INSTANCE Provision WITH
    Node <- NewsNode, Request <- Overlapping, Op <- {"save"}, Existing <- Gateway, Listed <- <<>>,
    MaxPending <- 1, MaxRestarts <- 0, MaxFailures <- 0

\* One request of any kind, a restart and a failed command.
Names == INSTANCE Provision WITH
    Node <- NewsNode, Gateway <- RenamedGateway, Request <- {Single},
    Op <- {"save", "rename", "remove", "force"}, Existing <- Gateway,
    MaxPending <- 4, MaxRestarts <- 1, MaxFailures <- 1

\* Nodes start on the database of an earlier version.
Upgrade == INSTANCE Startup WITH
    Node <- StartNode, Gateway <- StartGateway, NoNode <- None, MaxFaults <- MaxStartFaults

ASSUME UsersAssumption == Accounts!UsersConstants
ASSUME TenantsAssumption == Numbers!TenantsConstants /\ Phones!TenantsConstants
ASSUME FormAssumption == Form!GatewayFormConstants
ASSUME ProvisionAssumption == Saves!ProvisionConstants /\ Names!ProvisionConstants
ASSUME StartupAssumption == Upgrade!StartupConstants

userVars == <<users, roles, job, refused>>
tenantVars == <<number, phone, ap, req, requests>>
formVars == <<gw, node, formReq, formRequests>>
provisionVars == <<db, version, seq, pending, fs, last, seen, watcher, request, jobs, by,
                   trouble, restarts, failures>>
startVars == <<pc, made, nodes, owner, faults>>
vars == <<scenario, userVars, tenantVars, formVars, provisionVars, startVars>>

ProvisionRests ==
    /\ db = 0 /\ version = 0 /\ seq = 0 /\ pending = 0 /\ fs = 0 /\ last = 0 /\ seen = 0
    /\ watcher = 0 /\ request = 0 /\ jobs = 0 /\ by = 0 /\ trouble = 0 /\ restarts = 0
    /\ failures = 0

TenantsRest == number = 0 /\ phone = 0 /\ ap = 0 /\ req = 0 /\ requests = 0

Init ==
    /\ Accounts!Init /\ Form!Init /\ Upgrade!Init
    /\ \/ scenario \in {"accounts", "form", "upgrade"} /\ TenantsRest /\ ProvisionRests
       \/ scenario = "numbers" /\ Numbers!Init /\ ProvisionRests
       \/ scenario = "phones" /\ Phones!Init /\ ProvisionRests
       \/ scenario = "saves" /\ TenantsRest /\ Saves!Init
       \/ scenario = "names" /\ TenantsRest /\ Names!Init

RestButUsers == UNCHANGED <<scenario, tenantVars, formVars, provisionVars, startVars>>
RestButTenants == UNCHANGED <<scenario, userVars, formVars, provisionVars, startVars>>
RestButForm == UNCHANGED <<scenario, userVars, tenantVars, provisionVars, startVars>>
RestButProvision == UNCHANGED <<scenario, userVars, tenantVars, formVars, startVars>>
RestButStart == UNCHANGED <<scenario, userVars, tenantVars, formVars, provisionVars>>

Next ==
    \/ scenario = "accounts" /\ Accounts!Next /\ RestButUsers
    \/ scenario = "numbers" /\ Numbers!Next /\ RestButTenants
    \/ scenario = "phones" /\ Phones!Next /\ RestButTenants
    \/ scenario = "form" /\ Form!Next /\ RestButForm
    \/ scenario = "saves" /\ Saves!Next /\ RestButProvision
    \/ scenario = "names" /\ Names!Next /\ RestButProvision
    \/ scenario = "upgrade" /\ Upgrade!Next /\ RestButStart

Spec == Init /\ [][Next]_vars
-----------------------------------------------------------------------------
(* Properties. *)

\* users.py: the last enabled super is never demoted, disabled or deleted, whoever asks: one
\* who can log in and manage the users is left, if all who are counted as supers are supers
\* by their code too; roles.py: and a role is not disabled or deleted while a user has it.
SomeSuperStays == scenario = "accounts" => Accounts!SomeSuperStays /\ Accounts!RolesOfUsersStay

\* No two tenants share a number, the prefix of their phones (accounts.py:4), however
\* creations and deletions overlap; and, if requests do not, every phone belongs to an
\* account there is and its number begins with the account's (crud.py:342).
PhoneIsOfItsAccount ==
    /\ scenario = "numbers" => Numbers!TypeOK /\ Numbers!NumbersAreUnique
    /\ scenario = "phones" => Phones!PhoneIsOfItsAccount

\* Of the gateways a node registers no two share address, port and user (crud.py:144), and
\* a gateway has a node exactly if it registers (crud.py:171), whatever whole forms are
\* sent in whatever order.
TriplesUnique == scenario = "form" => Form!TypeOK /\ Form!TriplesUnique /\ Form!RegisteredHasNode

\* Requests that overlap neither each other nor the two reads of a watcher reach every node,
\* however late and in what jumps the watchers look, if the list has room for their names,
\* and removed names go from it; the node that made the latest change has it in any case.
ChangeReachesNodes ==
    /\ scenario = "saves" => Saves!TypeOK /\ Saves!ChangeReachesNodes /\ Saves!OwnNodeIsCurrent
    /\ scenario = "names" => Names!RemovedReachesNodes /\ Names!ChangeReachesNodes

\* A process that serves finds every migration made, unless the database refused one that
\* is passed over: those that raise it never serves without; and a gateway stays with its
\* node through every start, however the starts of two nodes interleave, crash and are
\* refused.
StartsAreSafe ==
    /\ Upgrade!OwnerIsKept
    /\ [](scenario = "upgrade" => Upgrade!TypeOK /\ Upgrade!ServesOnWholeSchema)
=============================================================================
