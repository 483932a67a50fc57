------------------------------ MODULE Startup ------------------------------
(***************************************************************************)
(* The start of the gateway processes of several nodes on one database:    *)
(* the migrations that db/session.py runs when it is imported, one after   *)
(* the other, and then the first row of the node in fs_node.  A process    *)
(* whose import raises exits; the container starts it again.               *)
(*                                                                         *)
(* A definition named X_Something is X with a plausible bug, kept to show  *)
(* which property finds it; no specification uses it.                      *)
(***************************************************************************)
EXTENDS Naturals, SequencesExt

CONSTANTS
    Node, Gateway,  \* gateways of auth_type 1
    NoNode,
    OldNodes,       \* the nodes in fs_node before the upgrade, by id
    Owner0,         \* gateway_node before the upgrade
    Missing0,       \* migrations an earlier version has not made
    MaxFaults       \* bound: crashes of processes, failures of the database

StartupConstants ==
    /\ NoNode \notin Node /\ OldNodes \in Seq(Node) /\ IsInjective(OldNodes)
    /\ Owner0 \in [Gateway -> Node \cup {NoNode}] /\ MaxFaults \in Nat

VARIABLES
    pc,      \* what each process is at: down, a migration to check or to make, up, failed
    made,    \* migrations that are in the database
    nodes,   \* rows of fs_node by id
    owner,   \* gateway_node
    faults

vars == <<pc, made, nodes, owner, faults>>

\* What becomes of a migration another process made since it was looked for:
\* it raises, it is made again, it fails and is passed over.
Raises(f) == [fn |-> f, again |-> "raises"]
Repeats(f) == [fn |-> f, again |-> "repeats"]
PassesOver(f) == [fn |-> f, again |-> "passes over"]

\* In the order of db/session.py. A function's statements that are looked for one by one are
\* migrations of their own: a + stands for its columns after the first. An account number
\* given twice, for which the index is left out with a warning, is not considered.
Migrations == <<
    Raises("rule_act_column"), Raises("rule_replace_to_column"), Raises("sip_phone_table"),
    PassesOver("static_phones"), Raises("system_setting_table"), Raises("system_setting_defaults"),
    Raises("ap_reg_status_column"), Raises("cdr_caller_type_column"),
    Raises("cdr_src_dst_columns"), Raises("cdr_src_dst_columns+"),
    Raises("gateway_failover_pre_ring_only_column"), Raises("sip_phone_enabled_column"),
    Raises("cdr_hangup_direction_column"), Raises("gateway_heartbeat_fail_count_column"),
    Raises("gateway_register_columns"), Raises("gateway_register_columns+"),
    Raises("billing_columns"), Raises("billing_columns+"), PassesOver("cdr_reject_reason_len"),
    Raises("cdr_uuid_unique"), Raises("multitenant_columns"), Raises("multitenant_columns+"),
    Repeats("account_numbers"), Raises("uq_account_number"), Raises("idx_sip_phone_account"),
    Repeats("phone_accounts"), Raises("cost_columns"), Raises("cost_columns+"),
    Raises("account_ledger_table"), Raises("access_point_account_column"),
    Repeats("access_point_accounts"), Raises("idx_ap_account"),
    Raises("carrier_balance_columns"), Raises("carrier_balance_columns+"),
    Raises("carrier_ledger_table"), PassesOver("account_number_checks"), Repeats("account_number_not_null"),
    PassesOver("other_checks"), Repeats("endpoint_host_columns"), Repeats("account_customer_id_nullable"),
    Raises("fs_node_health_columns"), Raises("fs_node_health_columns+"),
    Raises("provision_sync_settings"), Raises("gateway_node_table"), Repeats("gateway_node_backfill"),
    PassesOver("sys_user_role_comment"), PassesOver("roles_tables"), PassesOver("sys_user_role_code"),
    PassesOver("roles_builtin_seed"), PassesOver("builtin_role_perm_seed"), PassesOver("sys_user_seed")>>

Names == {Migrations[i].fn : i \in DOMAIN Migrations}

Down == [at |-> "down"]
Failed == [at |-> "failed"]
Up == [at |-> "up"]
Check(i) == [at |-> "check", i |-> i]
Make(i) == [at |-> "make", i |-> i]
After(i) == IF i = Len(Migrations) THEN [at |-> "register"] ELSE Check(i + 1)

Init ==
    /\ pc = [n \in Node |-> Down] /\ made = Names \ Missing0 /\ nodes = OldNodes /\ owner = Owner0
    /\ faults = 0

\* Started for the first time, or by the container's restart policy.
Start(n) ==
    /\ pc[n] \in {Down, Failed} /\ pc' = [pc EXCEPT ![n] = Check(1)]
    /\ UNCHANGED <<made, nodes, owner, faults>>

\* Gateways are given to the first node again at every start.
X_Backfilled == [g \in Gateway |-> IF nodes = <<>> THEN owner[g] ELSE nodes[1]]

\* A gateway that is nobody's is given to the first node, if there is one.
Backfilled == [g \in Gateway |-> IF nodes = <<>> \/ owner[g] # NoNode THEN owner[g] ELSE nodes[1]]

\* Made without a look.
X_Look(n) ==
    /\ pc[n].at = "check" /\ pc' = [pc EXCEPT ![n] = Make(pc[n].i)]
    /\ UNCHANGED <<made, nodes, owner, faults>>

\* What is there is not made again; the gateways are looked through at each start.
Look(n) ==
    /\ pc[n].at = "check"
    /\ LET i == pc[n].i
       IN  pc' = [pc EXCEPT ![n] =
            IF Migrations[i].fn \in made /\ Migrations[i].fn # "gateway_node_backfill" THEN After(i) ELSE Make(i)]
    /\ UNCHANGED <<made, nodes, owner, faults>>

\* Where the process is after it made a migration.
Outcome(i) == IF Migrations[i].fn \in made /\ Migrations[i].again = "raises" THEN Failed ELSE After(i)

MakeIt(n) ==
    /\ pc[n].at = "make"
    /\ LET m == Migrations[pc[n].i]
       IN  /\ made' = made \cup {m.fn}
           /\ owner' = IF m.fn = "gateway_node_backfill" THEN Backfilled ELSE owner
           /\ pc' = [pc EXCEPT ![n] = Outcome(pc[n].i)]
    /\ UNCHANGED <<nodes, faults>>

\* The node's own row in fs_node, at its first health check (node_health.py).
RegisterNode(n) ==
    /\ pc[n].at = "register" /\ pc' = [pc EXCEPT ![n] = Up]
    /\ nodes' = IF n \in ToSet(nodes) THEN nodes ELSE Append(nodes, n)
    /\ UNCHANGED <<made, owner, faults>>

Fault == faults < MaxFaults /\ faults' = faults + 1

\* The database refuses a migration.
Refused(n) ==
    /\ Fault /\ pc[n].at = "make"
    /\ pc' = [pc EXCEPT ![n] =
            IF Migrations[pc[n].i].again = "passes over" THEN After(pc[n].i) ELSE Failed]
    /\ UNCHANGED <<made, nodes, owner>>

Crash(n) ==
    /\ Fault /\ pc[n] \notin {Down, Failed} /\ pc' = [pc EXCEPT ![n] = Down]
    /\ UNCHANGED <<made, nodes, owner>>

Migrate(n) == Look(n) \/ MakeIt(n) \/ RegisterNode(n)

Next == \E n \in Node : Start(n) \/ Migrate(n) \/ Refused(n) \/ Crash(n)

\* A process runs on; a container that exited is started again (restart: unless-stopped).
Spec == Init /\ [][Next]_vars /\ \A n \in Node : WF_vars(Start(n)) /\ WF_vars(Migrate(n))
-----------------------------------------------------------------------------
\* Migrations are those of the list, rows of fs_node are unique, owners nodes.
TypeOK ==
    /\ made \subseteq Names /\ IsInjective(nodes) /\ ToSet(nodes) \subseteq Node
    /\ owner \in [Gateway -> Node \cup {NoNode}] /\ faults \in 0 .. MaxFaults
    /\ \A n \in Node : pc[n].at \in {"check", "make"} => pc[n].i \in DOMAIN Migrations

\* A process that serves finds every migration made, unless the database refused one that
\* is passed over: those that raise it never serves without.
ServesOnWholeSchema ==
    \A n \in Node : pc[n].at \in {"register", "up"} =>
        \A i \in DOMAIN Migrations : Migrations[i].again = "passes over" \/ Migrations[i].fn \in made

\* A gateway stays with its node through every start.
OwnerIsKept == [][\A g \in Gateway : owner[g] # NoNode => owner'[g] = owner[g]]_vars
-----------------------------------------------------------------------------
(* Said of the code and refuted by this model; the README tells how. *)

\* Nothing but the database stops a start (migrate.py:3-6 "idempotent: ... added only if
\* missing, a failure only warns, the start of the gateway must not be stopped by DDL").
StartIsNotStopped == faults = 0 => \A n \in Node : pc[n] # Failed

\* Once every node is up each gateway that registers has a node that loads it
\* (migrate.py:867-872).
GatewayIsLoaded == (\A n \in Node : pc[n] = Up) => \A g \in Gateway : owner[g] # NoNode
=============================================================================
