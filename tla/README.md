# SIP-SWITCH gateway: a TLA+ model

The gateway (`src/src`, Python) steers one or more FreeSWITCH nodes. FreeSWITCH asks it for
routes over HTTP (`mod_xml_curl`) and reports channel events over ESL; the gateway processes of
several nodes share a MySQL database and a Redis store. This project models who may call now,
which way a call goes, what is recorded and charged for it, and how the rows that several
threads and nodes write are kept in agreement.

Contents: 1 inventory, 2 modules, 3 runs, 4 what the model refutes, 5 proofs, 6 not modelled, 7 plan.

## 1. Inventory

| Part | State | Operations | Interacts with | What is hard | Correct when |
|---|---|---|---|---|---|
| Concurrency limiter `concurrency.py` | Redis counters `conc:cnt:*`, credentials `conc:resv:<uuid>` | `reserve_leg`, `release_leg`, `transfer_leg`, `ensure_leg`, `snapshot`, `calibrate` | dialplan handler, event worker, reconcile thread, other nodes | GET before the script, two orders of CREATE and dialplan, leases, lost replies | counters are what the credentials say; limits hold |
| Dialplan handler `api/app.py` | none between requests | `fs_dialplan`, `_phone_branch`, `_route_via_ap`, `_trunk_branch`, `_conc_reserve_candidates` | limiter, database, FreeSWITCH | snapshot older than the reservation, Redis lost half-way | every request is answered, refused only when full |
| ESL events `esl_client.py` | `_EVT_Q`, `_call_store`, `_conc` | `handle_event`, `_maybe_count_leg`, `_dec_count_leg`, `_upsert_call` | FreeSWITCH, limiter, CDR writer | at-most-once events, failover, B legs merged into their call, restarts | credential, record and counter end with the call |
| Reconcile thread `esl_client.py` | local to a round | `_reconcile_pass`, `_reconcile_redis_pass` | FreeSWITCH, limiter, `_call_store` | not atomic, several nodes at once | everything converges, live calls are not hurt |
| CDR writer `esl_client.py`, XML truth `cdr_truth.py` | `_CDR_Q`, spool file, `cdr` rows | `_cdr_writer_loop`, `_retry_cdr_single`, `_replay_spool`, `apply_xml_cdr`, reaper | database, FreeSWITCH | batches that fail in part, two reports in either order, look-ups that do not see what an open transaction has inserted, crash | one row per call, nothing that was spooled is lost |
| Billing `esl_client.py` | balances, ledger, `billed`, rate cache | `_compute_billing`, `_charge_account`, `_charge_carrier`, `sweep_unbilled_charges` | CDR writer, database, API | two transactions, retries, a cache beside the table | a call is charged at most once, at a rate of its own chain |
| Prepaid balance `api/app.py`, `api/accounts.py`, `esl_client.py` | `account.balance`, ledger | gate, charge, recharge, deduction | billing, dialplan | lost updates, overdraft | the balance is the sum of the ledger |
| Failover dialplan `api/dialplan_xml.py` | documents in an LRU cache, `switch_detail` | `build_outbound_xml`, re-entry | FreeSWITCH, cache, events | eviction, last leg | each leg is dialled once, in order, and told in the record |
| Routing, rules `route`, `rules` | database tables | `select_outbound_gateway`, `evaluate_call`, `apply_translate` | dialplan handler | prefix and priority order, deny and allow lists | the best gateway that may carry the call rings first |
| ESL socket `fs_esl_socket.py`, `ESLClient._run` | socket buffer, watchdog | `recvEvent`, `events`, `_run` | FreeSWITCH | headers and bodies cut by timeouts, replies that do not come, silent link, reconnection | every event is delivered or accounted for |
| Provisioning `fs_provision.py` | sequence and pending names, seen marks, one watcher per node | `bump_pending`, `report_seen`, `rescan_all`, `_sync_once` | nodes, database, FreeSWITCH | read-modify-write by three actors | the last change reaches every node |
| Node health `node_health.py` | `fs_node` rows | probe, sweep, alert | nodes, database | probe against sweep of others, debounce | status follows the node |
| Gateway heartbeat `heartbeat.py` | gateway status and counts | probe, alert | carriers, other nodes | two probers on one row | down only after enough failures |
| Gateway and phone state `gw_state.py`, `phone_sync.py` | `register_status` rows | events, snapshots | FreeSWITCH | a snapshot older than an event | what stays as it is is shown as it is |
| Live calls `api/live_calls.py` | none between requests | probe of every node, merge | nodes | timeouts, late replies, calls that move | one row per call; what is missing is told |
| Users and roles `api/users.py`, `api/roles.py` | `sys_user`, `roles` | create, update, delete | database | check, then act; two columns for one role; tokens of users who were disabled | an enabled super remains |
| Accounts, phones, access points `api/accounts.py`, `api/crud.py` | rows | create, update, delete | database | a rule across tables, requests that overlap | a phone's number is of its account |
| Gateway form `api/crud.py` | `gateway`, `gateway_node` | create, update, delete | database, provisioning | two commits for one change | no two gateways of a node are the same |
| Start and migration `db/migrate.py`, `db/session.py` | schema, seed rows | the migrations, first row of a node | other nodes that start | check, then DDL; crash | a process serves on a whole schema |
| Database models, configuration and authentication APIs, recordings, front end | rows, files | request by request | database | no state between requests | not modelled, section 6 |

A call, end to end: FreeSWITCH creates a channel and emits `CHANNEL_CREATE`; at the same time it
asks `/fs/dialplan`. The handler finds the access point and account, screens the call
(`RouteSelect`, `NumberRules`, the gate of `PrepaidBalance`), reserves a slot (global, access
point, gateway) with one Lua script (`CallAdmission`) and answers with a document of legs that
FreeSWITCH dials one after the other (`FailoverDialplan`). Events of the call come over the
socket (`EslStream`) to the worker, which counts legs (`ShadowCount`), charges calls that were
not reserved, moves the charge to the gateway used and frees it at hangup (`CallAdmission`). The
hangup writes the row of the call and bills it (`CdrBook`, `BillingRates`, `PrepaidBalance`).
Every 30 seconds the reconcile thread repairs what was lost (`CallReconcile`, `ShadowCount`).

The hazards, each at its line, are in `PROJECT.json`.

## 2. Modules

### Calls that compete for slots

| Module | Models | Built on |
|---|---|---|
| `Credentials` | counters, credentials, what a credential charges; constants and assumptions | |
| `SlotLedger` | abstract: credentials only, admission decided by counting them | `Credentials` |
| `ConcurrencyStore` | the counters, the credentials and the four Lua scripts | `Credentials`, instance of `SlotLedger` |
| `CallAdmission` | FreeSWITCH channels, dialplan handler, event queue and worker of every node, Redis, faults | `ConcurrencyStore` |
| `CallReconcile` | adds the reconcile thread of every node | `CallAdmission` |
| `CallAdmissionProofs` | theorems: types, counters, ledger, limits, refusals, charges, credentials | `CallAdmission` |

### What is recorded and charged

| Module | Models | Built on |
|---|---|---|
| `CdrBook` | pre-insert, CDR writer (batch, retry, spool), XML report, reaper, reconcile finalisation, sweepers, crash and restart, on one `cdr` table whose key is uuid and start time | instance of `ChargeOnce` |
| `ChargeOnce` | abstract: an account pays for a call at most once, and the ledger says what left it | |
| `BillingRates` | the chain of rates (phone, access point, account), the cache of each process, changes and clearing | |
| `PrepaidBalance` | gate, charge, recharge and deduction on one balance, with row locks | |
| `EslStream` | frames on the socket in pieces, reader, replies, watchdog, resubscription, reconnection, `_EVT_Q`, worker | |
| `ShadowCount` | `_call_store` and `_conc`: events of A and B legs, merge, reconcile | |
| `Money` | puts `PrepaidBalance` beside an instance of `BillingRates` | `PrepaidBalance`, `BillingRates` |
| `CdrBookProofs`, `MoneyProofs` | theorems about rows; about balances and rates | `CdrBook`, `Money` |
| `EventsProofs` | theorems about events on the socket and counted records | `Connection`, `ShadowCount` |

### Which way a call goes

| Module | Models |
|---|---|
| `FailoverDialplan` | the document of unrolled legs in FreeSWITCH, re-entry, LRU cache, trail of legs |
| `RouteSelect` | access point, balance gate, rules, candidates and their order, limits and reservations, every refusal, over any tables |
| `NumberRules` | matching, deny and allow lists, replacement of prefixes, over any rows |

### Rows that several threads and nodes write

| Module | Models |
|---|---|
| `NodeHealth` | probe of the own node, sweeps of the others, debounce, alerts |
| `GatewayHeartbeat` | probers of one gateway row |
| `GatewayState` | events, alignment after a start, edits of the form, on registration rows |
| `PhoneSync` | events and polls on the registration rows of phones and access points |
| `LiveCalls` | one request for the calls of every node |
| `Provision` | how a change of a gateway reaches the FreeSWITCH of every node |
| `Users` | users, roles, the last-super guard, and what a start writes to them |
| `Tenants` | accounts, phones, access points and their numbers |
| `GatewayForm` | a gateway saved with two commits |
| `Startup` | migrations and first start of several nodes |

The theorems about these modules and about those of the way of a call are in `DialplanProofs`,
`MonitoringProofs` and `ManagementProofs`; those about
`Provision` rest on lemmas in `ProvisionProofs`, which extends `Provision` and is used through
instances.

### Modules for TLC

Modules of the first group are checked alone (`MCCallAdmission`, `MCCallReconcile`,
`MCReconcile`). The others share runs. A module that composes some of them takes `INSTANCE`s
with their constants given by `WITH`; the variable `scenario`, chosen at the start, says which
instance a behaviour is of, and the variables of the others rest. So one run explores the union
of the instances' state spaces, never their product, and a property of the run is the
conjunction of what is said of each instance while it is the scenario. The components do not
share state in the code either (they meet in tables of their own). What a component's constants
must satisfy is its `XConstants` predicate, a named assumption of the composing module.

Such a module has two layers, so that a theorem is about what a run checks. The lower declares
constants, variables, instances, the specification and the properties, and gives no value to
anything; the theorems are stated over it. The upper one is for TLC and gives the values.

| Declares | Instances of | Theorems | Values |
|---|---|---|---|
| `Management` | `Users`, `Tenants` ×2, `GatewayForm`, `Provision` ×2, `Startup` | `ManagementProofs` | `MCManagement` |
| `Monitoring` | `NodeHealth`, `GatewayHeartbeat`, `GatewayState`, `LiveCalls` ×2 | `MonitoringProofs` | `MCNodes` |
| `Dialplan` | `RouteSelect` (extended), `FailoverDialplan` ×2, `NumberRules` | `DialplanProofs` | `MCDialplan` |
| `Connection` | `EslStream` | `EventsProofs` | `MCEvents`, which adds `ShadowCount` ×2 |
| `CdrBook` itself | | `CdrBookProofs` | `MCRows`, which adds `PhoneSync`, `GatewayState`, `GatewayHeartbeat` |
| `Money` | `PrepaidBalance` (extended), `BillingRates` | `MoneyProofs` | `MCMoney` |

### How state corresponds to code

| Module | Variables | Code |
|---|---|---|
| `CallAdmission` | `cnt`, `resv` | `conc:cnt:*`, `conc:resv:*` |
| | `chan`, `legs`, `told` | the channel in FreeSWITCH, the gateways of its document not yet failed, whether an event reported the current one |
| | `dp[n]` | the loop of `_conc_reserve_candidates` on node `n` (`fs_dialplan` is synchronous code in one event loop: one call at a time) |
| | `evq[n]`, `ew[n]` | `_EVT_Q`; the worker between the GET and the EVAL of `transfer_leg` or `release_leg` |
| | `known` | keys of `_call_store` |
| `CallReconcile` | `rc[n]` | the round of `_reconcile_pass`: channels listed, credentials scanned, what is left to do |
| `CdrBook` | `row` by uuid and start time, `_CDR_Q`, batch, `tx`, `snap`, spool, one job per sweeper | `cdr`, the writer thread between taking a batch and its commit, what its transaction has written and sees, the spool file, `sweep_unbilled_charges` between SELECT and charge |
| | `unpriced` (history) | calls a report of which found no price, which `_compute_billing` passes on as a price of 0 |
| `BillingRates` | `cache`, `toClear`, `job` | `_RATE_CACHE`, a commit whose `clear_rate_cache` is due, a thread between the read of a rate and its put |
| `PrepaidBalance` | balance, ledger, one step per request | `account.balance`, ledger rows; `with_for_update` is one step from read to commit, the gate's plain read another |
| `EslStream` | `wire`, `lines`, `mode` | pieces not read, lines of the frame read so far, whether the reader is in a header, a body, a reply or the body of what it took for one |
| | `alive` | `_connected`, which a reply that times out ends although the link is up |
| `ShadowCount` | `store`, `global`, `gw`, `rc` | `_call_store`, `_conc`, the records a reconcile round has popped but not counted out |
| `FailoverDialplan` | `lru`, `doc`, `dest`, `detail` | the LRU cache, the document FreeSWITCH executes, the extension it is at, `switch_detail` |
| `NodeHealth`, `GatewayHeartbeat`, `GatewayState`, `PhoneSync` | rows; per thread what it read and has not committed | ORM objects: a commit writes the columns that differ from what was read |
| `Provision` | `seq`, `pending`, `last`, `seen`, `watcher`, `request` | `provision_seq`, `provision_pending`, `_last_seq`, `provision_seen_<node>`, the two reads of a watcher, the steps of a save |
| `Users`, `Tenants`, `GatewayForm` | rows; per request what it is about to commit | a handler between its checks and its commit |
| `Startup` | `pc`, `made` | the migration a process is at (checking, making), the schema |

Atomicity follows the code: a Lua script is one step, a Redis GET before it another; a database
transaction is one step where it locks or is one statement, and two (read, commit) where it
reads, checks and then writes without a lock; a socket read is a step per piece the network may
deliver.

Abstractions that matter:

- `CallAdmission`: reordering (`_order_by_concurrency`) is "full gateways last" over every list
  of distinct gateways routing could return; rules, balance and unknown destinations are one
  nondeterministic answer without a reservation (`AnswerWithoutSlot`), which `RouteSelect`,
  `NumberRules` and `PrepaidBalance` refine in modules of their own. ANSWER, PROGRESS and BRIDGE
  are one report per leg. With `FailOpen` the values of the shadow counters are not known here,
  so a screening on them may go either way. The scan of all credentials is one step. A uuid is
  used once.
- `CdrBook`: a row keeps state, cost, account, carrier and billed flag; what becomes of the hangup
  event is one of four kinds, "full" (with all variables), "vars" and "bare" (after the record of
  the call was lost), "lost". A start time is one that any other writer has written, or one of
  the writer's own.
- `RouteSelect`: a state is one set of tables and one call, a step answers it. What rows,
  gateways, access points and limits there may be, where the call comes from and whether it is
  prepaid is a record of `Setup`, chosen at the start. Whether rules or a limit refuse it is
  chosen too: the rules are in `NumberRules`, the counting in `CallAdmission`. The order of candidates is stated by rank (`Ordered`): the sort by prefix,
  priority and id and the stable move of full gateways to the back are one strict order
  (`InTurn`).
- `NumberRules`: a table is any set of rows that requests make; a number is a sequence of
  characters, in a pattern `*` and `?` are wildcards.
- `NodeHealth`: time passes in probe intervals.
- `EslStream`: a frame is five pieces, between any two of which the network may stop: two header
  lines, a blank line, the fields of the event (its name stands for them) and their end.
- `Users`: whoever was logged in has a token that is good for ever; passwords are not modelled.
- `Startup`: a migration is one of a few kinds (checks first, catches its errors, raises them).
  The 51 entries of `Migrations` are in the code's order; a function that adds several columns is
  two entries (its first column, and with `+` the others), and of `ensure_validation_constraints`
  the one statement whose refusal raises is an entry of its own.
- Names and addresses are model values; formatting, logging and wording are left out.

A definition named `Something_Bug` (as `TryNext_NoRefusal`) or `X_Something` is `Something` with a
plausible bug in it, kept to show that a property finds it; no specification uses it.

## 3. Runs

`CHECK_DEADLOCK FALSE` is set where an instance stops: its calls, requests or faults are finite in
number.

| Run | Instance | Shows |
|---|---|---|
| `admission_faults` | 2 nodes, 1 call each, 2 gateways, 1 access point slot, 2 faults of outage, lost reply, restart, FreeSWITCH crash | types; counters exact; a routed call is charged; a refusal is at most one slot early |
| `admission_gates` | 3 calls of 2 nodes, 1 slot on `g1`, 1 on `a1`, 2 global, queue of 1, no faults | gateway and access point limits hold for admissions; every step is one of `SlotLedger` |
| `admission_leases` | fail-open, 1 fault of event loss, lease expiry, outage, queue never full | counters cover the credentials; a credential follows its leg (if no event is lost); every request is answered and a call that is gone released |
| `reconcile` | one node with 2 faults of any of five kinds; two nodes with a queue of 1 that drops events | counters converge to the credentials; nothing is left of a call that is gone |
| `rows` | `CdrBook`: 1 call, reports of 4 kinds from 2 sources, a start time of its own for each of 3 writers, 2 sweepers, 2 faults of database and crash; `PhoneSync`: 2 users; `GatewayState`: 2 gateways with edits; `GatewayHeartbeat`: 2 probers | as long as the database has not failed a call has one row; billed means paid; refinement of `ChargeOnce`; a final row stays final, and only a report that looked for a price in vain takes one away; reports arrive; what is steady is shown |
| `money` | `PrepaidBalance`: 3 calls, 3 clerks; `BillingRates`: 1 thread, 2 accounts, one change, one failure | the balance is its ledger; the overdraft is bounded by the calls in progress; a call is billed by its own chain and not free without reason |
| `events` | `EslStream`: 2 events, 2 stops of the network, each other fault once (scenario `stream`); `ShadowCount`: 1 call with failover, reconcile and losses (`lossy`), and undisturbed (`quiet`) | each event is delivered once, in order, or lost in one of four ways (with its connection, to a full queue, read as a reply, left without its name, for which it takes two stops); gaps are reconciled; the global counter is the number of counted records and heals, and an undisturbed call is one record, counted once |
| `dialplan` | `FailoverDialplan` ×2, `RouteSelect` with 4 setups (phone with registered gateways, prepaid phone at an access point, named access point, trunk), `NumberRules` (3 rules, 6 patterns, 5 numbers) | legs in order, told in the record; a document lost only to a busy cache; the best gateway first; refused by gateway rules, as busy at the gateways or for want of a route only if that is so of all, for the other limits or Redis only if one could carry the call; without balance not routed, but over a trunk; rules are monotone |
| `nodes` | `NodeHealth` 2 nodes, 4 failures and repairs; `GatewayHeartbeat` 1 prober; `GatewayState` at a start; `LiveCalls` ×2 | a steady node is online, a silent one offline; down only after 3 failures; alignment tells the truth; a page of calls is right or says it is degraded |
| `management` | `Users` 3 users, one request at a time, starts in between; `Tenants` ×2; `GatewayForm` 3 gateways; `Provision` ×2; `Startup` 2 nodes, 9 migrations missing, 2 faults | if those whom the guards count are supers by their code too, one of them can log in and manage the users, whoever asks, disabled users too; numbers are unique and of their account; triples unique; changes reach nodes; starts are safe |
| `admission_global_limit` | 2 calls, global limit 1 | `GlobalLimitHolds` is violated |
| `reconcile_live_call` | 1 call, nothing fails | `LiveCallKeepsCredential` is violated |

Why the bounds are enough to be interesting. Slots: the races are between the dialplan handler
and the worker of one node about one call, between two calls about one slot (on one node or
two), and between a reconcile round and either; three calls with two global slots make a gate
refuse while another credential is still only ensured. Two faults allow one during the repair of
another. Rows: every race is between two writers of one row, so two writers and one or two rows
suffice; a crash between any two steps and one more fault during recovery are in; with a start
time of its own for the dialplan, the event and the XML report no two writers agree by chance. Queues and
caches have one or two places, so that they fill; `MaxCount`, `MaxAge` are above the
thresholds of the code (3 failures), so that a counter can pass them. Tables of routes and rules
are small but any: a longest prefix, a tie in priority, a deny and an allow list and two
wildcards occur together. Two stops of the network can cut the header and the body of one frame. Requests overlap in pairs where the property is to hold then, and come
one at a time where the code only promises it then (section 4 says what overlapping ones break).
All bounds are constants named in the module that uses them (`MaxFaults`, `MaxMoves`,
`MaxRequests`, `MaxTrouble`, `MaxRestarts`, `QueueSize`, ...) or the sizes of the sets.

Fairness. Worker threads, event loops, pollers, sweepers, the reconcile thread and the reader are
weakly fair: they are loops for ever in threads of their own, which catch what their body raises.
Redis and the database come back (weakly fair), and a connection that was closed is opened again,
since the client retries for ever. Nothing is assumed of callers, carriers, API users or faults:
a call may stay up for ever, a request may never be sent, so no property waits for a hangup. In
`MCRows` and `MCEvents` one fairness conjunct serves a thread of each instance: the scenario
never changes, so in a behaviour it is weak fairness of that one thread.

## 4. What the model refutes

Two runs end in a violation of what the repository says of itself:

- **Global limit** (`admission_global_limit`). `_LUA_RESERVE` upgrades a credential written by
  `ensure_leg` without looking at the global counter (`concurrency.py:97`), although
  `docs/PITFALLS.md:457` asks every upgrade branch to check all limits. Two calls that pass the
  snapshot precheck before their CHANNEL_CREATE is handled are both admitted above the limit.
- **Live call** (`reconcile_live_call`). `show channels` is taken before the credentials are
  scanned (`esl_client.py:275`, `:234`), so a call that starts in between is taken for leaked and
  its credential is released, against `esl_client.py:224`.

While the modules were written, TLC refuted more claims of docs and comments. The formulas are
kept at the end of their modules, under "Said of the code and refuted by this model", or are
properties of a run that other constants break. To see one again, take the component's
instance in the MC module named with the constants below and give the formula as its property.

Calls and money:

| Property (module) | Where it bites | Constants | What happens |
|---|---|---|---|
| `RefusedOnlyWhenFull` (`CallAdmission`) | `app.py:736` | one call, `GLimit = 1` | the precheck counts the slot `ensure_leg` took for the very call it screens, so the last slot is refused to it (`RefusedAtMostOneSlotEarly` says: never more than one slot early) |
| `AlwaysOneRow` (`CdrBook`) | `models.py:257`, `esl_client.py:1043` | 1 call, `FaultKinds = {"db"}` | the database fails when the event's report looks for the start time of the row the dialplan has inserted; the report takes its own, and the upsert finds no row with that key |
| `PriceIsKept` (`CdrBook`) | `esl_client.py:814` | 1 call, `EslKinds = {"full"}`, no faults (a look-up of a rate may fail without one) | the XML report has brought a price; the event's has none, since `_compute_billing` swallows what its look-ups raise (`esl_client.py:1276`, `:1308`), but is not degraded, and its 0 is written |
| `PricedIsPaid` (`CdrBook`) | `esl_client.py:1438` | 2 calls, 1 sweeper, `SweepLimit = 1`, `MaxDials = 1`, `EslKinds = {"full"}`, no faults, `FairSpec` | a late hangup report resets `billed` of a paid row; as the sweep takes the newest rows up to its limit, such rows keep older unpaid ones out for ever |
| `PricedRowHasAccount` (`CdrBook`) | `esl_client.py:47` | 1 call, `EslKinds = {"bare"}`, no faults | a degraded report takes the account of a priced row away, the sweep then excludes it |
| `CarrierIsPaid` (`CdrBook`) | `esl_client.py:953` | 1 call, `EslKinds = {"full"}`, no faults, `FairSpec` | the carrier charge reads the row before the writer commits its carrier and is never repeated |
| `NextCallAtNewRate` (`BillingRates`) | `esl_client.py:1283` | 2 threads, one change | a thread that read the old rate puts it into the cache after it was cleared |
| `GatewayCountReturns` (`ShadowCount`) | `esl_client.py:470` | `Route = <<g1, g2>>`, `Reconciles = FALSE` | after a failover the leg is counted out of the gateway its record names, not of the one it was counted in |
| `StoreDrains` (`ShadowCount`) | `esl_client.py:601` | `Route = <<g1>>`, `Reconciles = FALSE` | a hangup's variables make the record of a B leg anew, which nothing takes away |
| `OneCallOneRecord` (`ShadowCount`) | `esl_client.py:297` | `Route = <<g1>>`, `Reconciles = TRUE` | a reconcile round pops the record of a call that started after the channels were listed; its B leg becomes a call of its own |

The stream and the dialplan:

| Property (module) | Where it bites | Constants | What happens |
|---|---|---|---|
| `SubscriptionReturns` (`EslStream`) | `esl_client.py:1012` | `MaxLosses = 1`, `FairSpec` | every poll that times out resets the watchdog, so a lost subscription is not renewed until an event comes, which it never does |
| `HalfFrameIsKept` (`EslStream`) | `fs_esl_socket.py:209` | 2 events, `MaxStalls = 1` | the deadline drops the header lines read so far; the fields of the body are read as header lines, and a second stop drops those too: the event has no name |
| `ReplyIsReply` (`EslStream`) | `fs_esl_socket.py:155` | 2 events, `MaxResubs = 1` | an event that precedes the reply is thrown away in its place |
| `InFlightKeepsDocument` (`FailoverDialplan`) | `app.py:806` | 3 calls, `Capacity = 2` | a call that talks does not touch its entry and loses it to newer calls |
| `WinIsAnswered` (`FailoverDialplan`) | `dialplan_xml.py:235` | 2 calls, `Document` with one leg | the entry of a single leg says WIN before it is dialled |
| `SwitchesCounted` (`FailoverDialplan`) | `esl_client.py:857` | 2 calls, `Document` with legs of other codes | a leg that fails outside `continue_on_fail` leaves no entry: the count is one short |
| `PoorIsRefused` (`RouteSelect`) | `app.py:848` | a setup with context "trunk", prepaid, 2 access points | the balance that is looked at is that of an access point resolved apart, which may be another than the one that is routed |
| `EmptyReplacementStrips`, `StarKeepsWhatMatched` (`NumberRules`) | `rules/service.py:99`, `:101` | `Replacement` with `<<"*", "8">>`, `<<"*", "0", "0">>`; the empty one is `Null` in a row | an empty replacement is stored as NULL and raises; `*` before a digit is another group reference |

Rows:

| Property (module) | Where it bites | Constants | What happens |
|---|---|---|---|
| `SteadyGatewayIsShown`, `PeerIsUnregistered` (`GatewayState`) | `gw_state.py:139`, `:80` | `JustStarted = TRUE`; `Edits = TRUE` | the alignment writes a state older than an event handled meanwhile; `auth_type` is checked at the read only |
| `DebounceIsKept`, `AlertTellsOffline` (`NodeHealth`) | `node_health.py:226`, `:287` | 2 nodes | a sweep of another node goes around the debounce; it alerts after its commit, when the node may be back |
| `DownOnlyAfterFailures`, `SteadyGatewayIsAlerted` (`GatewayHeartbeat`) | `heartbeat.py:114`, `:106` | 2 probers | a success that another node wrote is overwritten; a late round alerts what it does not write |
| `RowIsOwn`, `MissedIsDegraded` (`LiveCalls`) | `live_calls.py:294`, `:374` | `LateReplies = TRUE`; `SomeOffline = TRUE` | a late reply is taken for that of the next call; the calls of a node known as offline are left out silently |
| `SteadyUserIsShown` (`PhoneSync`) | `phone_sync.py:36` | 2 nodes; or `PartOf` not empty | each node's poll sets the phones of the other offline; a number inside another one counts as registered |
| `OverlappingChangeReachesNodes` (`Provision`) | `fs_provision.py:75` | 2 requests | number and names are read, changed and written in sessions of their own |
| `DroppedReachesNodes` (`Provision`) | `fs_provision.py:90` | 3 requests, `MaxPending = 2`, `Op = {"save", "rename", "remove"}`, every gateway exists, `Listed = <<>>` | a full rebuild leaves an old gateway on the node; its name, already in the list, keeps its place there, and the very rename that mentions it drops it |
| `RestartCatchesUp`, `FullRebuildCleans`, `RenamedIsPassedOn`, `SeenIsRebuilt` (`Provision`) | `fs_provision.py:314`, `:217`, `:85`, `:346` | `MaxRestarts = 1`; `Op = {"remove"}`, 2 requests; `Listed = <<g1, g2>>`, `MaxPending = 2`, every `Op`; `MaxFailures = 1` | the first look of a watcher rebuilds nothing; a full rebuild knows only names that exist; a name keeps its old place in the list; a rebuild that failed is reported as seen |
| `SomeSuperStays`, `RolesOfUsersStay` (`Users`) | `users.py:153`, `roles.py:146` | 2 slots, 2 users | two requests each count two supers; a role is given while it is deleted |
| `SomebodyManages` (`Users`) | `authz.py:141`, `auth.py:64`, `users.py:68` | 1 slot, 3 users | u3 is given a custom role, then `role = 2`: the guards count him; u1 disables u2, whose token is still good; u2 demotes u1. Nobody can log in and manage the users |
| `CustomIsAdmin`, `RefusedIsSuper`, `ColumnTellsRole` (`Users`) | `users.py:164`, `:149`, `migrate.py:1077` | 1 slot; the last with `Restarts = TRUE` | the two columns that tell a role come apart, and the guards look at only one of them |
| `PhoneIsOfItsAccount`, `AccessPointHasAccount` (`Tenants`) | `crud.py:352`, `:357`, `accounts.py:162` | 2 requests; `NewSchema = FALSE`, `Blanks = TRUE`; an access point | the phone moves to another account between check and write; null is read as not sent; access points are not counted as dependants |
| `TriplesUnique`, `RegisteredHasNode` (`GatewayForm`) | `crud.py:149`, `:153`, `:513` | `Partial = TRUE`; 2 requests; `Known` smaller than `Node` | the check is passed over, or passes twice, or the first commit stays when the second is refused |
| `StartIsNotStopped`, `GatewayIsLoaded` (`Startup`) | `migrate.py:23`, `:885` | 2 nodes; `OldNodes = <<>>`, a gateway without node | the second to run a DDL stops; the backfill waits for a row that is written later |

## 5. Proofs

TLAPS checks the theorems below for all values of the constants: any sets of nodes, calls,
gateways, accounts and users, any limits, queue sizes and numbers of faults. All 25 invariants
that the runs check are theorems, and all of the action properties and refinements
(`RefinesLedger`, `RefusedAtMostOneSlotEarly`, `RowIsKept`, `PaysOnce`, `DownOnlyAfterFailures`,
`StartsAreSafe`, `RulesAreMonotone`) but the safety part of `CallCountsOnce`.

### Calls that compete for slots (`CallAdmissionProofs`)

| Theorem | States |
|---|---|
| `TypeCorrect`, `CountersCover` | `Spec => []TypeOK`, `Spec => []CountersCoverCredentials` |
| `CountersMatch` | `Spec => []CountersMatchCredentials`, if leases do not end |
| `ImplementsLedger` | `Spec => RefinesLedger`: whatever fails, admissions are decided as if the credentials had been counted |
| `GwLimitHolds`, `ApLimitHolds` | `Spec => []GwAdmittedWithinLimit`, `Spec => []ApWithinLimit` |
| `RefusalsNearLimit` | `Spec => RefusedAtMostOneSlotEarly` (which speaks of fail-close, leases that do not end) |
| `RoutedCharged` | `Spec => []RoutedCallIsCharged` (likewise) |
| `CredentialFollows` | `Spec /\ []QueuesHaveRoom => []CredentialFollowsLeg` |

`CountersMatchCredentials` is not inductive: a script run with an old payload would change the
wrong counters. `IInv` adds what excludes this (`ControlInv`): late events (anything but
CHANNEL_CREATE) are only emitted for calls the dialplan has answered; a worker between GET and
EVAL works on such a call of its own node; so its credential is what was read, or has expired.
With it every script keeps the *drift* of every counter (value minus number of credentials), and
the end of a lease can only raise it.

The limits follow from the ledger: a counter covers the credentials that charge it, so a gate
that passes on the counter passes on the credentials (`GateCovers`), and the ledger keeps the
limits by itself.

`RoutedCharged` needs `ChargeInv` beside `IInv`: a waiting call has at most an ensured
credential; a hangup in a queue and a release half done belong to a channel that is gone. So the
handler always upgrades or creates the credential of the call it routes, a transfer keeps its
access point, and nothing releases it before the channel is gone.

`CredentialFollows` needs `FollowInv`: while nothing has failed, a leg that was reported is the
one of the last report in the queue of its node; or no report waits and it is the one the
transfer under way writes, or else the one the credential names. Its hypothesis is that no event
meets a full queue: `_EVT_Q` drops such an event, which is a loss like any other, and the
property is about calls whose events were not lost.

### Rows, money and rates (`CdrBookProofs`, `MoneyProofs`)

| Theorem | States |
|---|---|
| `BookTypeCorrect` | `Spec => []TypeOK` of `CdrBook` |
| `OneRowAlways`, `BilledAlwaysPaid`, `RowAlwaysKept` | `OneRowPerCall`, `BilledIsPaid`, `RowIsKept` |
| `BookImplementsChargeOnce` | `Spec => PaysOnce`: each step of the threads is one of `ChargeOnce` or leaves the payments alone |
| `BalanceAlwaysLedger`, `OverdraftAlwaysBounded` | `BalanceIsLedger`, `OverdraftBounded` of `PrepaidBalance` |
| `BilledAlwaysByItsChain` | `MoneySpec => []BilledByItsChain` |

`BookInv` says of every place in which a row may be (committed, in the writer's transaction, in
its snapshot) that its billed flag is backed by the ledger and its price by an answered call
(`RowsBacked`); that reports in the queue, the batch, the spool are sound; and that the writer
between its statements has something to write. A row in the writer's transaction keeps the price
of the one it replaces, unless its call is known to have had a report without one. A charge finds the ledger key or writes it with
the flag, so what one transaction sees as unpaid is paid once whichever sweeper is first.

That a call has one row rests on the order of things, and not on the key: `OneRowInv` says that
a call that was dialled has a committed row as long as the database has not failed, since the
pre-insert is the first thing that happens to it and commits by itself. Whoever comes later
finds that row, and its key is the only one the call gets (`OneKeyWritten`). Every report is that
of a call that was dialled (`Sound`), in the queue, the batch, the spool and the writer's hands.

That the balance is its ledger needs `LockInv`: who holds the row lock has seen the balance as it
still is, and its call is not paid yet. The bound on the overdraft weighs what is available less
the price of the unpaid calls: the gate lets a call in only above the minimum, and a charge
leaves that difference as it is. `OverdraftInv` adds that no more calls are unpaid than ever were
at once (`peak`), and that those let in while the gate failed are known.

`RatesInv` says that whatever is cached or was read of a row *fits* it: the rate is one the row
has had, and the account beside it an account. A thread takes its own call's rows only, so the
rate it ends with is one of its own chain, however old.

### Events (`EventsProofs`)

| Theorem | States |
|---|---|
| `GlobalAlwaysRecords` | `Spec => []GlobalIsRecords` of `ShadowCount` |
| `EventsAlwaysKept` | `Stream!Spec => []EventsAreKept`, the instance of `EslStream` in `Connection` |

The counter is the counted records plus the one the reconcile thread holds (`CountInv`). A step
of the worker changes both only if the record it looked up is still where it was, or was popped
by the reconcile thread and is no longer counted by anyone (`WorkInv`, `RcInv`); and the one
place that overwrites a record, the creation of a B leg whose A leg is known, takes no count
away, because a B leg is counted by its own creation alone, which comes once (`QueueInv`,
`FreshInv`).

`StreamInv`: events on the wire follow those that arrived, in order (`InOrder`); each one sent
is in one of the places (`Accounted`); and a reply that is waited for has not yet cost an event
(`TakenInv`), which bounds the events taken for replies by the subscriptions. That an event
without its name has cost two stops of the network is `TornInv`: `Debt` says how many the frame
under way has cost at least, by what is left of it on the wire (`Framed`: pieces follow each
other as they were sent) and by the lines the reader has kept.

### Dialplan (`DialplanProofs`)

| Theorem | States |
|---|---|
| `LegsAlwaysTold` | `DialplanSpec => []LegsAreTold` |
| `LostOnlyEverIfBusy` | `DialplanSpec => []LostOnlyIfBusy` |
| `BestLegAlwaysFirst` | `DialplanSpec => []BestLegIsFirst`, any tables, policies and refused reservations |
| `RefusedOnlyEverByAll` | `DialplanSpec => []RefusedOnlyIfAllRefuse` |
| `RulesAlwaysMonotone` | `DialplanSpec => RulesAreMonotone`, any numbers, patterns and changes of rules |

`LegsInv` says how far each call is in its document: which legs were tried, what its record
tells of them, which extension it is at (`StoryOf`), and that what is cached of it is this
document. `CacheInv`: the document of a call in progress is cached, or the cache is so full of
younger entries that as many other calls asked meanwhile as it holds (`Held`, `Busy`); the
entries behind one in the order are of distinct calls that asked later (`Crowded`).

`RouteInv` says of a call that is answered what the two properties say, and of one that is not
that nothing is answered. The work is in the order of the candidates: `InTurn` is a strict order
(`TurnsAreStrict`, `TurnsAreTransitive`), so turns grow along it (`TurnsGrow`), and as there are
as many turns as rows each is taken once (`TurnsAreTaken`); hence the sequence has every row at
its turn (`OrderedIs`, `OrderedHasAll`), whoever stands before the gateway that took the
reservation was refused one (`TriedFirst`), and moving that gateway to the front loses no other
(`WithFirstIs`). A call is busy only when the sequence has been tried to its end (`BusyReply`),
and over a trunk only rules pass it on to the next access point (`OtherTrunk`).

`RulesInv` is the type of the rows. That a further row moves who is admitted one way
(`OneMoreRule`) and that a refusal reports a cause (`CauseIs`) hold of any way to match. The
replacement of prefixes needs the cuts of a number: a pattern without wildcards has one
(`PlainCuts`, by the least position where another would differ), so the longest of the rows is
the one that applies and what follows the head is kept (`LongestReplaces`).

### Rows of nodes, gateways and calls (`MonitoringProofs`)

| Theorem | States |
|---|---|
| `SteadyNodeAlwaysOnline` | `[]SteadyNodeIsOnline` |
| `DownOnlyEverAfterFailures` | `DownOnlyAfterFailures`, for any threshold, of one prober |
| `AlignmentAlwaysTells` | `[]AlignmentTells` |
| `LiveCallsAlwaysTold` | `[]LiveCallsAreTold` |

`HealthInv` counts intervals: in the first one a node runs through, it gets a heartbeat; in the
second it is too young for a sweep, so what it has read of its row still stands when it writes;
from the third on its row says so (`SteadyInv`). A sweep that began after the last heartbeat had
aged finds the row (`SilentInv`). This needs `STALE >= 3` intervals, which `node_health.py:83`
enforces. `BeatInv`: the row counts the failed probes but for the one not yet written.
`AlignInv`: of a gateway nothing happened to since the snapshot (`quiet`), no event waits, the
worker writes nothing, and once its turn came its row is right or about to be. `PageInv` and
`LateInv`: what a probe has heard of a call is what the call has had, and of a call that did not
change it is what it has.

### Rows the management API writes (`ManagementProofs`, `ProvisionProofs`)

| Theorem | States |
|---|---|
| `SomeSuperAlwaysStays` | `[]SomeSuperStays`, requests one at a time, of whomever, and starts in between |
| `PhoneAlwaysOfItsAccount` | `[]PhoneIsOfItsAccount`: numbers unique with overlapping requests, phones of their account with single ones |
| `TriplesAlwaysUnique` | `[]TriplesUnique`, whole forms one at a time |
| `StartsAlwaysSafe` | `StartsAreSafe`, any number of nodes, crashes and refusals |
| `ChangesAlwaysReach` | `[]ChangeReachesNodes` |

The first three say what a request that is between its check and its commit has established, and
that nobody else can undo it: `JobFits` and `TenantJobFits`, and for the form, which commits
twice, `FormChecked` (no other gateway of the node has the triple), `FormWritten` and the
uniqueness of the gateways that are settled. `UsersInv` has somebody whom the guards count in
every state, whatever the codes say: who asks does not matter, and a start changes none of the
columns that are counted. `StartInv` says that what a process has passed is
made, whoever made it.

`ProvisionInv` is stated and proved once, over `Provision`, and used for both of its instances.
A change reaches a node on one of five ways at a time: FreeSWITCH has it; a thread will kill the
gateway; a thread will create what is not there; the request has not written its number yet; or
the watcher is behind the number and will find the name in the list, or rebuild everything
(`ReachInv`). Each step passes the change on from one way to the next as long as requests write
numbers and lists one after the other (`SerialInv`); and a node keeps what its own request will
rebuild, whatever the others do (`OwnInv`). The proof attempt showed a way that the property must
leave out: a list that is full drops a name (section 4, `DroppedReachesNodes`).

### Assumptions

They are named, in the module that declares the constants: `UuidFinite`, `LimitTypes`,
`KeysDistinct`, `AdmissionTypes`, `CdrConstants`, `PrepaidConstants`, `ShadowAssumption`,
`SetupTypes`; and for instances the `XAssumption` of the composing module, which asserts `XConstants` of each
component. They are types of the constants, a bound of at least one where the code has one, the
finiteness of sets that are counted, and that special values (`None`, `NoGw`, ...) are none of
the others. Some say a little more, and why: `OldNodes` and the names `Listed` at the start are
distinct (row ids; a list the code keeps without repetition and within `PENDING_MAX`); an
account's row of `BillingRates` is not one of the fixed rows; documents are no longer than
`MaxTried`, which only bounds the trail; "WIN" is no failure cause (`dialplan_xml.py` writes it
for an answered leg alone); the rows of a route table are finite in number, and numbers and
patterns are texts (`RulesAssumption`); every call has a home node and the queue room for one event.

### Only model-checked

| Property | Why |
|---|---|
| `EveryRequestIsAnswered`, `GoneCallIsReleased`, `CountersConverge`, `GoneCallLeavesNothing`, `ReportArrives`, `SteadyIsShown`, `GapIsReconciled`, and the convergence in `CallCountsOnce` | liveness under fairness is out of the prover's reach |
| the invariant part of `CallCountsOnce` | not proved yet, section 7 |
| `CallReconcile`, apart from its convergence | no invariant of it is checked or proved: with the reconcile thread a payload can be stale and `calibrate` overwrites counters; the theorems about counters do not hold there, and rightly so: only convergence does, which is checked |

## 6. Not modelled

| Part | Why |
|---|---|
| Database models | data definitions; the keys and columns that matter are in the modules of their users |
| Configuration and authentication APIs, queries, reports | a request is checked and answered by itself in one transaction; nothing is kept between requests |
| Recordings, CDR export | file access, queries and formatting |
| Web front end | browser pages over the API |
| `local` back end of the limiter | its counters are those of `ShadowCount`; it reserves nothing, its admission is a comparison with them |
| Cached availability of the Redis client (`core/redis_client.py:77`) | a process that started before Redis stays fail-open; no state of its own beyond that flag |
| Text of the FreeSWITCH files, SQL of the migrations, conversion of the XML CDR, permission matrix | data that no property here tells apart |

## 7. Plan

What is left is proof:

1. `ShadowCount`: that an undisturbed call is one record (the safety part of `CallCountsOnce`),
   from `ShadowInv` and what a queue without losses holds of a call.
2. `CallReconcile`: its types, then that a round without faults keeps `CountersMatch` of the calls
   it does not touch.
