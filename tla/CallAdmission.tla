---------------------------- MODULE CallAdmission ----------------------------
(***************************************************************************)
(* Two or more gateway nodes admit calls against one Redis store.          *)
(*                                                                         *)
(* On every node FreeSWITCH owns the channels.  It asks the node's         *)
(* /fs/dialplan handler for a route (src/src/api/app.py, synchronous code  *)
(* in one event loop: one call at a time) and reports what happens to the  *)
(* channel through the ESL event queue, which one worker thread consumes   *)
(* (src/src/esl_client.py).  Handler and worker touch the same credential: *)
(* CHANNEL_CREATE may be handled before, between or after the dialplan's   *)
(* Redis calls.  Redis, the event stream, FreeSWITCH and the gateway       *)
(* process may fail: FaultKinds says how, MaxFaults bounds how often.      *)
(*                                                                         *)
(* A definition named X_Something is X with a plausible bug, kept to show  *)
(* which property finds it; no specification uses it.                      *)
(***************************************************************************)
EXTENDS ConcurrencyStore, Sequences

CONSTANTS
    Node,           \* gateway nodes
    Home,           \* the node whose FreeSWITCH carries the call
    ApOf,           \* the access point of the call, NoAp for a phone
    FailOpen,       \* concurrency.fail_open
    QueueSize,      \* maxsize of _EVT_Q
    FaultKinds,     \* subset of Faults that may happen
    MaxFaults       \* bound on the number of faults in a behaviour

Faults == {"loss", "expiry", "outage", "reply", "restart", "fscrash"}

ASSUME AdmissionTypes == /\ Home \in [Uuid -> Node]
                         /\ ApOf \in [Uuid -> Ap \cup {NoAp}]
                         /\ FailOpen \in BOOLEAN
                         /\ QueueSize \in Nat \ {0}
                         /\ FaultKinds \subseteq Faults
                         /\ MaxFaults \in Nat

VARIABLES
    chan,       \* state of the channel in FreeSWITCH
    legs,       \* gateways of the routed call still to be tried, current one first
    told,       \* an event reported the current gateway of the call
    dp,         \* the call each node's dialplan handler is reserving for
    evq,        \* event queue of each node
    ew,         \* the Redis call each event worker is in the middle of
    known,      \* calls with a record in _call_store
    redisUp,    \* Redis answers
    faults      \* faults so far

store == <<cnt, resv>>
fs    == <<chan, legs, told>>
vars  == <<cnt, resv, chan, legs, told, dp, evq, ew, known, redisUp, faults>>

Refused   == {"busy_global", "busy_ap", "busy_gw", "busy_redis", "denied"}
InCall    == {"routed", "local"}
ChanState == {"new", "wait", "gone"} \cup Refused \cup InCall

\* The candidate lists that routing can produce: gateways in order of
\* preference, each once.
Candidates ==
    {s \in UNION {[1..m -> Gw] : m \in 1..Cardinality(Gw)} :
        \A i, j \in DOMAIN s : s[i] = s[j] => i = j}

\* "bare" is a hangup whose event carries no channel variables.
Event == [kind : {"create", "vars", "hangup", "bare"}, u : Uuid, g : Gw \cup {NoGw}]

NoCall  == [u |-> NoGw, skipped |-> <<>>, todo |-> <<>>]
Attempt == [u : Uuid, skipped : Seq(Gw), todo : Seq(Gw)]

Resting == [op |-> "rest"]
Work    == {Resting}
           \cup [op : {"transfer"}, u : Uuid, p : Credential, g : Gw]
           \cup [op : {"release"},  u : Uuid, p : Credential]

TypeOK ==
    /\ StoreTypeOK
    /\ chan  \in [Uuid -> ChanState]
    /\ legs  \in [Uuid -> Seq(Gw)]
    /\ told  \in [Uuid -> BOOLEAN]
    /\ dp    \in [Node -> Attempt \cup {NoCall}]
    /\ evq   \in [Node -> Seq(Event)]
    /\ ew    \in [Node -> Work]
    /\ known \subseteq Uuid
    /\ redisUp \in BOOLEAN
    /\ faults  \in 0..MaxFaults

Init ==
    /\ StoreInit
    /\ chan  = [u \in Uuid |-> "new"]
    /\ legs  = [u \in Uuid |-> <<>>]
    /\ told  = [u \in Uuid |-> FALSE]
    /\ dp    = [n \in Node |-> NoCall]
    /\ evq   = [n \in Node |-> <<>>]
    /\ ew    = [n \in Node |-> Resting]
    /\ known = {}
    /\ redisUp = TRUE
    /\ faults = 0

Fault(kind) ==
    /\ kind \in FaultKinds
    /\ faults < MaxFaults
    /\ faults' = faults + 1
-----------------------------------------------------------------------------
(* FreeSWITCH: the channels and the events they emit. *)

\* The reader thread queues the event, or drops it when the queue is full; a
\* broken ESL connection loses it.
Emit(e) ==
    LET n == Home[e.u] IN
    \/ /\ evq' = IF Len(evq[n]) < QueueSize THEN [evq EXCEPT ![n] = Append(@, e)] ELSE evq
       /\ UNCHANGED faults
    \/ Fault("loss") /\ UNCHANGED evq

NewCall(u) ==
    /\ chan[u] = "new"
    /\ chan' = [chan EXCEPT ![u] = "wait"]
    /\ Emit([kind |-> "create", u |-> u, g |-> NoGw])
    /\ UNCHANGED <<store, legs, told, dp, ew, known, redisUp>>

\* Progress and answer of a routed call: the event carries the cdr_gateway_id
\* of the leg being tried.
ReportLeg(u) ==
    /\ chan[u] = "routed"
    /\ ~told[u]
    /\ told' = [told EXCEPT ![u] = TRUE]
    /\ Emit([kind |-> "vars", u |-> u, g |-> Head(legs[u])])
    /\ UNCHANGED <<store, chan, legs, dp, ew, known, redisUp>>

\* The leg fails with one of its switch codes: the next one is dialled.
Failover(u) ==
    /\ chan[u] = "routed"
    /\ Len(legs[u]) > 1
    /\ legs' = [legs EXCEPT ![u] = Tail(@)]
    /\ told' = [told EXCEPT ![u] = FALSE]
    /\ UNCHANGED <<store, chan, dp, evq, ew, known, redisUp, faults>>

HangUp(u) ==
    /\ chan[u] \in InCall \cup Refused
    /\ chan' = [chan EXCEPT ![u] = "gone"]
    /\ \/ Emit([kind |-> "bare", u |-> u, g |-> NoGw])
       \/ Emit([kind |-> "hangup", u |-> u,
                g |-> IF chan[u] = "routed" THEN Head(legs[u]) ELSE NoGw])
    /\ UNCHANGED <<store, legs, told, dp, ew, known, redisUp>>

\* FreeSWITCH of node n dies: its channels are gone and nothing is reported.
FsCrash(n) ==
    /\ Fault("fscrash")
    /\ chan' = [u \in Uuid |-> IF Home[u] = n /\ chan[u] # "new" THEN "gone" ELSE chan[u]]
    /\ UNCHANGED <<store, legs, told, dp, evq, ew, known, redisUp>>
-----------------------------------------------------------------------------
(* The dialplan handler. *)

\* The response reaches FreeSWITCH unless the channel is gone by then.
Respond(u, state) ==
    chan' = [chan EXCEPT ![u] = IF @ = "wait" THEN state ELSE @]

\* Requests that reserve nothing: rules, balance or routing refuse the call,
\* or it stays between local phones.
AnswerWithoutSlot(n, u) ==
    /\ chan[u] = "wait" /\ Home[u] = n /\ dp[n] = NoCall
    /\ \E state \in {"denied", "local"} : Respond(u, state)
    /\ UNCHANGED <<store, legs, told, dp, evq, ew, known, redisUp, faults>>

\* The call asking is counted as if it were admitted already.
Precheck_CountsItself(u) ==
    IF AtLimit(cnt[Global] + 1, GLimit) THEN "busy_global"
    ELSE IF ApOf[u] \in Ap /\ AtLimit(cnt[ApOf[u]] + 1, ApLimit[ApOf[u]]) THEN "busy_ap"
    ELSE "ok"

\* The precheck on the snapshot, before any gate of the store.
Precheck(u) ==
    IF AtLimit(cnt[Global], GLimit) THEN "busy_global"
    ELSE IF ApOf[u] \in Ap /\ AtLimit(cnt[ApOf[u]], ApLimit[ApOf[u]]) THEN "busy_ap"
    ELSE "ok"

\* Gateways at their limit come after those that are not.
FullOnesLast(s) ==
    \A i, j \in DOMAIN s :
        (i < j /\ AtLimit(cnt[s[i]], GwLimit[s[i]])) => AtLimit(cnt[s[j]], GwLimit[s[j]])

StartReserving(n, u, todo) ==
    dp' = [dp EXCEPT ![n] = [u |-> u, skipped |-> <<>>, todo |-> todo]]

\* Candidates are selected, the snapshot is read, the prechecks are made and
\* the candidates reordered.  Redis down: refuse, or fall back on the shadow
\* counters, whose values (and so the order) are not known here.
Screen(n, u) ==
    /\ chan[u] = "wait" /\ Home[u] = n /\ dp[n] = NoCall
    /\ \/ /\ redisUp /\ Precheck(u) # "ok"
          /\ Respond(u, Precheck(u)) /\ UNCHANGED dp
       \/ /\ redisUp /\ Precheck(u) = "ok"
          /\ \E todo \in Candidates : FullOnesLast(todo) /\ StartReserving(n, u, todo)
          /\ UNCHANGED chan
       \/ /\ ~redisUp /\ ~FailOpen
          /\ Respond(u, "busy_redis") /\ UNCHANGED dp
       \/ /\ ~redisUp /\ FailOpen
          /\ \/ \E todo \in Candidates : StartReserving(n, u, todo) /\ UNCHANGED chan
             \/ /\ GLimit > 0
                /\ Respond(u, "busy_global") /\ UNCHANGED dp
             \/ /\ ApOf[u] \in Ap /\ ApLimit[ApOf[u]] > 0
                /\ Respond(u, "busy_ap") /\ UNCHANGED dp
    /\ UNCHANGED <<store, legs, told, evq, ew, known, redisUp, faults>>

\* The candidate being tried becomes the first leg, the others keep their order.
Route(n) ==
    LET u == dp[n].u IN
    /\ Respond(u, "routed")
    /\ legs' = [legs EXCEPT ![u] =
                   <<Head(dp[n].todo)>> \o dp[n].skipped \o Tail(dp[n].todo)]
    /\ dp' = [dp EXCEPT ![n] = NoCall]

Refuse(n, state) ==
    /\ Respond(dp[n].u, state)
    /\ dp' = [dp EXCEPT ![n] = NoCall]
    /\ UNCHANGED legs

\* The last candidate is full as well and nobody answers.
TryNext_NoRefusal(n) ==
    LET d == dp[n] IN
    /\ Len(d.todo) > 1
    /\ dp' = [dp EXCEPT ![n] = [u |-> d.u, skipped |-> Append(d.skipped, Head(d.todo)),
                                todo |-> Tail(d.todo)]]
    /\ UNCHANGED <<chan, legs>>

\* The candidate's gateway is full: go on with the next one, or refuse.
TryNext(n) ==
    LET d == dp[n] IN
    \/ Len(d.todo) = 1 /\ Refuse(n, "busy_gw")
    \/ /\ Len(d.todo) > 1
       /\ dp' = [dp EXCEPT ![n] = [u |-> d.u, skipped |-> Append(d.skipped, Head(d.todo)),
                                   todo |-> Tail(d.todo)]]
       /\ UNCHANGED <<chan, legs>>

\* One reserve_leg call and what its verdict leads to.
Reserve(n) ==
    /\ dp[n] # NoCall /\ redisUp
    /\ LET u    == dp[n].u
           g    == Head(dp[n].todo)
           gate == ReserveVerdict(u, g, ApOf[u])
       IN  /\ ReserveEval(u, g, ApOf[u])
           /\ \/ gate = "ok" /\ Route(n)
              \/ gate = "global" /\ Refuse(n, "busy_global")
              \/ gate = "ap" /\ Refuse(n, "busy_ap")
              \/ gate = "gw" /\ TryNext(n)
    /\ UNCHANGED <<told, evq, ew, known, redisUp, faults>>

\* No answer is taken for a success.
ReserveUnanswered_Routes(n) ==
    /\ dp[n] # NoCall
    /\ \/ ~redisUp /\ UNCHANGED <<store, faults>>
       \/ /\ redisUp /\ Fault("reply")
          /\ ReserveEval(dp[n].u, Head(dp[n].todo), ApOf[dp[n].u])
    /\ Route(n)
    /\ UNCHANGED <<told, evq, ew, known, redisUp>>

\* reserve_leg gets no answer: the connection is down, or the script ran and
\* its reply timed out.
ReserveUnanswered(n) ==
    /\ dp[n] # NoCall
    /\ \/ ~redisUp /\ UNCHANGED <<store, faults>>
       \/ /\ redisUp /\ Fault("reply")
          /\ ReserveEval(dp[n].u, Head(dp[n].todo), ApOf[dp[n].u])
    /\ IF FailOpen THEN Route(n) ELSE Refuse(n, "busy_redis")
    /\ UNCHANGED <<told, evq, ew, known, redisUp>>
-----------------------------------------------------------------------------
(* The event worker. *)

Idle(n)    == ew[n] = Resting /\ evq[n] # <<>>
Dequeue(n) == evq' = [evq EXCEPT ![n] = Tail(@)]

HandleCreate(n) ==
    /\ Idle(n) /\ Head(evq[n]).kind = "create"
    /\ LET u == Head(evq[n]).u IN
       /\ known' = known \cup {u}
       /\ IF redisUp THEN EnsureEval(u) ELSE UNCHANGED store
    /\ Dequeue(n)
    /\ UNCHANGED <<fs, dp, ew, redisUp, faults>>

\* The variables of an event are captured first, whatever its type.  A gateway
\* that differs from the credential's starts a transfer: this is its GET.  Of
\* a hangup the bare rest stays at the head, to be handled next.
HandleVars(n) ==
    /\ Idle(n) /\ Head(evq[n]).kind \in {"vars", "hangup"}
    /\ LET e == Head(evq[n]) IN
       /\ known' = known \cup {e.u}
       /\ ew' = IF redisUp /\ e.g # NoGw /\ resv[e.u] # Absent /\ resv[e.u].g # e.g
                THEN [ew EXCEPT ![n] = [op |-> "transfer", u |-> e.u, p |-> resv[e.u], g |-> e.g]]
                ELSE ew
       /\ IF e.kind = "vars" THEN Dequeue(n)
          ELSE evq' = [evq EXCEPT ![n][1] = [kind |-> "bare", u |-> e.u, g |-> NoGw]]
    /\ UNCHANGED <<store, fs, dp, redisUp, faults>>

\* A hangup of a recorded call takes the record away and starts the release
\* (its GET); one of an unknown call only writes a minimal CDR.
HandleHangup(n) ==
    /\ Idle(n) /\ Head(evq[n]).kind = "bare"
    /\ LET u == Head(evq[n]).u IN
       /\ known' = known \ {u}
       /\ ew' = IF u \in known /\ redisUp /\ resv[u] # Absent
                THEN [ew EXCEPT ![n] = [op |-> "release", u |-> u, p |-> resv[u]]]
                ELSE ew
    /\ Dequeue(n)
    /\ UNCHANGED <<store, fs, dp, redisUp, faults>>

\* The second half of transfer_leg and release_leg: the script.
FinishTransfer(n) ==
    /\ ew[n].op = "transfer"
    /\ IF redisUp THEN TransferEval(ew[n].u, ew[n].p, ew[n].g) ELSE UNCHANGED store
    /\ ew' = [ew EXCEPT ![n] = Resting]
    /\ UNCHANGED <<fs, dp, evq, known, redisUp, faults>>

FinishRelease(n) ==
    /\ ew[n].op = "release"
    /\ IF redisUp THEN ReleaseEval(ew[n].u, ew[n].p) ELSE UNCHANGED store
    /\ ew' = [ew EXCEPT ![n] = Resting]
    /\ UNCHANGED <<fs, dp, evq, known, redisUp, faults>>
-----------------------------------------------------------------------------
(* The environment. *)

RedisDown ==
    /\ redisUp /\ Fault("outage")
    /\ redisUp' = FALSE
    /\ UNCHANGED <<store, fs, dp, evq, ew, known>>

RedisBack ==
    /\ ~redisUp
    /\ redisUp' = TRUE
    /\ UNCHANGED <<store, fs, dp, evq, ew, known, faults>>

LeaseEnds(u) ==
    /\ Fault("expiry")
    /\ LeaseExpires(u)
    /\ UNCHANGED <<fs, dp, evq, ew, known, redisUp>>

\* The gateway process of node n restarts.  Records and queued events are
\* lost; FreeSWITCH refuses the calls whose dialplan request failed.
Restart(n) ==
    /\ Fault("restart")
    /\ chan' = [u \in Uuid |-> IF Home[u] = n /\ chan[u] = "wait" THEN "denied" ELSE chan[u]]
    /\ dp'  = [dp EXCEPT ![n] = NoCall]
    /\ evq' = [evq EXCEPT ![n] = <<>>]
    /\ ew'  = [ew EXCEPT ![n] = Resting]
    /\ known' = {u \in known : Home[u] # n}
    /\ UNCHANGED <<store, legs, told, redisUp>>

Dialplan(n) == Reserve(n) \/ ReserveUnanswered(n)
                 \/ \E u \in Uuid : AnswerWithoutSlot(n, u) \/ Screen(n, u)
Worker(n)   == HandleCreate(n) \/ HandleVars(n) \/ HandleHangup(n)
                 \/ FinishTransfer(n) \/ FinishRelease(n)
Channel(u)  == NewCall(u) \/ ReportLeg(u) \/ Failover(u) \/ HangUp(u)

\* Every step but a restart, which CallReconcile extends.
Step == \/ \E n \in Node : Dialplan(n) \/ Worker(n) \/ FsCrash(n)
        \/ \E u \in Uuid : Channel(u) \/ LeaseEnds(u)
        \/ RedisDown \/ RedisBack

Next == Step \/ \E n \in Node : Restart(n)

Spec == Init /\ [][Next]_vars

\* The worker thread and the event loop run whenever they have something to
\* do, and Redis comes back.  Nothing is assumed of callers.
Fairness == /\ \A n \in Node : WF_vars(Worker(n)) /\ WF_vars(Dialplan(n))
            /\ WF_vars(RedisBack)

FairSpec == Spec /\ Fairness
-----------------------------------------------------------------------------
(* Properties. *)

\* The calls that reserve_leg (not a failover) put on gateway g.
AdmittedTo(g) == {u \in Uuid : resv[u].kind = "reserved" /\ resv[u].g = g}

\* Admission never takes a gateway above its concurrent_limit, whatever the
\* order of events, dialplan requests and faults on any node.  Calls that
\* transfer_leg moved there after a failover are not admitted by a gate and
\* are not counted here.
GwAdmittedWithinLimit ==
    \A g \in Gw : GwLimit[g] > 0 => Cardinality(AdmittedTo(g)) <= GwLimit[g]

\* No access point ever has more credentials than its concurrent_limit, the
\* transferred ones included: a transfer keeps the access point it found.
ApWithinLimit ==
    \A a \in Ap : ApLimit[a] > 0 => Cardinality(Holders(resv, a)) <= ApLimit[a]

\* Fail-close: as long as no lease ends, a call that FreeSWITCH is routing or
\* has routed owns a full credential with its own access point.  A credential
\* is released only after its channel is gone.
RoutedCallIsCharged ==
    ~FailOpen /\ "expiry" \notin FaultKinds =>
        \A u \in Uuid : chan[u] = "routed" => resv[u] \in Full /\ resv[u].a = ApOf[u]

\* A call refused with busy_limit_global was refused at most one slot early:
\* the other calls hold all slots of the global limit but one.  (The slot is
\* the refused call's own, when its CHANNEL_CREATE was handled first.)
RefusedAtMostOneSlotEarly ==
    [][\A u \in Uuid : chan[u] = "wait" /\ chan'[u] = "busy_global" =>
          Cardinality(Holders(resv, Global) \ {u}) >= GLimit - 1]_vars

\* Every step is a step of the ledger: admissions are decided as if the
\* credentials had been counted.
RefinesLedger == Ledger!LedgerSpec

\* While nothing fails: once an event reported the leg a call is on, the
\* credential names that gateway, or the event or the transfer to it is on
\* its way.  So a failover cannot leave the call charged to another gateway.
CredentialFollowsLeg ==
    faults = 0 => \A u \in Uuid : chan[u] = "routed" /\ told[u] =>
        LET g == Head(legs[u])
            n == Home[u]
        IN  \/ resv[u].g = g
            \/ \E i \in DOMAIN evq[n] :
                  evq[n][i] = [kind |-> "vars", u |-> u, g |-> g]
            \/ ew[n].op = "transfer" /\ ew[n].u = u /\ ew[n].g = g

\* While nothing fails: the credential of a call that is gone is released.
GoneCallIsReleased ==
    \A u \in Uuid : chan[u] = "gone" ~> resv[u] = Absent \/ faults > 0

\* Every dialplan request is answered, also when Redis goes away between the
\* snapshot and a reservation.
EveryRequestIsAnswered ==
    \A u \in Uuid : chan[u] = "wait" ~> chan[u] # "wait"
-----------------------------------------------------------------------------
(* Said of the code and refuted by this model; the README tells how. *)

\* docs: above the global limit a call is refused with busy_limit_global, and
\* so not before the other calls have reached it.
RefusedOnlyWhenFull ==
    [][\A u \in Uuid : chan[u] = "wait" /\ chan'[u] = "busy_global" =>
          Cardinality(Holders(resv, Global) \ {u}) >= GLimit]_vars

\* The final gate is atomic: the calls that were admitted to a gateway are
\* never more than the global limit.
GlobalLimitHolds ==
    GLimit > 0 => Cardinality({u \in Uuid : resv[u].kind = "reserved"}) <= GLimit
=============================================================================
