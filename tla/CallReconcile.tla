---------------------------- MODULE CallReconcile ----------------------------
(***************************************************************************)
(* CallAdmission together with the reconcile thread of every node          *)
(* (_reconcile_pass in src/src/esl_client.py): it compares the channels of *)
(* its FreeSWITCH with the credentials and with _call_store, releases what *)
(* was lost and sets the counters to what the credentials say.  Each round *)
(* is many separate Redis calls between which the node's worker, its       *)
(* dialplan handler and the other nodes go on.                             *)
(*                                                                         *)
(* A scan of the credentials is one step here (the code reads them key by  *)
(* key); everything done with the result takes a step per credential or    *)
(* counter.                                                                *)
(*                                                                         *)
(* A definition named X_Something is X with a plausible bug, kept to show  *)
(* which property finds it; no specification uses it.                      *)
(***************************************************************************)
EXTENDS CallAdmission

VARIABLE rc         \* the round each reconcile thread is in

rvars == <<vars, rc>>

Phases == {"sleep", "scan", "free", "calibrate", "heal"}

\* live: channels listed; view: credentials scanned; todo: calls to release or
\* counters to set; u, p: the call whose payload was read, p = Absent if none.
Round == [phase : Phases, live : SUBSET Uuid, view : [Uuid -> Credential],
          todo : SUBSET (Uuid \cup Key), u : Uuid \cup {NoGw}, p : Credential]

Asleep == [phase |-> "sleep", live |-> {}, view |-> [u \in Uuid |-> Absent],
           todo |-> {}, u |-> NoGw, p |-> Absent]

RTypeOK == /\ TypeOK
           /\ rc \in [Node -> Round]

RInit == Init /\ rc = [n \in Node |-> Asleep]

\* The channels of `show channels` on node n.
Channels(n) == {u \in Uuid : Home[u] = n /\ chan[u] \notin {"new", "gone"}}

\* The round of node n is in the given phase and has no script to run.
At(n, phase) == rc[n].phase = phase /\ rc[n].p = Absent

ListChannels(n) ==
    /\ At(n, "sleep")
    /\ rc' = [rc EXCEPT ![n].phase = "scan", ![n].live = Channels(n)]
    /\ UNCHANGED vars

\* Records of this node whose channel was not listed.
LostRecords(n) == {u \in known : Home[u] = n} \ rc[n].live

\* What comes after the Redis pass: the records of _call_store.
GoHeal(n) == [Asleep EXCEPT !.phase = "heal", !.todo = LostRecords(n)]

\* Only the calls in _call_store are looked at.
Leaked_Known(n) ==
    {u \in known : Home[u] = n /\ resv[u] # Absent} \ rc[n].live

\* The credentials of this node without a listed channel are leaked.
Leaked(n) == {u \in Uuid : Home[u] = n /\ resv[u] # Absent} \ rc[n].live

Scan(n) ==
    /\ At(n, "scan")
    /\ rc' = [rc EXCEPT ![n] =
          IF redisUp
          THEN [@ EXCEPT !.phase = "free", !.view = resv, !.todo = Leaked(n)]
          ELSE GoHeal(n)]
    /\ UNCHANGED vars

\* release_leg of one leaked credential or lost record: the GET.
ReadPayload(n, u) ==
    rc' = [rc EXCEPT ![n].todo = @ \ {u},
                     ![n].u = IF redisUp /\ resv[u] # Absent THEN u ELSE NoGw,
                     ![n].p = IF redisUp THEN resv[u] ELSE Absent]

FreeLeaked(n) ==
    /\ At(n, "free")
    /\ \E u \in rc[n].todo : ReadPayload(n, u)
    /\ UNCHANGED vars

\* A lost record is taken away (unless the hangup was handled meanwhile) and
\* its credential released.
HealRecord(n) ==
    /\ At(n, "heal")
    /\ \E u \in rc[n].todo :
          IF u \in known
          THEN /\ known' = known \ {u}
               /\ ReadPayload(n, u)
          ELSE /\ rc' = [rc EXCEPT ![n].todo = @ \ {u}]
               /\ UNCHANGED known
    /\ UNCHANGED <<store, fs, dp, evq, ew, redisUp, faults>>

\* The script of that release_leg.
FreeEval(n) ==
    /\ rc[n].p # Absent
    /\ IF redisUp THEN ReleaseEval(rc[n].u, rc[n].p) ELSE UNCHANGED store
    /\ rc' = [rc EXCEPT ![n].u = NoGw, ![n].p = Absent,
                        ![n].view = IF redisUp /\ resv[rc[n].u] # Absent
                                    THEN [@ EXCEPT ![rc[n].u] = Absent] ELSE @]
    /\ UNCHANGED <<fs, dp, evq, ew, known, redisUp, faults>>

\* The credentials are scanned again to say what the counters should be; if
\* Redis does not answer, the first scan without what was released serves.
Recount(n) ==
    /\ At(n, "free") /\ rc[n].todo = {}
    /\ rc' = [rc EXCEPT ![n].phase = "calibrate", ![n].todo = Key,
                        ![n].view = IF redisUp THEN resv ELSE @]
    /\ UNCHANGED vars

\* A counter is corrected downwards only, or upwards only.
Calibrate_Within(n, Allowed(_, _)) ==
    /\ At(n, "calibrate")
    /\ \E k \in rc[n].todo :
          LET expected == Cardinality(Holders(rc[n].view, k)) IN
          /\ Global \in rc[n].todo => k = Global
          /\ cnt' = IF redisUp /\ Allowed(expected, cnt[k])
                    THEN [cnt EXCEPT ![k] = expected] ELSE cnt
          /\ rc' = [rc EXCEPT ![n] = IF redisUp THEN [@ EXCEPT !.todo = @ \ {k}] ELSE GoHeal(n)]
    /\ UNCHANGED <<resv, fs, dp, evq, ew, known, redisUp, faults>>

Calibrate_NeverLowers(n) == Calibrate_Within(n, >)

\* One counter, the global one first: set when it differs.  Without Redis the
\* rest is given up.
Calibrate(n) ==
    /\ At(n, "calibrate")
    /\ \E k \in rc[n].todo :
          /\ Global \in rc[n].todo => k = Global
          /\ IF redisUp
             THEN /\ cnt' = [cnt EXCEPT ![k] = Cardinality(Holders(rc[n].view, k))]
                  /\ rc' = [rc EXCEPT ![n].todo = @ \ {k}]
             ELSE /\ rc' = [rc EXCEPT ![n] = GoHeal(n)]
                  /\ UNCHANGED cnt
    /\ UNCHANGED <<resv, fs, dp, evq, ew, known, redisUp, faults>>

Calibrated(n) ==
    /\ At(n, "calibrate") /\ rc[n].todo = {}
    /\ rc' = [rc EXCEPT ![n] = GoHeal(n)]
    /\ UNCHANGED vars

EndRound(n) ==
    /\ At(n, "heal") /\ rc[n].todo = {}
    /\ rc' = [rc EXCEPT ![n] = Asleep]
    /\ UNCHANGED vars

Reconcile(n) == \/ ListChannels(n) \/ Scan(n) \/ FreeLeaked(n) \/ FreeEval(n) \/ Recount(n)
                \/ Calibrate(n) \/ Calibrated(n) \/ HealRecord(n) \/ EndRound(n)

\* A restart of the process also ends the thread's round.
RNext == \/ \E n \in Node : Reconcile(n)
         \/ Step /\ UNCHANGED rc
         \/ \E n \in Node : Restart(n) /\ rc' = [rc EXCEPT ![n] = Asleep]

RSpec == RInit /\ [][RNext]_rvars

RFairness == Fairness /\ \A n \in Node : WF_rvars(Reconcile(n))
RFairSpec == RSpec /\ RFairness
-----------------------------------------------------------------------------
(* Properties. *)

\* The error of the counters converges by itself: when nothing changes any
\* more, every counter is in the end, and stays, the number of credentials
\* that charge it, whatever was lost and however the rounds of the nodes, the
\* workers and the dialplan handlers were interleaved before.
CountersConverge == <>[]CountersMatchCredentials

\* A call that is gone is in the end, and for good, without a credential and without a
\* record in _call_store, even if its hangup was never handled or its process restarted.
GoneCallLeavesNothing ==
    \A u \in Uuid : [](chan[u] = "gone" => <>[](resv[u] = Absent /\ u \notin known))
-----------------------------------------------------------------------------
(* Said of the code and refuted by this model; the README tells how. *)

\* "active legs are not hurt": reconciliation never takes the credential of a
\* call whose channel lives.
LiveCallKeepsCredential == RoutedCallIsCharged
=============================================================================
