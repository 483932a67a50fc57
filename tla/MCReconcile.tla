----------------------------- MODULE MCReconcile -----------------------------
(* Instances of CallReconcile that behaviours are shared between: one node  *)
(* and everything that can be lost, two nodes whose rounds interleave.  A   *)
(* behaviour is one of an instance.                                         *)
EXTENDS Integers, Sequences

CONSTANTS n1, n2, u1, g1, a1, Global, NoGw, NoAp

VARIABLES scenario, cnt, resv, chan, legs, told, dp, evq, ew, known, redisUp, faults, rc

\* One slot on the gateway and one for the access point of the call.
OneNode == INSTANCE CallReconcile WITH
    Uuid <- {u1}, Gw <- {g1}, Ap <- {a1}, Node <- {n1},
    GLimit <- 2, GwLimit <- [g \in {g1} |-> 1], ApLimit <- [a \in {a1} |-> 1],
    Home <- [u \in {u1} |-> n1], ApOf <- [u \in {u1} |-> a1],
    FailOpen <- FALSE, QueueSize <- 3,
    FaultKinds <- {"loss", "expiry", "outage", "restart", "fscrash"}, MaxFaults <- 2

\* The call is the first node's, the second one only counts; the queue of one event
\* drops the others, so that credentials leak without any fault.
TwoNodes == INSTANCE CallReconcile WITH
    Uuid <- {u1}, Gw <- {g1}, Ap <- {}, Node <- {n1, n2},
    GLimit <- 2, GwLimit <- [g \in {g1} |-> 1], ApLimit <- [a \in {} |-> 1],
    Home <- [u \in {u1} |-> n1], ApOf <- [u \in {u1} |-> NoAp],
    FailOpen <- FALSE, QueueSize <- 1,
    FaultKinds <- {}, MaxFaults <- 0

reconcileVars == <<scenario, cnt, resv, chan, legs, told, dp, evq, ew, known, redisUp, faults, rc>>

Init == \/ scenario = "one" /\ OneNode!RInit
        \/ scenario = "two" /\ TwoNodes!RInit

Next == \/ scenario = "one" /\ OneNode!RNext /\ UNCHANGED scenario
        \/ scenario = "two" /\ TwoNodes!RNext /\ UNCHANGED scenario

Worker == \/ scenario = "one" /\ OneNode!Worker(n1)
          \/ scenario = "two" /\ TwoNodes!Worker(n1)

Dialplan == \/ scenario = "one" /\ OneNode!Dialplan(n1)
            \/ scenario = "two" /\ TwoNodes!Dialplan(n1)

Reconcile(n) == \/ scenario = "one" /\ n = n1 /\ OneNode!Reconcile(n)
                \/ scenario = "two" /\ TwoNodes!Reconcile(n)

RedisBack == scenario = "one" /\ OneNode!RedisBack

\* RFairness of the instance the behaviour is of; no call is the second node's,
\* so that its worker and its dialplan handler never have anything to do.
Fairness ==
    /\ WF_reconcileVars(RedisBack /\ UNCHANGED <<scenario, rc>>)
    /\ WF_reconcileVars(Worker /\ UNCHANGED <<scenario, rc>>)
    /\ WF_reconcileVars(Dialplan /\ UNCHANGED <<scenario, rc>>)
    /\ \A n \in {n1, n2} : WF_reconcileVars(Reconcile(n) /\ UNCHANGED scenario)

Spec == Init /\ [][Next]_reconcileVars /\ Fairness
-----------------------------------------------------------------------------
(* Properties. *)

\* The error of the counters converges by itself: when nothing changes any
\* more, every counter is in the end, and stays, the number of credentials
\* that charge it, whatever was lost and however the rounds of the nodes, the
\* workers and the dialplan handlers were interleaved before.
CountersConverge ==
    <>[](/\ scenario = "one" => OneNode!CountersMatchCredentials
         /\ scenario = "two" => TwoNodes!CountersMatchCredentials)

\* A call that is gone is in the end, and for good, without a credential and
\* without a record in _call_store, even if its hangup was never handled or its
\* process restarted; and the rounds are in a state there is.
GoneCallLeavesNothing ==
    /\ OneNode!GoneCallLeavesNothing
    /\ [](scenario = "one" => OneNode!RTypeOK)
    /\ [](scenario = "two" => TwoNodes!RTypeOK)
=============================================================================
