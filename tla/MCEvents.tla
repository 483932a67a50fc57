------------------------------ MODULE MCEvents ------------------------------
(* An instance of EslStream, the stream of events of one connection, and    *)
(* instances of ShadowCount, what is counted by them: with losses and       *)
(* restarts while the reconcile thread works, and undisturbed.  They share  *)
(* no state, so that a behaviour is one of an instance, and the other       *)
(* rests.                                                                   *)
EXTENDS ShadowCount, Connection

CONSTANTS c1, g1, g2

VARIABLE scenario               \* the instance

\* The call may fail over to a second gateway.
MCRoute == <<g1, g2>>

\* The same call while no event is lost and the reconcile thread sleeps.
Quiet == INSTANCE ShadowCount WITH Reconciles <- FALSE, MaxTrouble <- 0, MaxQueue <- 4

ASSUME Quiet!ShadowCountConstants

Counting == vars
streamVars == <<sent, subscribed, link, wire, mode, lines, idle, alive, queue, handled, hollow,
                taken, dropped, cut, torn, request, gap, stalls, resubs, breaks, losses>>
eventVars == <<scenario, streamVars, Counting>>

EventsInit ==
    /\ scenario \in {"stream", "lossy", "quiet"}
    /\ Stream!Init /\ Init

RestButStream == UNCHANGED <<scenario, Counting>>
RestButCount == UNCHANGED <<scenario, streamVars>>

EventsNext ==
    \/ scenario = "stream" /\ Stream!Next /\ RestButStream
    \/ scenario = "lossy" /\ Next /\ RestButCount
    \/ scenario = "quiet" /\ Quiet!Next /\ RestButCount

\* The fairness of each instance is that of its module.  The scenario never changes, so
\* that one conjunct serves a thread of each.
OneThread ==
    \/ scenario = "stream" /\ Stream!Read /\ RestButStream
    \/ scenario = "lossy" /\ Worker /\ RestButCount

AnotherThread ==
    \/ scenario = "stream" /\ Stream!Poll /\ RestButStream
    \/ scenario = "lossy" /\ Reconcile /\ RestButCount

EventsFairness ==
    /\ WF_eventVars(OneThread) /\ WF_eventVars(AnotherThread)
    /\ WF_eventVars(scenario = "stream" /\ Stream!FindClosed /\ RestButStream)
    /\ WF_eventVars(scenario = "stream" /\ Stream!Connect /\ RestButStream)
    /\ WF_eventVars(scenario = "stream" /\ Stream!Handle /\ RestButStream)
    /\ WF_eventVars(scenario = "stream" /\ request /\ Stream!Reconcile /\ RestButStream)

EventsSpec == EventsInit /\ [][EventsNext]_eventVars /\ EventsFairness
-----------------------------------------------------------------------------
(* Properties, beside those of ShadowCount and Connection. *)

\* Whatever events are lost, the global counter returns to zero after the calls end; and
\* unless events are lost or the reconcile thread interferes, a call counts once and is
\* booked once, by its A leg, however many B legs are dialled and whichever leg hangs up
\* first (PRD R-602).
CallCountsOnce ==
    /\ scenario = "lossy" => CountHeals
    /\ [](scenario = "quiet" => Quiet!OneCallOneRecord)
=============================================================================
