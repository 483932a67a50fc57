-------------------------- MODULE FailoverDialplan --------------------------
(***************************************************************************)
(* Failover inside FreeSWITCH.  The gateway answers the first request of a *)
(* call with one document that holds an extension for every leg; each leg  *)
(* transfers to the next, and each transfer asks the gateway for the       *)
(* document again, which it keeps in an LRU cache of its process.  What    *)
(* FreeSWITCH does with a document is external to the repository.          *)
(*                                                                         *)
(* A definition named X_Something is X with a plausible bug, kept to show  *)
(* which property finds it; no specification uses it.                      *)
(***************************************************************************)
EXTENDS Integers, FiniteSets, SequencesExt

CONSTANTS
    Call,
    Document,       \* what routing may answer: a sequence of legs, empty for a refusal
    Cause,          \* hangup causes of a leg that is not answered
    Capacity,       \* of _FAILOVER_CACHE (500 in the code)
    MaxRestarts,    \* restarts of the gateway process
    MaxTried        \* bound: legs of one call that are remembered, no fewer than a document has

\* failover_codes and failover_pre_ring_only of a gateway.
Leg == [codes : SUBSET STRING, pre_ring_only : BOOLEAN]

FailoverConstants ==
    /\ Capacity \in Nat \ {0} /\ MaxRestarts \in Nat /\ MaxTried \in Nat
    /\ \A d \in Document : d \in Seq(Leg) /\ Len(d) <= MaxTried
    /\ "WIN" \notin Cause

VARIABLES
    lru,            \* _FAILOVER_CACHE, least recently used first
    doc,            \* the document FreeSWITCH runs for each call
    phase,          \* "new", "ask", "dial", "talk" or "over"
    dest,           \* destination_number: 0 the number, k leg k, or one of the two ends
    rang,           \* gw_leg_progress
    detail,         \* gw_failover_detail
    count,          \* gw_failover_count
    answered,       \* answer_time is set
    tried,          \* history: the legs that were dialled
    gone,           \* history: calls whose document was gone when they asked for it
    others,         \* history: the calls that asked since this one did
    restarts

vars == <<lru, doc, phase, dest, rang, detail, count, answered, tried, gone, others, restarts>>

\* Destinations past the legs: gw_leg_done_keep and gw_leg_exhausted.
DoneKeep == -1
Exhausted == -2

Init ==
    /\ lru = <<>> /\ restarts = 0 /\ gone = {}
    /\ doc = [u \in Call |-> <<>>] /\ phase = [u \in Call |-> "new"]
    /\ dest = [u \in Call |-> 0] /\ rang = [u \in Call |-> FALSE]
    /\ detail = [u \in Call |-> <<>>] /\ count = [u \in Call |-> 0]
    /\ answered = [u \in Call |-> FALSE]
    /\ tried = [u \in Call |-> <<>>] /\ others = [u \in Call |-> {}]
-----------------------------------------------------------------------------
(* core/lru_cache.py *)

Cached(u) == \E i \in DOMAIN lru : lru[i].call = u

Place(u) == CHOOSE i \in DOMAIN lru : lru[i].call = u

Without(u) == IF Cached(u) THEN RemoveAt(lru, Place(u)) ELSE lru

\* The entry is read where it stands.
X_Get(u) == lru

\* get of a key that is there makes it the most recently used.
Get(u) == Append(Without(u), lru[Place(u)])

Put(u, d) ==
    LET new == Append(Without(u), [call |-> u, doc |-> d])
    IN  IF Len(new) > Capacity THEN Tail(new) ELSE new
-----------------------------------------------------------------------------
(* api/dialplan_xml.py *)

\* _SIP_TO_FAIL_CAUSE, with the codes whose cause always switches left to OTHER.
SipCause(code) ==
    CASE code \in {"486", "600"} -> "USER_BUSY"
      [] code = "603" -> "CALL_REJECTED"
      [] code = "487" -> "ORIGINATOR_CANCEL"
      [] code \in {"400", "488"} -> "INCOMPATIBLE_DESTINATION"
      [] code \in {"401", "403"} -> "UNAUTHORIZED"
      [] OTHER -> "NETWORK_OUT_OF_ORDER"

\* _ALWAYS_SWITCH_CAUSES: failures of the network or of the far end.
AlwaysSwitch == {"NETWORK_OUT_OF_ORDER", "NO_ANSWER"}

\* continue_on_fail of a leg.
SwitchOn(leg) ==
    {SipCause(c) : c \in IF leg.codes = {} THEN {"503", "500", "408", "486"} ELSE leg.codes}
        \cup AlwaysSwitch

\* A leg that may only be left before it rings is never left.
X_AfterFailure(u) ==
    LET k == dest[u]
    IN  IF k = Len(doc[u]) \/ doc[u][k].pre_ring_only THEN Exhausted ELSE k + 1

\* The leg that follows a failed one, or the end of the chain.
AfterFailure(u) ==
    LET k == dest[u]
    IN  IF k = Len(doc[u]) \/ (doc[u][k].pre_ring_only /\ rang[u]) THEN Exhausted ELSE k + 1

\* The extension of a document that takes a destination: a leg, an end that hangs
\* up, or gw_outbound_pre, which is last and takes whatever is left.
Extension(d, x) ==
    IF d = <<>> THEN "hangup"
    ELSE IF Len(d) = 1 THEN "leg"
    ELSE IF x \in DOMAIN d THEN "leg"
    ELSE IF x \in {DoneKeep, Exhausted} THEN "hangup" ELSE "pre"
-----------------------------------------------------------------------------
Remember(s, e) == IF Len(s) < MaxTried THEN Append(s, e) ELSE s

\* FreeSWITCH runs the extension of d that takes u's destination.  A single leg
\* has its entry written as won before it is dialled.
Run(u, d) ==
    LET ext == Extension(d, dest[u])
        k == IF Len(d) = 1 THEN 1 ELSE dest[u]
    IN  /\ doc' = [doc EXCEPT ![u] = d]
        /\ phase' = [phase EXCEPT ![u] = IF ext = "leg" THEN "dial"
                                         ELSE IF ext = "pre" THEN "ask" ELSE "over"]
        /\ dest' = [dest EXCEPT ![u] = IF ext = "leg" THEN k ELSE IF ext = "pre" THEN 1 ELSE @]
        /\ tried' = IF ext = "leg" THEN [tried EXCEPT ![u] = Remember(@, k)] ELSE tried
        /\ rang' = IF ext = "leg" THEN [rang EXCEPT ![u] = FALSE] ELSE rang
        /\ detail' = IF ext = "pre" THEN [detail EXCEPT ![u] = <<>>]
                     ELSE IF Len(d) = 1 THEN [detail EXCEPT ![u] = <<[leg |-> 1, cause |-> "WIN"]>>]
                     ELSE detail
        /\ count' = IF ext = "pre" \/ Len(d) = 1 THEN [count EXCEPT ![u] = 0] ELSE count

Asked(u) == others' = [v \in Call |-> IF v = u THEN {} ELSE others[v] \cup {u}]

\* The destination is a number, or the document of the call is gone: the call is
\* routed, and a document with several legs is kept.
RouteNew(u) ==
    /\ phase[u] \in {"new", "ask"}
    /\ phase[u] = "new" \/ ~Cached(u)
    /\ gone' = IF phase[u] = "ask" THEN gone \cup {u} ELSE gone
    /\ \E d \in Document :
        /\ lru' = IF Len(d) >= 2 THEN Put(u, d) ELSE lru
        /\ Run(u, d)
    /\ Asked(u)
    /\ UNCHANGED <<answered, restarts>>

\* A transfer asks again and the document is found.
ReEnter(u) ==
    /\ phase[u] = "ask" /\ Cached(u)
    /\ \E i \in DOMAIN lru : lru[i].call = u /\ Run(u, lru[i].doc)
    /\ lru' = Get(u)
    /\ Asked(u)
    /\ UNCHANGED <<answered, gone, restarts>>

\* The gateway rings: its B leg sets gw_leg_progress if the leg asked for that.
Ring(u) ==
    /\ phase[u] = "dial" /\ ~rang[u]
    /\ rang' = [rang EXCEPT ![u] = TRUE]
    /\ UNCHANGED <<lru, doc, phase, dest, detail, count, answered, tried, gone, others, restarts>>

\* What follows the bridge of a leg: its entry, the count, the transfer.
AfterBridge(u, cause) ==
    /\ detail' = [detail EXCEPT ![u] = Remember(@, [leg |-> dest[u], cause |-> cause])]
    /\ count' = IF cause = "WIN" \/ count[u] = MaxTried THEN count
                ELSE [count EXCEPT ![u] = @ + 1]
    /\ dest' = [dest EXCEPT ![u] = IF cause = "WIN" THEN DoneKeep ELSE AfterFailure(u)]
    /\ phase' = [phase EXCEPT ![u] = "ask"]

\* A leg fails.  A cause that is not in continue_on_fail, and any failure of a
\* single leg, hangs the call up where it is.
LegFails(u) ==
    /\ phase[u] = "dial"
    /\ \E cause \in Cause :
        IF Len(doc[u]) > 1 /\ cause \in SwitchOn(doc[u][dest[u]])
        THEN AfterBridge(u, cause)
        ELSE phase' = [phase EXCEPT ![u] = "over"] /\ UNCHANGED <<detail, count, dest>>
    /\ UNCHANGED <<lru, doc, rang, answered, tried, gone, others, restarts>>

Answer(u) ==
    /\ phase[u] = "dial"
    /\ phase' = [phase EXCEPT ![u] = "talk"] /\ answered' = [answered EXCEPT ![u] = TRUE]
    /\ UNCHANGED <<lru, doc, dest, rang, detail, count, tried, gone, others, restarts>>

\* The called side hangs up: with hangup_after_bridge=false the chain goes on.
CalleeHangsUp(u) ==
    /\ phase[u] = "talk"
    /\ IF Len(doc[u]) > 1 THEN AfterBridge(u, "WIN")
       ELSE phase' = [phase EXCEPT ![u] = "over"] /\ UNCHANGED <<detail, count, dest>>
    /\ UNCHANGED <<lru, doc, rang, answered, tried, gone, others, restarts>>

\* The caller hangs up: nothing more is run for the call.
CallerHangsUp(u) ==
    /\ phase[u] \in {"dial", "talk"}
    /\ phase' = [phase EXCEPT ![u] = "over"]
    /\ UNCHANGED <<lru, doc, dest, rang, detail, count, answered, tried, gone, others, restarts>>

\* The gateway process restarts with an empty cache.
Restart ==
    /\ restarts < MaxRestarts /\ restarts' = restarts + 1
    /\ lru' = <<>>
    /\ UNCHANGED <<doc, phase, dest, rang, detail, count, answered, tried, gone, others>>

Ask(u) == RouteNew(u) \/ ReEnter(u)
Dialled(u) == LegFails(u) \/ Answer(u)
Talked(u) == CalleeHangsUp(u)

Next ==
    \/ \E u \in Call : Ask(u) \/ Ring(u) \/ Dialled(u) \/ Talked(u) \/ CallerHangsUp(u)
    \/ Restart

Spec == Init /\ [][Next]_vars
-----------------------------------------------------------------------------
(* esl_client._save_cdr *)

HasWin(d) == \E i \in DOMAIN d : d[i].cause = "WIN"

\* switch_detail of the record: the entry of the winner is added when the caller
\* hung up first and the channel could not.
SwitchDetail(u) ==
    IF answered[u] /\ ~HasWin(detail[u])
    THEN Append(detail[u], [leg |-> Last(tried[u]), cause |-> "WIN"])
    ELSE detail[u]

\* switch_count of the record: the entries but one.
SwitchCount(u) == IF SwitchDetail(u) = <<>> THEN 0 ELSE Len(SwitchDetail(u)) - 1
-----------------------------------------------------------------------------
(* Properties. *)

Up(u) == phase[u] \notin {"new", "over"}

TypeOK ==
    /\ Len(lru) <= Capacity
    /\ \A i, j \in DOMAIN lru : lru[i].call = lru[j].call => i = j
    /\ \A i \in DOMAIN lru : lru[i].call \in Call /\ lru[i].doc \in Document
    /\ phase \in [Call -> {"new", "ask", "dial", "talk", "over"}]
    /\ doc \in [Call -> Document \cup {<<>>}] /\ dest \in [Call -> Int]
    /\ rang \in [Call -> BOOLEAN] /\ answered \in [Call -> BOOLEAN]
    /\ gone \subseteq Call /\ restarts \in 0..MaxRestarts
    /\ count \in [Call -> Nat] /\ others \in [Call -> SUBSET Call]

\* Unless its document was gone, a call dials the legs of its first document in
\* their order, none of them twice and nothing after one was answered.
LegsInOrder ==
    \A u \in Call \ gone : tried[u] = [i \in 1..Len(tried[u]) |-> i] /\ Len(tried[u]) <= Len(doc[u])

\* switch_detail in the record of a call with several legs tells the legs that were
\* dialled, but for a last one that failed without a successor, and says WIN of the
\* leg that was answered and of no other.
RecordTellsLegs ==
    \A u \in Call \ gone : phase[u] = "over" /\ Len(doc[u]) > 1 =>
        LET told == SwitchDetail(u)
        IN  /\ Len(told) = Len(tried[u]) \/ (~answered[u] /\ Len(told) = Len(tried[u]) - 1)
            /\ \A i \in DOMAIN told :
                /\ told[i].leg = tried[u][i]
                /\ (told[i].cause = "WIN") <=> (answered[u] /\ i = Len(told))

\* cdr_switch_count, which the channel counts, is the number of the failures told.
FailuresCounted ==
    \A u \in Call \ gone : Len(doc[u]) > 1 =>
        count[u] = Cardinality({i \in DOMAIN detail[u] : detail[u][i].cause # "WIN"})

\* A call is given up at gw_leg_exhausted only when every leg was dialled, or when a
\* leg that may only be left before it rings has rung.
GivenUpLate ==
    \A u \in Call \ gone : dest[u] = Exhausted =>
        \/ Len(tried[u]) = Len(doc[u])
        \/ doc[u][Len(tried[u])].pre_ring_only /\ rang[u]

\* While the process runs, a call in progress only loses its document after as many
\* other calls asked for theirs as the cache holds.
LostOnlyIfBusy ==
    restarts = 0 => \A u \in Call :
        Up(u) /\ Len(doc[u]) > 1 /\ ~Cached(u) => Cardinality(others[u]) >= Capacity
-----------------------------------------------------------------------------
(* Said of the code and refuted by this model; the README tells how. *)

\* core/lru_cache.py: what is in progress stays in the cache.
InFlightKeepsDocument ==
    restarts = 0 => \A u \in Call : Up(u) /\ Len(doc[u]) > 1 => Cached(u)

\* esl_client.py: WIN says that the leg was answered and won.
WinIsAnswered ==
    \A u \in Call : phase[u] = "over" /\ HasWin(SwitchDetail(u)) => answered[u]

\* esl_client.py: the entries are all the legs that were tried, the switches one less.
SwitchesCounted ==
    \A u \in Call \ gone : phase[u] = "over" /\ tried[u] # <<>> => SwitchCount(u) = Len(tried[u]) - 1
=============================================================================
