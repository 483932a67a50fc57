------------------------------- MODULE Dialplan -------------------------------
(***************************************************************************)
(* What the answer to a dialplan request is made from, and what becomes of *)
(* it: RouteSelect, NumberRules, and failover inside FreeSWITCH twice, the *)
(* legs of a call and the cache of documents that the calls share.  They   *)
(* share no state, so that a behaviour is one of one of them, and the      *)
(* others rest.                                                            *)
(***************************************************************************)
EXTENDS RouteSelect

CONSTANTS
    Call, Document, Cause, Capacity, MaxRestarts, MaxTried,             \* of the instance "legs"
    Sharer, SharedDocument, SharedCause, SharedCapacity, SharedTried,   \* of the instance "cache"
    Number, Pattern, Replacement, Null, Failed, MaxRules                \* of the instance "numbers"

VARIABLES
    scenario,                   \* the instance
    lru, doc, phase, dest, rang, detail, count, answered, tried, gone, others, restarts,
    rules, nextId

Legs == INSTANCE FailoverDialplan

\* The process does not start anew.
Cache == INSTANCE FailoverDialplan WITH
    Call <- Sharer, Document <- SharedDocument, Cause <- SharedCause, Capacity <- SharedCapacity,
    MaxRestarts <- 0, MaxTried <- SharedTried

Numbers == INSTANCE NumberRules

ASSUME LegsAssumption == Legs!FailoverConstants
ASSUME CacheAssumption == Cache!FailoverConstants
ASSUME RulesAssumption == Numbers!NumberRulesConstants

routeVars == vars
failoverVars == <<lru, doc, phase, dest, rang, detail, count, answered, tried, gone, others, restarts>>
ruleVars == <<rules, nextId>>

RouteRests ==
    /\ setup = 0 /\ routes = 0 /\ mine = 0 /\ up = 0 /\ policy = 0 /\ listed = 0 /\ named = 0
    /\ globalRefuses = 0 /\ apRefuses = 0 /\ gwRefuses = 0 /\ payer = 0 /\ poor = 0 /\ blind = 0
    /\ full = 0 /\ answer = 0

FailoverRests ==
    /\ lru = 0 /\ doc = 0 /\ phase = 0 /\ dest = 0 /\ rang = 0 /\ detail = 0 /\ count = 0
    /\ answered = 0 /\ tried = 0 /\ gone = 0 /\ others = 0 /\ restarts = 0

RulesRest == Numbers!Init

DialplanInit ==
    \/ scenario = "legs" /\ Legs!Init /\ RouteRests /\ RulesRest
    \/ scenario = "cache" /\ Cache!Init /\ RouteRests /\ RulesRest
    \/ scenario = "routes" /\ FailoverRests /\ Init /\ RulesRest
    \/ scenario = "numbers" /\ FailoverRests /\ RouteRests /\ Numbers!Init

DialplanNext ==
    \/ scenario = "legs" /\ Legs!Next /\ UNCHANGED <<scenario, routeVars, ruleVars>>
    \/ scenario = "cache" /\ Cache!Next /\ UNCHANGED <<scenario, routeVars, ruleVars>>
    \/ scenario = "routes" /\ Next /\ UNCHANGED <<scenario, failoverVars, ruleVars>>
    \/ scenario = "numbers" /\ Numbers!Next /\ UNCHANGED <<scenario, failoverVars, routeVars>>

DialplanSpec == DialplanInit /\ [][DialplanNext]_<<scenario, failoverVars, routeVars, ruleVars>>
-----------------------------------------------------------------------------
(* Properties, beside those of RouteSelect. *)

\* Unless its document was gone, a call dials the legs of its first document in their
\* order, none twice and nothing after one was answered, and is given up only when every
\* leg was dialled or one that may only be left before it rings has rung; its record
\* tells the legs that were dialled and says WIN of the one that was answered.
LegsAreTold ==
    scenario = "legs" => /\ Legs!TypeOK /\ Legs!LegsInOrder /\ Legs!GivenUpLate
                         /\ Legs!RecordTellsLegs /\ Legs!FailuresCounted

\* While the process runs, a call in progress only loses its document after as many
\* other calls asked for theirs as the cache holds.
LostOnlyIfBusy == scenario = "cache" => Cache!LostOnlyIfBusy

\* The gateway that rings first may carry the call, and any better one had its reservation
\* refused; the others that may carry it are the legs that follow.
BestLegIsFirst == scenario = "routes" => FirstLegIsBest /\ EveryCarrierIsALeg

\* A call is refused by gateway rules, for want of a route or as busy at the gateways only
\* if that is so of every gateway it could have had, by the limits of others only if a
\* gateway could carry it, and over a trunk by an access point's rules only if none of its
\* address lets it pass; elsewhere an account without balance is not routed.
RefusedOnlyIfAllRefuse ==
    scenario = "routes" =>
        RefusedOnlyByAll /\ TrunkAccessHolds /\ (setup.context # "trunk" => PoorIsRefused)

\* A new rule that denies admits nobody, and one that allows refuses nobody unless it is the
\* first of its kind (matcher.py); the rule that a refusal reports is a cause of it, and a
\* rule without wildcards that is longer than every other changes the head of the numbers
\* that begin with it.
RulesAreMonotone ==
    /\ Numbers!RulesAreMonotone
    /\ [](scenario = "numbers" => Numbers!RefusalHasCause /\ Numbers!LongestHeadIsReplaced)
=============================================================================
