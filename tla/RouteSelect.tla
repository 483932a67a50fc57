----------------------------- MODULE RouteSelect -----------------------------
(***************************************************************************)
(* What /fs/dialplan answers to one call to a callee that is no extension: *)
(* whether its account may call and the rules let it, which access point   *)
(* it belongs to, and in what order which gateways are to carry it.  The   *)
(* tables, the snapshot of the limits and what the rules say of the call   *)
(* are any that can be; a limit that is set may be reached, in the         *)
(* snapshot or at any reservation, and Redis may be lost at either.        *)
(* Gateways and access points are ids: the lower number comes first.       *)
(* NumberRules says what rules do, CallAdmission what reservations do.     *)
(*                                                                         *)
(* A definition named X_Something is X with a plausible bug, kept to show  *)
(* which property finds it; no specification uses it.                      *)
(***************************************************************************)
EXTENDS Integers, FiniteSets, SequencesExt

CONSTANTS
    Setup,          \* what gateways and access points there may be, and where a call comes from
    NoAp

ASSUME SetupTypes ==
    \A s \in Setup :
        /\ s.gateways \subseteq Nat /\ s.aps \subseteq Nat /\ NoAp \notin s.aps
        /\ s.registered \subseteq s.gateways /\ s.ipMode \subseteq s.aps
        /\ s.routes \subseteq [gw : s.gateways, len : Nat, prio : Int] /\ IsFiniteSet(s.routes)
        /\ s.limited \subseteq s.gateways /\ s.limitedAps \subseteq s.aps
        /\ s.globalLimit \in BOOLEAN /\ s.failClose \in BOOLEAN
        /\ s.context \in {"phone", "default", "trunk"} /\ s.prepaid \in BOOLEAN

VARIABLES
    setup,
    routes,         \* rows that are enabled
    mine,           \* gateways of gateway_node for this node
    up,             \* gateways that are enabled and answer heartbeats or need not
    policy,         \* access_gateway_policy: "none", "allow" or "deny"
    listed, named,  \* access points that list the address, or have the caller's name
    globalRefuses,          \* the rules of no owner refuse the call
    apRefuses, gwRefuses,   \* access points and gateways whose rules refuse the call
    payer,          \* account of the caller's phone: "rich", "poor" or, if none is found, "none"
    poor,           \* access points whose account has no balance left
    blind,          \* the balance cannot be read
    full,           \* gateways at their limit in the snapshot
    answer

tables == <<setup, routes, mine, up, policy, listed, named, globalRefuses, apRefuses, gwRefuses,
            payer, poor, blind, full>>
vars == <<tables, answer>>

Gateway == setup.gateways
Ap == setup.aps
Registered == setup.registered      \* gateways of auth_type 1
IpMode == setup.ipMode              \* access points of auth_mode 0
Prepaid == setup.prepaid            \* prepaid_enabled
Limited == setup.limited            \* gateways with a concurrent_limit
LimitedAps == setup.limitedAps      \* access points with one
GlobalLimit == setup.globalLimit    \* concurrent_limit_global is set
FailClose == setup.failClose        \* fail_open is off

\* setup.routes are the rows of prefix_route whose prefix the callee begins with.
Init ==
    /\ setup \in Setup
    /\ routes \in SUBSET setup.routes /\ mine \in SUBSET Registered /\ up \in SUBSET Gateway
    /\ policy \in [Ap -> [Gateway -> {"none", "allow", "deny"}]]
    /\ listed \in SUBSET Ap /\ named \in {s \in SUBSET Ap : Cardinality(s) <= 1}
    /\ globalRefuses \in BOOLEAN /\ apRefuses \in SUBSET Ap /\ gwRefuses \in SUBSET Gateway
    /\ payer \in (IF Prepaid /\ setup.context # "default" THEN {"none", "rich", "poor"} ELSE {"none"})
    /\ poor \in (IF Prepaid THEN SUBSET Ap ELSE {{}})
    /\ blind \in (IF Prepaid THEN BOOLEAN ELSE {FALSE}) /\ full \in SUBSET Limited
    /\ answer = [kind |-> "none", ap |-> NoAp, legs |-> <<>>, refused |-> {}]
-----------------------------------------------------------------------------
(* Candidates. *)

\* One "allow" makes a list to be on.
PolicyAllows(a, g) ==
    /\ policy[a][g] # "deny"
    /\ (\E h \in Gateway : policy[a][h] = "allow") => policy[a][g] = "allow"

\* Rows whose gateway can take a call of access point a.
Eligible(a) ==
    {r \in routes :
        /\ r.gw \in up /\ r.gw \notin Registered \ mine
        /\ a # NoAp => PolicyAllows(a, r.gw)}

\* The longest prefix, then the highest priority, then the oldest gateway.
Before(r, s) ==
    \/ r.len > s.len
    \/ r.len = s.len /\ r.prio > s.prio
    \/ r.len = s.len /\ r.prio = s.prio /\ r.gw < s.gw

\* Full gateways stay where they are.
X_InTurn(r, s) == Before(r, s)

\* Gateways that the snapshot shows full go behind the others.
InTurn(r, s) ==
    \/ r.gw \notin full /\ s.gw \in full
    \/ (r.gw \in full <=> s.gw \in full) /\ Before(r, s)

\* Gateways whose rules refuse the call are left out.
Kept(a) == {r \in Eligible(a) : r.gw \notin gwRefuses}

\* The gateways of rows in their turn; a gateway with two rows is there twice.
Ordered(rows) ==
    LET Turn(r) == Cardinality({s \in rows : InTurn(s, r)}) + 1
    IN  [i \in 1..Cardinality(rows) |-> (CHOOSE r \in rows : Turn(r) = i).gw]

\* The gateway that took the reservation becomes the first leg, once.
WithFirst(rows, g) ==
    IF g = Ordered(rows)[1] THEN Ordered(rows)
    ELSE <<g>> \o Ordered({r \in rows : r.gw # g})

-----------------------------------------------------------------------------
(* The answer. *)

Reply(kind, a, legs, refused) ==
    answer' = [kind |-> kind, ap |-> a, legs |-> legs, refused |-> refused] /\ UNCHANGED tables

\* Only the first candidate is asked whether its rules refuse.
X_RouteVia(a) ==
    LET First(r) == \A s \in Eligible(a) \ {r} : Before(r, s)
    IN  \/ Eligible(a) = {} /\ Reply("no_route", a, <<>>, {})
        \/ \E r \in Eligible(a) : First(r) /\ r.gw \in gwRefuses /\ Reply("gw_rules", a, <<>>, {})
        \/ Kept(a) # {} /\ Reply("busy_gw", a, <<>>, {r.gw : r \in Kept(a)})

\* _conc_reserve_candidates: once the snapshot passes, candidates are tried in order
\* until Redis takes one; a gateway at its limit only leaves the call to the next one.
Reserve(a, todo) ==
    \/ /\ ToSet(todo) \subseteq Limited
       /\ Reply("busy_gw", a, <<>>, ToSet(todo))
    \/ \E i \in DOMAIN todo :
          LET before == {todo[k] : k \in 1..(i - 1)}
          IN  /\ before \subseteq Limited
              /\ \/ Reply("legs", a, WithFirst(Kept(a), todo[i]), before)
                 \/ FailClose /\ Reply("busy_redis", a, <<>>, before)
                 \/ GlobalLimit /\ Reply("busy_global", a, <<>>, before)
                 \/ a \in LimitedAps /\ Reply("busy_ap", a, <<>>, before)

\* The snapshot is not to be had, or shows the global limit or the access point's reached.
Precheck(a) ==
    \/ FailClose /\ Reply("busy_redis", a, <<>>, {})
    \/ GlobalLimit /\ Reply("busy_global", a, <<>>, {})
    \/ a \in LimitedAps /\ Reply("busy_ap", a, <<>>, {})

\* _route_via_ap and, for a phone, _phone_branch.
RouteVia(a) ==
    \/ Eligible(a) = {} /\ Reply("no_route", a, <<>>, {})
    \/ Eligible(a) # {} /\ Kept(a) = {} /\ Reply("gw_rules", a, <<>>, {})
    \/ Kept(a) # {} /\ (Precheck(a) \/ Reserve(a, Ordered(Kept(a))))

\* resolve_access_point: the row by the caller's name, else any that lists the address.
Owners == IF named # {} THEN named ELSE IF listed # {} THEN listed ELSE {NoAp}

\* The account of the caller's phone pays, else that of the access point a; a balance
\* that cannot be read is taken to do.
Refused(a) ==
    /\ Prepaid /\ ~blind
    /\ IF payer # "none" THEN payer = "poor" ELSE a \in poor

NoBalance(a) == Refused(a) /\ Reply("no_balance", IF payer = "none" THEN a ELSE NoAp, <<>>, {})

PhoneCall == setup.context = "phone" /\ RouteVia(NoAp)

DefaultCall(a) ==
    /\ setup.context = "default"
    /\ \/ a = NoAp /\ Reply("no_ap", NoAp, <<>>, {})
       \/ a \in apRefuses /\ Reply("ap_rules", a, <<>>, {})
       \/ a \in Ap \ apRefuses /\ RouteVia(a)

\* The first access point of the address whose rules let the call pass.
TrunkAp(a) == a \in (listed \cap IpMode) \ apRefuses /\ \A b \in (listed \cap IpMode) \ apRefuses : b >= a

TrunkCall ==
    /\ setup.context = "trunk"
    /\ \/ listed \cap IpMode = {} /\ Reply("no_ap", NoAp, <<>>, {})
       \/ listed \cap IpMode # {} /\ listed \cap IpMode \subseteq apRefuses /\ Reply("ap_rules", NoAp, <<>>, {})
       \/ \E a \in Ap : TrunkAp(a) /\ RouteVia(a)

\* fs_dialplan: the balance, then the rules of no owner, then the branch.
Request ==
    \E a \in Owners :
        \/ NoBalance(a)
        \/ ~Refused(a) /\ globalRefuses /\ Reply("rules", NoAp, <<>>, {})
        \/ ~Refused(a) /\ ~globalRefuses /\ (PhoneCall \/ DefaultCall(a) \/ TrunkCall)

\* The document has been sent.
Served == answer.kind # "none" /\ UNCHANGED vars

Next == (answer.kind = "none" /\ Request) \/ Served

Spec == Init /\ [][Next]_vars
-----------------------------------------------------------------------------
(* Properties. *)

\* A gateway may carry a call of access point a.
CanCarry(a, g) == g \notin gwRefuses /\ \E r \in Eligible(a) : r.gw = g

\* How far in front a gateway stands: not full, then by the best of its rows.
Ahead(a, g, h) ==
    \/ g \notin full /\ h \in full
    \/ (g \in full <=> h \in full) /\ \E r \in Eligible(a) :
            r.gw = g /\ \A s \in Eligible(a) : s.gw = h => Before(r, s)

\* The gateway that rings first may carry the call, and any better one had its
\* reservation refused.
FirstLegIsBest ==
    answer.kind = "legs" =>
        LET g == Head(answer.legs)
        IN  /\ CanCarry(answer.ap, g)
            /\ \A h \in Gateway : CanCarry(answer.ap, h) /\ Ahead(answer.ap, h, g) => h \in answer.refused

\* Every gateway that may carry the call is a leg, and the one that holds the
\* reservation, if it had to be moved to the front, is none of the later ones.
EveryCarrierIsALeg ==
    answer.kind = "legs" =>
        /\ ToSet(answer.legs) = {g \in Gateway : CanCarry(answer.ap, g)}
        /\ answer.refused # {} /\ answer.legs[1] \notin answer.refused => \A i \in DOMAIN answer.legs : answer.legs[i] = answer.legs[1] => i = 1

\* A call is refused by gateway rules, for want of a route or as busy at the gateways
\* only if that is so of every gateway it could have had, and no gateway without a limit is
\* passed over; for the global limit, the access point's or want of Redis it is refused
\* only if a gateway could carry it.
RefusedOnlyByAll ==
    /\ answer.kind = "no_route" => \A g \in up \ (Registered \ mine) :
        (\E r \in routes : r.gw = g) => answer.ap # NoAp /\ ~PolicyAllows(answer.ap, g)
    /\ answer.kind = "gw_rules" => Eligible(answer.ap) # {} /\ \A r \in Eligible(answer.ap) : r.gw \in gwRefuses
    /\ answer.kind = "busy_gw" => answer.refused = {g \in Gateway : CanCarry(answer.ap, g)}
    /\ answer.kind \in {"busy_redis", "busy_global", "busy_ap"} => \E g \in Gateway : CanCarry(answer.ap, g)
    /\ answer.refused \subseteq Limited

\* A call over a trunk belongs to an access point of its address that lets it pass, and
\* is refused by access points only if none does.
TrunkAccessHolds ==
    setup.context = "trunk" =>
        /\ answer.kind \in {"legs", "busy_gw", "busy_redis", "busy_global", "busy_ap", "gw_rules", "no_route"} =>
                answer.ap \in (listed \cap IpMode) \ apRefuses
        /\ answer.kind = "ap_rules" => listed \cap IpMode \subseteq apRefuses

\* app.py: a call whose account has no balance is refused before it is routed, the account
\* of its phone or else of the access point that routes it.
PoorIsRefused ==
    Prepaid /\ ~blind /\ answer.kind = "legs" =>
        payer # "poor" /\ (payer = "none" => answer.ap \notin poor)
=============================================================================
