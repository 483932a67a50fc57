----------------------------- MODULE NumberRules -----------------------------
(***************************************************************************)
(* The rules of one owner (everybody, an access point or a gateway) for    *)
(* one direction: which numbers they admit, and what number goes on.  A    *)
(* number is a sequence of characters, a pattern may hold "*", any run of *)
(* characters, and "?", any one.  Rows are written by the CRUD API while   *)
(* calls are judged by the rows that are there.                            *)
(*                                                                         *)
(* A definition named X_Something is X with a plausible bug, kept to show  *)
(* which property finds it; no specification uses it.                      *)
(***************************************************************************)
EXTENDS Integers, SequencesExt

CONSTANTS
    Number,         \* numbers that calls may have
    Pattern,
    Replacement,    \* values of replace_to, without the empty one
    Null,           \* replace_to of a rule without one: the API stores "" as NULL
    Failed,         \* what a translation comes to that raises an exception
    MaxRules        \* bound: rows created in a run

\* Numbers and patterns are texts: the API takes any characters.
NumberRulesConstants ==
    /\ \A s \in Number \cup Pattern : s \in Seq(ToSet(s))
    /\ Null \notin Replacement /\ <<>> \notin Replacement /\ MaxRules \in Nat

VARIABLES
    rules,          \* the rows
    nextId

vars == <<rules, nextId>>

Allow == 1
Deny == 2
Translate == 3

Digit == {"0", "1", "2", "3", "4", "5", "6", "7", "8", "9"}
OctalDigit == Digit \ {"8", "9"}
-----------------------------------------------------------------------------
(* Patterns. *)

\* The ways to cut number n for pattern p: where in n each character of p ends.
Cuts(p, n) ==
    LET End(c, i) == IF i = 0 THEN 0 ELSE c[i]
    IN  {c \in [DOMAIN p -> 0..Len(n)] : \A i \in DOMAIN p :
            IF p[i] = "*" THEN c[i] >= End(c, i - 1)
            ELSE c[i] = End(c, i - 1) + 1 /\ p[i] \in {"?", n[c[i]]}}

EndOf(p, c) == IF p = <<>> THEN 0 ELSE c[Len(p)]

\* Limits compare a pattern with the whole number, translations with its head.
MatchesWhole == {pn \in Pattern \X Number : \E c \in Cuts(pn[1], pn[2]) : EndOf(pn[1], c) = Len(pn[2])}
MatchesHead == {pn \in Pattern \X Number : Cuts(pn[1], pn[2]) # {}}

\* Of several cuts the first "*" takes as much as it can, then the second.
Greedy(p, n) ==
    CHOOSE c \in Cuts(p, n) : \A d \in Cuts(p, n) \ {c} :
        \E i \in DOMAIN p : c[i] > d[i] /\ \A k \in 1..(i - 1) : c[k] = d[k]
-----------------------------------------------------------------------------
(* Limits. *)

Matching(act, n) == {r \in rules : r.act = act /\ <<r.pattern, n>> \in MatchesWhole}
Allows == {r \in rules : r.act = Allow}

\* Any row makes a list to be on.
X_Allowed(n) ==
    /\ Matching(Deny, n) = {}
    /\ rules # {} => Matching(Allow, n) # {}

\* A rule that denies decides; rules that allow are a list to be on.
Allowed(n) ==
    /\ Matching(Deny, n) = {}
    /\ Allows # {} => Matching(Allow, n) # {}

\* The rules that the refusal of a number may report.
FailedRules(n) == IF Matching(Deny, n) # {} THEN Matching(Deny, n) ELSE Allows
-----------------------------------------------------------------------------
(* Translation. *)

\* replace_to becomes a template of re.sub in which "\1" stands for each "*": with two
\* octal digits after it "\1dd" is one character, with one it is a group nobody has.
OctalAt(s, i) == i + 2 \in DOMAIN s /\ s[i] = "*" /\ {s[i + 1], s[i + 2]} \subseteq OctalDigit
BadGroupAt(s, i) == s[i] = "*" /\ i + 1 \in DOMAIN s /\ s[i + 1] \in Digit /\ ~OctalAt(s, i)

Expanded(s, group) ==
    FlattenSeq([i \in DOMAIN s |->
        IF OctalAt(s, i) THEN <<"octal">>
        ELSE IF (i > 1 /\ OctalAt(s, i - 1)) \/ (i > 2 /\ OctalAt(s, i - 2)) THEN <<>>
        ELSE IF s[i] = "*" THEN group ELSE <<s[i]>>])

Starred(s) == Contains(s, "*")

FirstGroup(p, n) ==
    LET c == Greedy(p, n)
        i == CHOOSE k \in DOMAIN p : p[k] = "*" /\ \A l \in 1..(k - 1) : p[l] # "*"
    IN  SubSeq(n, IF i = 1 THEN 1 ELSE c[i - 1] + 1, c[i])

\* A "*" is left as it is if the pattern has none.
Applied(r, n) ==
    LET rest == SubSeq(n, EndOf(r.pattern, Greedy(r.pattern, n)) + 1, Len(n))
        stars == r.replace # Null /\ Starred(r.replace) /\ Starred(r.pattern)
    IN  IF r.replace = Null \/ (stars /\ \E i \in DOMAIN r.replace : BadGroupAt(r.replace, i))
        THEN Failed
        ELSE (IF stars THEN Expanded(r.replace, FirstGroup(r.pattern, n)) ELSE r.replace) \o rest

Candidates(n) == {r \in rules : r.act = Translate /\ <<r.pattern, n>> \in MatchesHead}

\* The longest pattern applies, of several the oldest rule.
Best(n) ==
    CHOOSE r \in Candidates(n) : \A q \in Candidates(n) \ {r} :
        \/ Len(r.pattern) > Len(q.pattern)
        \/ Len(r.pattern) = Len(q.pattern) /\ r.id < q.id

Translated(n) == IF Candidates(n) = {} THEN n ELSE Applied(Best(n), n)
-----------------------------------------------------------------------------
(* The rows. *)

Init == rules = {} /\ nextId = 1

Row(id) == [id : {id}, act : {Allow, Deny, Translate}, pattern : Pattern, replace : Replacement \cup {Null}]

\* A limit has no replace_to.
WellFormed(r) == r.act # Translate => r.replace = Null

Create ==
    /\ nextId <= MaxRules
    /\ \E r \in Row(nextId) : WellFormed(r) /\ rules' = rules \cup {r}
    /\ nextId' = nextId + 1

Update ==
    /\ \E r \in rules : \E s \in Row(r.id) : WellFormed(s) /\ rules' = (rules \ {r}) \cup {s}
    /\ UNCHANGED nextId

Delete ==
    /\ \E r \in rules : rules' = rules \ {r}
    /\ UNCHANGED nextId

Next == Create \/ Update \/ Delete

Spec == Init /\ [][Next]_vars
-----------------------------------------------------------------------------
(* Properties. *)

Admitted == {n \in Number : Allowed(n)}

\* A new rule that denies admits nobody, a new rule that allows refuses nobody unless it
\* is the first of its kind, and a translation changes nothing about who is admitted.
RulesAreMonotone ==
    [][\A r \in rules' \ rules : rules' = rules \cup {r} =>
        /\ r.act = Deny => Admitted' \subseteq Admitted
        /\ r.act = Allow /\ Allows # {} => Admitted \subseteq Admitted'
        /\ r.act = Translate => Admitted' = Admitted]_vars

\* The rule that a refusal reports is a cause of it: without the rules it may report the
\* number is let through or another kind of rule refuses it.
RefusalHasCause ==
    \A n \in Number \ Admitted :
        /\ FailedRules(n) # {}
        /\ \A r \in FailedRules(n) :
            IF r.act = Deny THEN <<r.pattern, n>> \in MatchesWhole
            ELSE Matching(Deny, n) = {} /\ <<r.pattern, n>> \notin MatchesWhole

\* A rule without wildcards that is longer than every other changes the head of the
\* numbers that begin with it, whatever came before it, and keeps the rest.
LongestHeadIsReplaced ==
    \A r \in rules : \A n \in Number :
        /\ r.act = Translate /\ r.replace # Null /\ ToSet(r.pattern) \cap {"*", "?"} = {}
        /\ IsPrefix(r.pattern, n)
        /\ \A q \in rules \ {r} : q.act = Translate => Len(q.pattern) < Len(r.pattern)
        => Translated(n) = r.replace \o SubSeq(n, Len(r.pattern) + 1, Len(n))
-----------------------------------------------------------------------------
(* Said of the code and refuted by this model; the README tells how. *)

\* service.py: an empty replace_to removes the head that matched.
EmptyReplacementStrips ==
    \A n \in Number : Candidates(n) # {} /\ Best(n).replace = Null =>
        Translated(n) = SubSeq(n, EndOf(Best(n).pattern, Greedy(Best(n).pattern, n)) + 1, Len(n))

\* service.py: "*" in replace_to stands for what "*" of the pattern took.
StarKeepsWhatMatched ==
    \A n \in Number : Candidates(n) # {} /\ Best(n).replace # Null =>
        LET r == Best(n)
        IN  Len(SelectSeq(r.pattern, LAMBDA x : x = "*")) = 1 /\ Len(SelectSeq(r.replace, LAMBDA x : x = "*")) = 1
            => Translated(n) # Failed /\ Len(Translated(n)) >= Len(FirstGroup(r.pattern, n))
=============================================================================
