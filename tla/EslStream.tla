------------------------------ MODULE EslStream ------------------------------
(***************************************************************************)
(* The ESL connection: frames of FreeSWITCH on one socket, the reader that *)
(* parses them and subscribes again from time to time, the bounded queue   *)
(* and the worker behind it, broken connections and lost subscriptions.    *)
(*                                                                         *)
(* A frame is the header lines "len" and "type", a blank line and a body,  *)
(* the fields of an event, its name first, and a blank line that ends      *)
(* them; a reply is the line "reply" and a blank line.  The network may    *)
(* stop between any two of these pieces, and then "name" stands for all    *)
(* the fields that were read, of which the name is one.                    *)
(*                                                                         *)
(* A definition named X_Something is X with a plausible bug, kept to show  *)
(* which property finds it; no specification uses it.                      *)
(***************************************************************************)
EXTENDS Integers, Sequences, FiniteSets

CONSTANTS
    MaxEvents,      \* events FreeSWITCH sends
    QueueSize,      \* of _EVT_Q (10000 in the code)
    MaxStalls,      \* times the network stops in the middle of a frame
    MaxResubs, MaxBreaks, MaxLosses,
    Watchdog        \* empty polls before the watchdog reconnects

EslConstants ==
    /\ MaxEvents \in Nat /\ QueueSize \in Nat \ {0} /\ Watchdog \in Nat \ {0}
    /\ MaxStalls \in Nat /\ MaxResubs \in Nat /\ MaxBreaks \in Nat /\ MaxLosses \in Nat

VARIABLES
    sent,           \* events FreeSWITCH has sent on a subscription
    subscribed,     \* what FreeSWITCH thinks
    link,           \* "up", "closed" by the other side, or "down"
    wire,           \* pieces that were not read yet
    mode,           \* what the reader is in: "header" or "body" of an event, or "reply",
                    \* or "drain", the body of what it took for a reply
    lines,          \* lines of the frame it read so far
    idle,           \* polls without an event since last_event
    alive,          \* _connected
    queue,          \* _EVT_Q
    handled,        \* events the worker took, in order
    hollow,         \* events without a name that were queued
    taken, dropped, cut, torn,  \* history: events read as a reply, refused by a full queue,
                                \* lost with a connection, left without their name
    request,        \* _RECONCILE_REQ
    gap,            \* events may have been lost and no reconcile pass began since
    stalls, resubs, breaks, losses

reader == <<mode, lines, idle, alive>>
history == <<taken, dropped, cut, torn>>
bounds == <<stalls, resubs, breaks, losses>>
vars == <<sent, subscribed, link, wire, mode, lines, idle, alive, queue, handled, hollow,
          taken, dropped, cut, torn, request, gap, stalls, resubs, breaks, losses>>

Piece(what, e) == [what |-> what, e |-> e]
Frame(e) ==
    <<Piece("len", e), Piece("type", e), Piece("blank", e), Piece("name", e), Piece("end", e)>>
ReplyFrame == <<Piece("reply", 0), Piece("blank", 0)>>

Init ==
    /\ sent = 0 /\ subscribed = TRUE /\ link = "up" /\ wire = <<>>
    /\ mode = "header" /\ lines = {} /\ idle = 0 /\ alive = TRUE
    /\ queue = <<>> /\ handled = <<>> /\ hollow = 0
    /\ taken = {} /\ dropped = {} /\ cut = {} /\ torn = {} /\ request = TRUE /\ gap = FALSE
    /\ stalls = 0 /\ resubs = 0 /\ breaks = 0 /\ losses = 0
-----------------------------------------------------------------------------
(* FreeSWITCH and the network. *)

Send ==
    /\ link = "up" /\ subscribed /\ sent < MaxEvents
    /\ sent' = sent + 1 /\ wire' = wire \o Frame(sent + 1)
    /\ UNCHANGED <<subscribed, link, queue, handled, hollow, request, gap, reader, history, bounds>>

\* The events whose end is still to come.
Events(pieces) == {pieces[i].e : i \in {j \in DOMAIN pieces : pieces[j].what = "end"}}

\* The connection breaks, and what was on its way is lost.
Break ==
    /\ link = "up" /\ breaks < MaxBreaks /\ breaks' = breaks + 1
    /\ link' = "closed" /\ wire' = <<>> /\ subscribed' = FALSE /\ gap' = TRUE
    /\ cut' = cut \cup Events(wire)
    /\ UNCHANGED <<sent, queue, handled, hollow, request, reader, taken, dropped, torn, stalls, resubs, losses>>

\* FreeSWITCH forgets the subscription of a connection that stays up.
LoseSubscription ==
    /\ link = "up" /\ subscribed /\ losses < MaxLosses /\ losses' = losses + 1
    /\ subscribed' = FALSE
    /\ UNCHANGED <<sent, link, wire, queue, handled, hollow, request, gap, reader, history, stalls, resubs, breaks>>
-----------------------------------------------------------------------------
(* The reader. *)

\* _enqueue_event
Enqueue(e) ==
    IF Len(queue) < QueueSize
    THEN /\ queue' = Append(queue, e)
         /\ hollow' = IF e = 0 THEN hollow + 1 ELSE hollow
         /\ UNCHANGED dropped
    ELSE dropped' = dropped \cup ({e} \ {0}) /\ UNCHANGED <<queue, hollow>>

\* The frame is read and its event queued; now and then the subscription is sent
\* again, and what comes next on the wire is taken for the reply.
Deliver(e) ==
    /\ Enqueue(e)
    /\ lines' = {} /\ idle' = 0
    /\ \/ mode' = "header" /\ UNCHANGED <<subscribed, resubs>> /\ wire' = Tail(wire)
       \/ /\ resubs < MaxResubs /\ resubs' = resubs + 1
          /\ mode' = "reply" /\ subscribed' = TRUE /\ wire' = Tail(wire) \o ReplyFrame

ReadLine ==
    /\ link = "up" /\ wire # <<>> /\ Head(wire).what \in {"len", "type", "reply", "name"}
    /\ lines' = lines \cup {Head(wire).what} /\ wire' = Tail(wire)
    /\ UNCHANGED <<sent, subscribed, link, mode, idle, alive, queue, handled, hollow, request, gap,
                   history, bounds>>

\* A blank line ends the header; without a length there is no body.
ReadBlank ==
    /\ link = "up" /\ wire # <<>> /\ mode = "header" /\ Head(wire).what = "blank"
    /\ IF "len" \in lines
       THEN mode' = "body" /\ wire' = Tail(wire) /\ UNCHANGED <<lines, idle, queue, hollow, dropped, subscribed, resubs>>
       ELSE Deliver(0)
    /\ UNCHANGED <<sent, link, alive, handled, taken, cut, torn, request, gap, stalls, breaks, losses>>

\* A body that is read by its length is whole; one whose header lines were lost is read
\* as a header, and is the event all the same unless its name was lost as well.
Named == mode = "body" \/ "name" \in lines

\* Without its header lines the body does not parse as an event.
X_ReadBody ==
    /\ link = "up" /\ wire # <<>> /\ mode \in {"header", "body"} /\ Head(wire).what = "end"
    /\ Deliver(IF mode = "body" THEN Head(wire).e ELSE 0)
    /\ torn' = IF Named THEN torn ELSE torn \cup {Head(wire).e}
    /\ UNCHANGED <<sent, link, alive, handled, taken, cut, request, gap, stalls, breaks, losses>>

\* The end of the body.
ReadBody ==
    /\ link = "up" /\ wire # <<>> /\ mode \in {"header", "body"} /\ Head(wire).what = "end"
    /\ Deliver(IF Named THEN Head(wire).e ELSE 0)
    /\ torn' = IF Named THEN torn ELSE torn \cup {Head(wire).e}
    /\ UNCHANGED <<sent, link, alive, handled, taken, cut, request, gap, stalls, breaks, losses>>

\* events: the next frame is thrown away, whatever it is.
ReadReply ==
    /\ link = "up" /\ wire # <<>> /\ mode \in {"reply", "drain"}
    /\ \/ /\ mode = "reply" /\ Head(wire).what = "blank" /\ "len" \in lines
          /\ mode' = "drain" /\ UNCHANGED <<lines, taken>>
       \/ /\ mode = "reply" /\ Head(wire).what = "blank" /\ "len" \notin lines
          /\ mode' = "header" /\ lines' = {} /\ UNCHANGED taken
       \/ /\ Head(wire).what = "end"
          /\ mode' = "header" /\ lines' = {} /\ taken' = taken \cup {Head(wire).e}
    /\ wire' = Tail(wire)
    /\ UNCHANGED <<sent, subscribed, link, idle, alive, queue, handled, hollow, dropped, cut, torn,
                   request, gap, bounds>>

\* events gives up in the middle of the reply's header: the lines it read are dropped,
\* and the connection counts as lost from the next poll on that ends without an event.
ReplyTimeout ==
    /\ link = "up" /\ mode = "reply" /\ stalls < MaxStalls /\ stalls' = stalls + 1
    /\ mode' = "header" /\ lines' = {} /\ alive' = FALSE
    /\ UNCHANGED <<sent, subscribed, link, wire, idle, queue, handled, hollow, request, gap,
                   history, resubs, breaks, losses>>

\* last_event is set by every poll that returns.
IdleAfterPoll == 0

\* A poll ends after its second: the lines it read are dropped, and connected() and the
\* watchdog of the loop are looked at.  A body with a length is waited for as long as it
\* takes.
Poll ==
    /\ link = "up" /\ mode = "header"
    /\ \/ wire = <<>> /\ UNCHANGED stalls
       \/ wire # <<>> /\ stalls < MaxStalls /\ stalls' = stalls + 1
    /\ lines' = {} /\ idle' = IdleAfterPoll
    /\ IF ~alive \/ IdleAfterPoll > Watchdog
       THEN link' = "down" /\ subscribed' = FALSE /\ gap' = TRUE /\ wire' = <<>> /\ cut' = cut \cup Events(wire)
       ELSE UNCHANGED <<link, subscribed, gap, wire, cut>>
    /\ UNCHANGED <<sent, mode, alive, queue, handled, hollow, taken, dropped, torn, request, resubs,
                   breaks, losses>>

\* The reader finds the connection closed.
FindClosed ==
    /\ link = "closed"
    /\ link' = "down" /\ mode' = "header" /\ lines' = {}
    /\ UNCHANGED <<sent, subscribed, wire, idle, alive, queue, handled, hollow, request, gap, history, bounds>>

\* Nothing asks for a reconcile pass.
X_Connect ==
    /\ link = "down"
    /\ link' = "up" /\ subscribed' = TRUE /\ idle' = 0 /\ alive' = TRUE
    /\ UNCHANGED <<sent, wire, mode, lines, queue, handled, hollow, request, gap, history, bounds>>

\* A new connection, its subscription and its reply.
Connect ==
    /\ link = "down"
    /\ link' = "up" /\ subscribed' = TRUE /\ idle' = 0 /\ alive' = TRUE /\ request' = TRUE
    /\ UNCHANGED <<sent, wire, mode, lines, queue, handled, hollow, gap, history, bounds>>
-----------------------------------------------------------------------------
(* The worker and the reconcile thread. *)

Handle ==
    /\ queue # <<>>
    /\ queue' = Tail(queue) /\ handled' = Append(handled, Head(queue))
    /\ UNCHANGED <<sent, subscribed, link, wire, hollow, request, gap, reader, history, bounds>>

\* A pass begins, asked for or after _RECONCILE_INTERVAL; while the connection is
\* down it cannot tell what is lost.
Reconcile ==
    /\ request' = FALSE
    /\ gap' = IF link = "up" THEN FALSE ELSE gap
    /\ UNCHANGED <<sent, subscribed, link, wire, queue, handled, hollow, reader, history, bounds>>

Read == ReadLine \/ ReadBlank \/ ReadBody \/ ReadReply

Next ==
    \/ Send \/ Break \/ LoseSubscription
    \/ Read \/ ReplyTimeout \/ Poll \/ FindClosed \/ Connect
    \/ Handle \/ Reconcile

Spec == Init /\ [][Next]_vars

\* The reader and the worker run, an asked for pass begins; a pass that nobody asked
\* for is not relied on.
FairSpec ==
    /\ Spec
    /\ WF_vars(Read) /\ WF_vars(Poll) /\ WF_vars(FindClosed) /\ WF_vars(Connect)
    /\ WF_vars(Handle) /\ WF_vars(request /\ Reconcile)
-----------------------------------------------------------------------------
(* Properties. *)

Queued == {queue[i] : i \in DOMAIN queue}
Handled == {handled[i] : i \in DOMAIN handled}

TypeOK ==
    /\ sent \in 0..MaxEvents /\ subscribed \in BOOLEAN /\ link \in {"up", "closed", "down"}
    /\ \A i \in DOMAIN wire : wire[i].what \in {"len", "type", "blank", "name", "end", "reply"}
    /\ mode \in {"header", "body", "reply", "drain"} /\ lines \subseteq {"len", "type", "reply", "name"}
    /\ Len(queue) <= QueueSize /\ Queued \subseteq 0..sent /\ Handled \subseteq 0..sent
    /\ idle \in Nat /\ alive \in BOOLEAN /\ hollow \in Nat /\ request \in BOOLEAN /\ gap \in BOOLEAN

\* However frames are cut by polls that end, every event that was sent is on the wire,
\* queued or handled, or was lost in one of four ways: with its connection, to a full
\* queue, read in place of a reply, which costs one each time, or without its name, which
\* takes two stops of the network in one frame.
EventsAccountedFor ==
    /\ 1..sent = (Events(wire) \cup Queued \cup Handled \cup taken \cup dropped \cup cut \cup torn) \ {0}
    /\ Cardinality(taken) <= resubs
    /\ 2 * Cardinality(torn) <= stalls

\* No event reaches the worker twice or before an earlier one; 0 is a hollow event.
EventsInOrder ==
    LET all == handled \o queue
    IN  \A i, j \in DOMAIN all : i < j /\ all[i] # 0 /\ all[j] # 0 => all[i] < all[j]

\* A connection that breaks comes back, and a pass that begins after it came back
\* looks for what was lost.
GapIsReconciled == gap ~> ~gap

\* What is queued reaches the worker, and a connection that is up again delivers.
EventArrives ==
    \A e \in 1..MaxEvents : sent >= e ~> e \in Handled \cup taken \cup dropped \cup cut \cup torn
-----------------------------------------------------------------------------
(* Said of the code and refuted by this model; the README tells how. *)

\* esl_client.py: the watchdog subscribes again when a subscription is lost.
SubscriptionReturns == ~subscribed ~> subscribed

\* fs_esl_socket.py: half a frame read before a timeout is kept.
HalfFrameIsKept == hollow = 0 /\ torn = {}

\* fs_esl_socket.py: events reads its reply, not an event.
ReplyIsReply == taken = {}
=============================================================================
