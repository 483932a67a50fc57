------------------------------ MODULE Connection ------------------------------
(***************************************************************************)
(* The ESL connection of a node, an EslStream of its own beside whatever   *)
(* counts and stores what it delivers: its constants and its variables,    *)
(* and what the others rely on.                                            *)
(***************************************************************************)
CONSTANTS MaxEvents, QueueSize, MaxStalls, MaxResubs, MaxBreaks, MaxLosses, Watchdog

VARIABLES
    sent, subscribed, link, wire, mode, lines, idle, alive, queue, handled, hollow, taken,
    dropped, cut, torn, request, gap, stalls, resubs, breaks, losses

Stream == INSTANCE EslStream

ASSUME StreamAssumption == Stream!EslConstants

\* However frames are cut by polls that end, every event that was sent is on the wire,
\* queued or handled, or was lost in one of four ways: with its connection, to a full
\* queue, read in place of a reply, or without its name, which takes two stops of the
\* network in one frame; and none reaches the worker twice or before an earlier one.
EventsAreKept == Stream!TypeOK /\ Stream!EventsAccountedFor /\ Stream!EventsInOrder

\* A connection that breaks comes back and delivers, so that every event reaches the
\* worker unless it was lost in one of those ways, and a pass that begins after it came
\* back looks for what was lost.
GapIsReconciled == Stream!GapIsReconciled /\ Stream!EventArrives
=============================================================================
