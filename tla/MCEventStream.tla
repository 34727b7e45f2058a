--------------------------- MODULE MCEventStream ----------------------------
(***************************************************************************)
(* Properties of EventStream that TLC checks on small instances.            *)
(***************************************************************************)
EXTENDS EventStream

\* A page whose subscriber was dropped is told so: its stream ends, even when
\* no further event is ever published.
DroppedIsTold ==
  \A i \in Streams :
    stream[i].pc \in {"route", "open", "waiting"} /\ i \notin slots ~> Left(i)

\* An event that reached a subscriber's queue makes its page show the board
\* as it was then or later, unless the connection is lost or the load fails
\* and says so.
Queued(i, v) == \E k \in DOMAIN queue[i] : queue[i][k] = v
Informed ==
  \A c \in Clients, i \in Streams, v \in 1..MaxCommits :
    page[c].stream = i /\ Queued(i, v) ~> page[c].shown >= v \/ page[c].error \/ page[c].stream # i

-----------------------------------------------------------------------------
\* docs/v2/11_API_SPEC.md:83: after a disconnection the client must refresh
\* from REST.  So a page that connected again, with no event and no answer
\* under way, shows the board.
Quiet(c) ==
  /\ page[c].pc = "open" /\ stream[page[c].stream].pc = "waiting"
  /\ queue[page[c].stream] = <<>> /\ wire[page[c].stream] = <<>>
  /\ page[c].asked = 0 /\ page[c].answers = {}
  /\ said = latest

CaughtUp == \A c \in Clients : Quiet(c) /\ page[c].reconnected => page[c].shown = latest

=============================================================================
