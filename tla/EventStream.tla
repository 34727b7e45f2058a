---------------------------- MODULE EventStream ----------------------------
(***************************************************************************)
(* How a browser learns that the board changed: the realtime hub            *)
(* (api/realtime.py), the route GET /stream (api/app.py) and the composable *)
(* of the web interface that reads it (web/src/composables/useSse.ts).      *)
(*                                                                          *)
(* An event says only that something changed; whoever reads one loads the   *)
(* board again over REST.  There is no replay: what is published while      *)
(* nobody subscribes is gone, and a subscriber too slow for its queue is    *)
(* dropped, so that a publisher never waits.                                *)
(***************************************************************************)
EXTENDS Integers, Sequences

CONSTANTS
  Clients,     \* open pages
  QueueSize,   \* events a subscriber's queue holds
  WireSize,    \* frames a connection takes before the stream blocks
  MaxCommits,  \* bound: changes of the board
  MaxStreams,  \* bound: connections, of all pages together
  MaxFaults    \* bound: broken connections and failed loads

ASSUME StreamAssumption ==
  /\ QueueSize \in Nat \ {0} /\ WireSize \in Nat \ {0}
  /\ {MaxCommits, MaxStreams, MaxFaults} \subseteq Nat

VARIABLES
  latest,   \* changes committed
  said,     \* events published, one after each commit
  slots,    \* the hub's registered subscribers
  queue,    \* the queue of each
  stream,   \* the generator behind each connection
  wire,     \* frames on their way to the page
  page,     \* the pages
  faults    \* faults so far

hub == <<said, slots, queue>>
vars == <<latest, said, slots, queue, stream, wire, page, faults>>

Streams == 1..MaxStreams
NoStream == 0

\* "asked", "route" (subscribed), "open" (first frame sent), "waiting" (inside
\* hub.stream), "ended".  last: the last event taken from the queue.
NewStream == [pc |-> "none", closed |-> FALSE, last |-> 0]

\* A mounted page connects and loads the board.  asked: loads the server has
\* not answered; answers: what answers under way show.
NewPage == [pc |-> "down", stream |-> NoStream, reconnected |-> FALSE,
            asked |-> 1, answers |-> {}, shown |-> 0, error |-> FALSE]

Init ==
  /\ latest = 0 /\ said = 0
  /\ slots = {}
  /\ queue = [i \in Streams |-> <<>>]
  /\ stream = [i \in Streams |-> NewStream]
  /\ wire = [i \in Streams |-> <<>>]
  /\ page = [c \in Clients |-> NewPage]
  /\ faults = 0

-----------------------------------------------------------------------------
(* The services                                                            *)

Commit ==
  /\ latest < MaxCommits
  /\ latest' = latest + 1
  /\ UNCHANGED <<said, slots, queue, stream, wire, page, faults>>

Fits(i) == Len(queue[i]) < QueueSize

\* Mutant: a full queue only misses the event.
PublishSkipping ==
  /\ said < latest
  /\ said' = said + 1
  /\ queue' = [i \in Streams |->
                 IF i \in slots /\ Fits(i) THEN Append(queue[i], said + 1) ELSE queue[i]]
  /\ UNCHANGED <<latest, slots, stream, wire, page, faults>>

\* Mutant: it is taken from the registry, and its stream is not told.
PublishForgetting ==
  /\ said < latest
  /\ said' = said + 1
  /\ queue' = [i \in Streams |->
                 IF i \in slots /\ Fits(i) THEN Append(queue[i], said + 1) ELSE queue[i]]
  /\ slots' = {i \in slots : Fits(i)}
  /\ UNCHANGED <<latest, stream, wire, page, faults>>

\* To every subscriber, without waiting; who has no room is unsubscribed.
Publish ==
  /\ said < latest
  /\ said' = said + 1
  /\ queue' = [i \in Streams |->
                 IF i \in slots /\ Fits(i) THEN Append(queue[i], said + 1) ELSE queue[i]]
  /\ slots' = {i \in slots : Fits(i)}
  /\ stream' = [i \in Streams |->
                  [stream[i] EXCEPT !.closed = @ \/ (i \in slots /\ ~Fits(i))]]
  /\ UNCHANGED <<latest, wire, page, faults>>

-----------------------------------------------------------------------------
(* The route and its generator                                             *)

Subscribe(i) ==
  /\ stream[i].pc = "asked"
  /\ slots' = slots \union {i}
  /\ stream' = [stream EXCEPT ![i].pc = "route", ![i].last = said]
  /\ UNCHANGED <<latest, said, queue, wire, page, faults>>

\* The comment frame ": connected".
Begin(i) ==
  /\ stream[i].pc = "route"
  /\ stream' = [stream EXCEPT ![i].pc = "open"]
  /\ UNCHANGED <<latest, hub, wire, page, faults>>

Unsubscribed(i) ==
  /\ slots' = slots \ {i}
  /\ stream' = [stream EXCEPT ![i].pc = "ended", ![i].closed = TRUE]

\* hub.stream: a subscriber that overflowed before it got here has no stream.
EnterHub(i) ==
  /\ stream[i].pc = "open"
  /\ IF i \in slots
     THEN stream' = [stream EXCEPT ![i].pc = "waiting"] /\ UNCHANGED slots
     ELSE Unsubscribed(i)
  /\ UNCHANGED <<latest, said, queue, wire, page, faults>>

\* The generator is not blocked in the frame it yielded last.
Awake(i) == stream[i].pc = "waiting" /\ Len(wire[i]) < WireSize

Deliver(i) ==
  /\ Awake(i) /\ ~stream[i].closed /\ queue[i] # <<>>
  /\ wire' = [wire EXCEPT ![i] = Append(@, Head(queue[i]))]
  /\ queue' = [queue EXCEPT ![i] = Tail(@)]
  /\ stream' = [stream EXCEPT ![i].last = Head(queue[i])]
  /\ UNCHANGED <<latest, said, slots, page, faults>>

\* The close wakes it; what is still queued is not delivered.
End(i) ==
  /\ Awake(i) /\ stream[i].closed
  /\ Unsubscribed(i)
  /\ UNCHANGED <<latest, said, queue, wire, page, faults>>

Left(i) == \A c \in Clients : page[c].stream # i

\* Mutant: the slot outlives the connection.
LoseKeeping(i) ==
  /\ stream[i].pc \in {"open", "waiting"} /\ Left(i)
  /\ stream' = [stream EXCEPT ![i].pc = "ended"]
  /\ UNCHANGED <<latest, hub, wire, page, faults>>

\* The server sees that the page has gone and closes the generator.
Lose(i) ==
  /\ stream[i].pc \in {"open", "waiting"} /\ Left(i)
  /\ Unsubscribed(i)
  /\ UNCHANGED <<latest, said, queue, wire, page, faults>>

Serve(i) == Subscribe(i) \/ Begin(i) \/ EnterHub(i) \/ Deliver(i) \/ End(i) \/ Lose(i)

-----------------------------------------------------------------------------
(* The page                                                                *)

\* useSse.connect, at once after mounting and by the timer after a loss.
Connect(c) ==
  /\ page[c].pc = "down"
  /\ \E i \in Streams :
       /\ stream[i].pc = "none" /\ \A j \in 1..(i - 1) : stream[j].pc # "none"
       /\ stream' = [stream EXCEPT ![i].pc = "asked"]
       /\ page' = [page EXCEPT ![c].pc = "connecting", ![c].stream = i]
  /\ UNCHANGED <<latest, hub, wire, faults>>

\* The response is there.  Nothing is loaded on this occasion.
Opened(c) ==
  /\ page[c].pc = "connecting"
  /\ stream[page[c].stream].pc \in {"open", "waiting", "ended"}
  /\ page' = [page EXCEPT ![c].pc = "open"]
  /\ UNCHANGED <<latest, hub, stream, wire, faults>>

\* Mutant: only the first event after a silence loads the board.
ReadOnce(c) ==
  LET i == page[c].stream IN
    /\ page[c].pc = "open" /\ wire[i] # <<>>
    /\ wire' = [wire EXCEPT ![i] = Tail(@)]
    /\ page' = [page EXCEPT ![c].asked = IF @ = 0 /\ page[c].answers = {} THEN 1 ELSE @,
                            ![c].error = FALSE]
    /\ UNCHANGED <<latest, hub, stream, faults>>

\* Every event starts a load, whatever loads are under way.
Read(c) ==
  LET i == page[c].stream IN
    /\ page[c].pc = "open" /\ wire[i] # <<>>
    /\ wire' = [wire EXCEPT ![i] = Tail(@)]
    /\ page' = [page EXCEPT ![c].asked = @ + 1, ![c].error = FALSE]
    /\ UNCHANGED <<latest, hub, stream, faults>>

\* scheduleReconnect: offline until the timer connects again.
Offline(p) == [p EXCEPT !.pc = "down", !.stream = NoStream, !.reconnected = TRUE]

ReadEnd(c) ==
  LET i == page[c].stream IN
    /\ page[c].pc = "open" /\ wire[i] = <<>> /\ stream[i].pc = "ended"
    /\ page' = [page EXCEPT ![c] = Offline(@)]
    /\ UNCHANGED <<latest, hub, stream, wire, faults>>

\* The request fails or the connection breaks.
Break(c) ==
  LET i == page[c].stream IN
    /\ page[c].pc \in {"connecting", "open"} /\ faults < MaxFaults
    /\ faults' = faults + 1
    /\ page' = [page EXCEPT ![c] = Offline(@)]
    /\ wire' = [wire EXCEPT ![i] = <<>>]
    /\ UNCHANGED <<latest, hub, stream>>

\* A load: the server reads the board, and some time later the answer is
\* shown; answers to several loads come in any order.
Answer(c) ==
  /\ page[c].asked > 0
  /\ page' = [page EXCEPT ![c].asked = @ - 1, ![c].answers = @ \union {latest}]
  /\ UNCHANGED <<latest, hub, stream, wire, faults>>

Show(c) ==
  /\ \E v \in page[c].answers :
       page' = [page EXCEPT ![c].answers = @ \ {v}, ![c].shown = v]
  /\ UNCHANGED <<latest, hub, stream, wire, faults>>

LoadFails(c) ==
  /\ page[c].asked > 0 /\ faults < MaxFaults
  /\ faults' = faults + 1
  /\ page' = [page EXCEPT ![c].asked = @ - 1, ![c].error = TRUE]
  /\ UNCHANGED <<latest, hub, stream, wire>>

Browse(c) == Connect(c) \/ Opened(c) \/ Read(c) \/ ReadEnd(c) \/ Answer(c) \/ Show(c)

-----------------------------------------------------------------------------
Next ==
  \/ Commit \/ Publish
  \/ \E i \in Streams : Serve(i)
  \/ \E c \in Clients : Browse(c) \/ Break(c) \/ LoadFails(c)

Spec == Init /\ [][Next]_vars

\* A request ends, a task runs when it can, and a page goes on reading.  No
\* page must connect again and nothing must be committed.  Every answer is
\* shown in the end.
Fairness ==
  /\ WF_vars(Publish)
  /\ \A i \in Streams : WF_vars(Serve(i))
  /\ \A c \in Clients :
       /\ WF_vars(Opened(c) \/ Read(c) \/ ReadEnd(c))
       /\ WF_vars(Answer(c)) /\ WF_vars(Show(c))

FairSpec == Spec /\ Fairness

-----------------------------------------------------------------------------
\* Who is in the registry has a generator to serve it, and every event since
\* it subscribed, in order, taken or still in its queue: a slow subscriber
\* costs another nothing, no event is dropped from under a stream that goes
\* on, and no slot outlives its stream (api/realtime.py, publish and stream).
Served(i) ==
  /\ stream[i].pc \in {"route", "open", "waiting"} /\ ~stream[i].closed
  /\ stream[i].last + Len(queue[i]) = said
  /\ \A k \in 1..Len(queue[i]) : queue[i][k] = stream[i].last + k

RegisteredIsServed == \A i \in slots : Served(i)

=============================================================================
