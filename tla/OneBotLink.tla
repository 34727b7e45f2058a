----------------------------- MODULE OneBotLink ------------------------------
(***************************************************************************)
(* The way in and out of CampusCue V2: the OneBot adapter (a WebSocket     *)
(* server that NapCat dials), its transport dedup, the event bus, and the  *)
(* actions that handlers and fired reminders send back on the connection.  *)
(*                                                                         *)
(* One event loop.  _handle_connection is a coroutine per connection that  *)
(* reads frames and suspends inside bus.publish while the queue is full;   *)
(* _send_action is a coroutine per sender; the dispatch loop is a third.   *)
(* RealtimeHub.publish never suspends, so a connection notice belongs to   *)
(* the step that gives it.                                                 *)
(*                                                                         *)
(* NapCat and the network are the environment: it may redeliver a message, *)
(* answer late, twice or never, drop a connection and dial again.          *)
(***************************************************************************)
EXTENDS Integers, Sequences, FiniteSets

CONSTANTS
  Conns,          \* connections accepted in a run
  Events,         \* event frames NapCat sends in a run
  Messages,       \* (self_id, message_id) keys
  Fires,          \* fired reminders, which send without the bus
  QueueMax,       \* event_bus.queue_maxsize
  MaxInFlight,    \* event_bus.max_in_flight
  MaxPending,     \* onebot.max_pending_actions
  DedupCapacity,  \* onebot.dedup_capacity
  MaxWire,        \* bound on the frames under way on a connection
  None

Senders == Events \cup Fires

\* RuntimeConfig.validate refuses a bound that is not positive.
ASSUME LinkAssumption ==
  /\ QueueMax \in Nat \ {0} /\ MaxInFlight \in Nat \ {0}
  /\ MaxPending \in Nat \ {0} /\ DedupCapacity \in Nat \ {0}
  /\ MaxWire \in Nat
  /\ Events \cap Fires = {}
  /\ None \notin Conns \cup Events \cup Messages \cup Fires

VARIABLES
  active,    \* adapter._conn
  pend,      \* adapter._pending: whose future is in the current map
  loop,      \* _handle_connection of each connection
  open,      \* whether a connection's transport is up
  wire,      \* frames NapCat sent on a connection that were not read yet
  asked,     \* action frames that reached NapCat, by connection
  replied,   \* actions NapCat ever answered
  act,       \* _send_action of each sender
  cache,     \* TransportDedup._cache, oldest key first
  queue,     \* EventBus._queue
  slot,      \* the dispatch loop holds a slot and waits for an event
  inflight,  \* events whose handler runs
  bus,       \* "up"; "draining" and "down" in and after EventBus.shutdown
  key,       \* the message an event frame carries, None before it is sent
  stopping,  \* adapter._stopping
  told,      \* the last connection state notified
  recent     \* keys let through, oldest first, as long as their TTL lasts

linkVars == <<active, pend, loop, open>>
peerVars == <<wire, asked, replied, key>>
busVars == <<queue, slot, inflight, bus>>
dedupVars == <<cache, recent>>
vars == <<linkVars, peerVars, act, dedupVars, busVars, stopping, told>>

NoLoop == [pc |-> "new", event |-> None]
NoAct == [pc |-> "idle", conn |-> None, fut |-> "none"]

Init ==
  /\ active = None
  /\ pend = {}
  /\ loop = [c \in Conns |-> NoLoop]
  /\ open = [c \in Conns |-> FALSE]
  /\ wire = [c \in Conns |-> <<>>]
  /\ asked = [c \in Conns |-> {}]
  /\ replied = {}
  /\ act = [s \in Senders |-> NoAct]
  /\ cache = <<>>
  /\ queue = <<>>
  /\ slot = FALSE
  /\ inflight = {}
  /\ bus = "up"
  /\ key = [e \in Events |-> None]
  /\ stopping = FALSE
  /\ told = FALSE
  /\ recent = <<>>

-----------------------------------------------------------------------------
(* NapCat and the network. *)

EventFrame(e) == [kind |-> "event", of |-> e]
AnswerFrame(s) == [kind |-> "answer", of |-> s]

PeerUnchanged ==
  UNCHANGED <<active, pend, loop, act, dedupVars, busVars, stopping, told>>

PeerSends(c, frame) ==
  /\ open[c]
  /\ Len(wire[c]) < MaxWire
  /\ wire' = [wire EXCEPT ![c] = Append(@, frame)]

\* A message, perhaps one that was already delivered.
PeerEvent(c, e, m) ==
  /\ key[e] = None
  /\ PeerSends(c, EventFrame(e))
  /\ key' = [key EXCEPT ![e] = m]
  /\ UNCHANGED <<open, asked, replied>>
  /\ PeerUnchanged

\* The answer of an action, with its echo; NapCat may repeat itself.
PeerAnswer(c, s) ==
  /\ s \in asked[c]
  /\ PeerSends(c, AnswerFrame(s))
  /\ replied' = replied \cup {s}
  /\ UNCHANGED <<open, asked, key>>
  /\ PeerUnchanged

\* The connection breaks; frames under way may be lost.
PeerDrop(c) ==
  /\ open[c]
  /\ open' = [open EXCEPT ![c] = FALSE]
  /\ \E n \in 0 .. Len(wire[c]) : wire' = [wire EXCEPT ![c] = SubSeq(@, 1, n)]
  /\ UNCHANGED <<asked, replied, key>>
  /\ PeerUnchanged

-----------------------------------------------------------------------------
(* _handle_connection. *)

\* _fail_pending: the futures of the current map that are not done.
Failed == [s \in Senders |->
             IF s \in pend /\ act[s].fut = "pending" THEN [act[s] EXCEPT !.fut = "failed"]
                                                     ELSE act[s]]

\* Mutant: the new connection inherits the map of the old one.
AcceptSharing(c) ==
  /\ loop[c].pc = "new"
  /\ ~stopping
  /\ active' = c
  /\ loop' = [loop EXCEPT ![c].pc = IF active = None THEN "read" ELSE "replace"]
  /\ open' = [d \in Conns |-> IF d = c THEN TRUE ELSE IF d = active THEN FALSE ELSE open[d]]
  /\ told' = (active = None)
  /\ UNCHANGED <<pend, act, peerVars, dedupVars, busVars, stopping>>

\* A dialled connection takes the active slot.  An old one loses its pending
\* actions at once, and is then closed: the coroutine waits for that.
Accept(c) ==
  /\ loop[c].pc = "new"
  /\ IF stopping
       THEN /\ loop' = [loop EXCEPT ![c].pc = "ended"]
            /\ UNCHANGED <<active, pend, open, act, told>>
       ELSE /\ active' = c
            /\ IF active = None
                 THEN /\ loop' = [loop EXCEPT ![c].pc = "read"]
                      /\ open' = [open EXCEPT ![c] = TRUE]
                      /\ told' = TRUE
                      /\ UNCHANGED <<pend, act>>
                 ELSE /\ loop' = [loop EXCEPT ![c].pc = "replace"]
                      /\ open' = [open EXCEPT ![c] = TRUE, ![active] = FALSE]
                      /\ told' = FALSE
                      /\ act' = Failed
                      /\ pend' = {}
  /\ UNCHANGED <<peerVars, dedupVars, busVars, stopping>>

\* The old connection is closed.
Replaced(c) ==
  /\ loop[c].pc = "replace"
  /\ loop' = [loop EXCEPT ![c].pc = "read"]
  /\ told' = TRUE
  /\ UNCHANGED <<active, pend, open, peerVars, act, dedupVars, busVars, stopping>>

\* check_and_add: a key already there is refused; beyond its capacity the
\* cache forgets the oldest key.
Known(m) == \E i \in DOMAIN cache : cache[i] = m

\* Mutant: the cache holds one key less than its capacity.
RememberOneLess(m) ==
  /\ cache' = IF Len(cache) + 1 < DedupCapacity THEN Append(cache, m)
                                                ELSE Tail(Append(cache, m))
  /\ recent' = Append(recent, m)

Remember(m) ==
  /\ cache' = IF Len(cache) < DedupCapacity THEN Append(cache, m)
                                            ELSE Append(Tail(cache), m)
  /\ recent' = Append(recent, m)

\* The TTL of the oldest key runs out.
Expire ==
  /\ recent # <<>>
  /\ recent' = Tail(recent)
  /\ cache' = IF Len(cache) = Len(recent) THEN Tail(cache) ELSE cache
  /\ UNCHANGED <<linkVars, peerVars, act, busVars, stopping, told>>

NextFrame(c) == Head(wire[c])

TakeFrame(c) ==
  /\ loop[c].pc = "read"
  /\ active = c
  /\ wire[c] # <<>>
  /\ wire' = [wire EXCEPT ![c] = Tail(@)]

\* Mutant: an answer resolves whichever action has waited.
ReadAnswerOfAny(c) ==
  /\ TakeFrame(c)
  /\ NextFrame(c).kind = "answer"
  /\ \E s \in pend : act' = IF act[s].fut = "pending"
                              THEN [act EXCEPT ![s].fut = "answered"] ELSE act
  /\ UNCHANGED <<linkVars, asked, replied, key, dedupVars, busVars, stopping, told>>

\* _resolve_action_response: the echo's future, if it is in the current map
\* and not done.
ReadAnswer(c) ==
  /\ TakeFrame(c)
  /\ NextFrame(c).kind = "answer"
  /\ LET s == NextFrame(c).of
     IN  act' = IF s \in pend /\ act[s].fut = "pending"
                  THEN [act EXCEPT ![s].fut = "answered"] ELSE act
  /\ UNCHANGED <<linkVars, asked, replied, key, dedupVars, busVars, stopping, told>>

\* An event frame: a duplicate is dropped, anything else goes to publish.
ReadEvent(c) ==
  /\ TakeFrame(c)
  /\ NextFrame(c).kind = "event"
  /\ LET e == NextFrame(c).of
     IN  IF Known(key[e]) THEN UNCHANGED <<loop, dedupVars>>
         ELSE /\ Remember(key[e])
              /\ loop' = [loop EXCEPT ![c] = [pc |-> "publish", event |-> e]]
  /\ UNCHANGED <<active, pend, open, asked, replied, key, act, busVars, stopping, told>>

\* bus.publish ends when the queue has room; the reader waits until then.
Publish(c) ==
  /\ loop[c].pc = "publish"
  /\ Len(queue) < QueueMax
  /\ queue' = Append(queue, loop[c].event)
  /\ loop' = [loop EXCEPT ![c] = [pc |-> "read", event |-> None]]
  /\ UNCHANGED <<active, pend, open, peerVars, act, dedupVars, slot, inflight, bus, stopping, told>>

\* Mutant: a superseded loop cleans up as if it still owned the slot.
EndLoopUnowned(c) ==
  /\ loop[c].pc = "read"
  /\ \/ wire[c] = <<>> /\ ~open[c]
     \/ wire[c] # <<>> /\ active # c
  /\ loop' = [loop EXCEPT ![c].pc = "ended"]
  /\ act' = Failed /\ pend' = {} /\ told' = FALSE
  /\ active' = IF active = c THEN None ELSE active
  /\ UNCHANGED <<open, peerVars, dedupVars, busVars, stopping>>

\* The frame loop ends: the connection is closed, or another one took the
\* slot.  Only the owner of the slot clears it and fails what is pending.
EndLoop(c) ==
  /\ loop[c].pc = "read"
  /\ \/ wire[c] = <<>> /\ ~open[c]
     \/ wire[c] # <<>> /\ active # c
  /\ loop' = [loop EXCEPT ![c].pc = "ended"]
  /\ IF active = c
       THEN active' = None /\ act' = Failed /\ pend' = {} /\ told' = FALSE
       ELSE UNCHANGED <<active, act, pend, told>>
  /\ UNCHANGED <<open, peerVars, dedupVars, busVars, stopping>>

-----------------------------------------------------------------------------
(* The bus. *)

BusUnchanged == UNCHANGED <<linkVars, peerVars, dedupVars, stopping, told>>

\* The dispatch loop takes a slot first, then waits for an event.
TakeSlot ==
  /\ bus = "up"
  /\ ~slot
  /\ Cardinality(inflight) < MaxInFlight
  /\ slot' = TRUE
  /\ UNCHANGED <<queue, inflight, bus, act>>
  /\ BusUnchanged

\* The handler of the event; it may have something to send.
Dispatch ==
  /\ slot
  /\ queue # <<>>
  /\ queue' = Tail(queue)
  /\ slot' = FALSE
  /\ inflight' = inflight \cup {Head(queue)}
  /\ \E pc \in {"sem", "done"} : act' = [act EXCEPT ![Head(queue)].pc = pc]
  /\ UNCHANGED bus
  /\ BusUnchanged

\* Mutant: a handler whose send failed keeps its slot.
EndHandlerSent(e) ==
  /\ e \in inflight
  /\ act[e].pc \in {"done", "ok"}
  /\ inflight' = inflight \ {e}
  /\ UNCHANGED <<queue, slot, bus, act>>
  /\ BusUnchanged

\* A handler that failed or sent frees its slot: nothing escapes _route_event.
EndHandler(e) ==
  /\ e \in inflight
  /\ act[e].pc \in {"done", "ok", "failed"}
  /\ inflight' = inflight \ {e}
  /\ UNCHANGED <<queue, slot, bus, act>>
  /\ BusUnchanged

-----------------------------------------------------------------------------
(* _send_action. *)

SendUnchanged ==
  UNCHANGED <<active, loop, open, wire, replied, key, dedupVars, busVars, stopping, told>>

\* A fired reminder is delivered; deliver() does not try without a connection.
StartFire(s) ==
  /\ s \in Fires
  /\ act[s].pc = "idle"
  /\ act' = [act EXCEPT ![s].pc = IF active = None THEN "failed" ELSE "sem"]
  /\ UNCHANGED <<pend, asked>>
  /\ SendUnchanged

Holders == {s \in Senders : act[s].pc \in {"send", "wait"}}

\* With the semaphore: no connection, no action; else its future is in the
\* map before the frame is sent.
Register(s) ==
  /\ act[s].pc = "sem"
  /\ Cardinality(Holders) < MaxPending
  /\ IF active = None
       THEN act' = [act EXCEPT ![s].pc = "failed"] /\ UNCHANGED pend
       ELSE /\ act' = [act EXCEPT ![s] = [pc |-> "send", conn |-> active, fut |-> "pending"]]
            /\ pend' = pend \cup {s}
  /\ UNCHANGED asked
  /\ SendUnchanged

End(s, pc) ==
  /\ act' = [act EXCEPT ![s].pc = pc, ![s].fut = "none"]
  /\ pend' = pend \ {s}

\* The send lock and the frame, on the connection taken at registration.
Transmit(s) ==
  /\ act[s].pc = "send"
  /\ IF open[act[s].conn]
       THEN /\ act' = [act EXCEPT ![s].pc = "wait"]
            /\ asked' = [asked EXCEPT ![act[s].conn] = @ \cup {s}]
            /\ UNCHANGED pend
       ELSE End(s, "failed") /\ UNCHANGED asked
  /\ SendUnchanged

\* The future is done: an answer says whether the action succeeded.
Resume(s) ==
  /\ act[s].pc = "wait"
  /\ act[s].fut # "pending"
  /\ \E pc \in {"ok", "failed"} : (pc = "ok" => act[s].fut = "answered") /\ End(s, pc)
  /\ UNCHANGED asked
  /\ SendUnchanged

\* Mutant: only an action that has left the map times out.
TimeoutIfGone(s) ==
  /\ act[s].pc = "wait"
  /\ act[s].fut = "pending"
  /\ s \notin pend
  /\ End(s, "failed")
  /\ UNCHANGED asked
  /\ SendUnchanged

\* action_timeout_s is over.
Timeout(s) ==
  /\ act[s].pc = "wait"
  /\ act[s].fut = "pending"
  /\ End(s, "failed")
  /\ UNCHANGED asked
  /\ SendUnchanged

-----------------------------------------------------------------------------
(* adapter.stop closes the connection and waits for it; then the slot is   *)
(* cleared and what is pending fails.  Then the bus is shut down.          *)

StopBegin ==
  /\ ~stopping
  /\ stopping' = TRUE
  /\ open' = [c \in Conns |-> open[c] /\ c # active]
  /\ UNCHANGED <<active, pend, loop, peerVars, act, dedupVars, busVars, told>>

StopEnd ==
  /\ stopping
  /\ active # None
  /\ active' = None
  /\ act' = Failed
  /\ pend' = {}
  /\ UNCHANGED <<loop, open, peerVars, dedupVars, busVars, stopping, told>>

\* bus.shutdown follows: the dispatch loop is cancelled, gives back its slot,
\* and what is queued is thrown away.
Drain ==
  /\ stopping /\ active = None
  /\ bus = "up"
  /\ bus' = "draining"
  /\ queue' = <<>> /\ slot' = FALSE
  /\ UNCHANGED <<inflight, act>>
  /\ BusUnchanged

\* Handlers that still run at the timeout are cancelled, in the middle of a
\* send perhaps: the finally of _send_action gives back what it took.
CancelHandlers ==
  LET caught == {s \in inflight : act[s].pc \in {"sem", "send", "wait"}}
  IN
  /\ bus = "draining"
  /\ bus' = "down"
  /\ inflight' = {}
  /\ act' = [s \in Senders |-> IF s \in caught
                               THEN [act[s] EXCEPT !.pc = "failed", !.fut = "none"]
                               ELSE act[s]]
  /\ pend' = pend \ caught
  /\ UNCHANGED <<active, loop, open, queue, slot, peerVars, dedupVars, stopping, told>>

-----------------------------------------------------------------------------

Peer(c) ==
  \/ \E e \in Events, m \in Messages : PeerEvent(c, e, m)
  \/ \E s \in Senders : PeerAnswer(c, s)
  \/ PeerDrop(c)

ReadLoop(c) == Replaced(c) \/ ReadAnswer(c) \/ ReadEvent(c) \/ Publish(c) \/ EndLoop(c)

Sending(s) == Register(s) \/ Transmit(s) \/ Resume(s)

Next ==
  \/ \E c \in Conns : Peer(c) \/ Accept(c) \/ ReadLoop(c)
  \/ \E s \in Senders : StartFire(s) \/ Sending(s) \/ Timeout(s)
  \/ \E e \in Events : EndHandler(e)
  \/ TakeSlot
  \/ Dispatch
  \/ Expire
  \/ StopBegin
  \/ StopEnd
  \/ Drain
  \/ CancelHandlers

Spec == Init /\ [][Next]_vars

\* Coroutines that can run do, the clock goes on, and asyncio's semaphore
\* serves its waiters in turn.  A shutdown that was begun ends at its timeout.
\* NapCat owes nothing, nor does the user who stops.
Fairness ==
  /\ \A c \in Conns : WF_vars(ReadLoop(c))
  /\ \A s \in Senders : SF_vars(Register(s)) /\ WF_vars(Sending(s)) /\ WF_vars(Timeout(s))
  /\ \A e \in Events : WF_vars(EndHandler(e))
  /\ WF_vars(TakeSlot) /\ WF_vars(Dispatch) /\ WF_vars(CancelHandlers)

FairSpec == Spec /\ Fairness

=============================================================================
