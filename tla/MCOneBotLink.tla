---------------------------- MODULE MCOneBotLink ----------------------------
(***************************************************************************)
(* Properties of OneBotLink that TLC checks on small instances.            *)
(***************************************************************************)
EXTENDS OneBotLink, TLC

\* Connections, events and messages are interchangeable.
Symmetry == Permutations(Conns) \cup Permutations(Events) \cup Permutations(Messages)

\* A future nobody has resolved is in the current map and was sent, or will
\* be, on the active connection: no action waits for a connection that is
\* gone, whatever connections replaced each other while it was sending.
WaitsOnActive ==
  \A s \in Senders : act[s].fut = "pending" =>
     s \in pend /\ active # None /\ act[s].conn = active

\* An action succeeds only when NapCat answered that very action.
OkMeansAnswered == \A s \in Senders : act[s].pc = "ok" => s \in replied

\* A pending action is failed as lost only in the step in which its own
\* connection leaves the active slot: the delayed cleanup of an old
\* connection never touches the actions of the new one.
OnlyItsConnectionFails ==
  [][\A s \in Senders : act[s].fut = "pending" /\ act'[s].fut = "failed" =>
        act[s].conn = active /\ active' # active]_vars

\* A message let through is none of the last DedupCapacity ones let through
\* within the TTL: a redelivery after a reconnect is not handled again.
LastOf(s, n) == {s[i] : i \in {j \in DOMAIN s : j > Len(s) - n}}
NotHandledTwice ==
  [][\A c \in Conns : loop[c].pc = "read" /\ loop'[c].pc = "publish" =>
        key[loop'[c].event] \notin LastOf(recent, DedupCapacity)]_vars

\* An event that passed the dedup gets its handler, and the handler ends,
\* even while every handler waits for NapCat and its answers wait behind a
\* reader that waits for the queue; only a shutdown leaves out the handler.
Admitted(e) == \E c \in Conns : loop[c].event = e
EventsAreHandled ==
  \A e \in Events : Admitted(e) ~>
     e \notin inflight /\ (act[e].pc \in {"done", "ok", "failed"} \/ bus = "down")

\* A send ends, with an answer, a loss or a timeout, and gives its slot back.
SendsEnd ==
  \A s \in Senders : act[s].pc = "sem" ~> act[s].pc \in {"ok", "failed"}

-----------------------------------------------------------------------------
\* docs/v2/11_API_SPEC.md: connection.updated is given when the active
\* connection is set or cleared.  So, once no replacement is under way and
\* while the adapter is not being stopped, the last notice is the truth.
NoticeIsTrue ==
  ~stopping /\ (\A c \in Conns : loop[c].pc # "replace") => told = (active # None)

=============================================================================
