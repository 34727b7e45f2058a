---------------------------- MODULE AgentRuntime -----------------------------
(***************************************************************************)
(* CampusAgentRuntime: turns of several chat threads over a bounded table  *)
(* of conversations, one lock per conversation, and the proposal that a    *)
(* thread holds until the user confirms or withdraws it.                   *)
(*                                                                         *)
(* A turn suspends at three places: at the lock of its conversation, in    *)
(* the provider loop (with the tools it calls), and in the execution of a  *)
(* confirmed proposal.  Between two of them it runs alone.  asyncio's lock *)
(* is free from its release until the waiter it woke has run.              *)
(*                                                                         *)
(* A conversation object, its lock and a proposal are named by the turn    *)
(* that created them.  Of its history, what matters is whether it holds    *)
(* half an exchange: calls of the model of which some have no result.      *)
(* Trimming and the budget leave out old turns, as many as their sizes     *)
(* demand; sizes are abstracted, so that may be any number.                *)
(***************************************************************************)
EXTENDS Integers, Sequences, FiniteSets

CONSTANTS
  MaxTurns,    \* bound on the calls of chat_with_trace
  Threads,     \* AgentContext.thread
  Sources,     \* AgentContext.source_id
  MaxThreads,  \* conversation_max_threads
  MaxSteps,    \* requests to the provider in a turn
  None

\* __init__ refuses a table without room and a turn without steps.
ASSUME AgentAssumption ==
  /\ MaxThreads \in Nat \ {0} /\ MaxSteps \in 1 .. 8 /\ MaxTurns \in Nat
  /\ None \notin Nat \cup Threads \cup Sources

\* Turns are numbered as they arrive.
Turns == 1 .. MaxTurns

VARIABLES
  conv,       \* _conversations and _conversation_locks
  lastUsed,   \* _conversation_last_used
  uses,       \* _usage_counter
  bound,      \* _conversation_sources
  pending,    \* _pending_approvals: the turn that proposed
  lock,       \* lock of each conversation object, evicted ones too
  cut,        \* conversation objects whose history holds half an exchange
  turn,       \* the turns
  runs,       \* executions of each turn's proposal
  withdrawn   \* proposals the code dropped without executing them

table == <<conv, lastUsed, uses>>
vars == <<table, bound, pending, lock, cut, turn, runs, withdrawn>>

\* _parse_confirmation; "other" is a text that is no decision.
Word == {"confirm", "reject", "ambiguous", "other"}

\* saw: the proposal that was pending when the turn arrived; step: requests
\* made; half: the request under way contains half an exchange.
\* A turn that has ended keeps nothing but the scope of its proposal.
NoTurn == [pc |-> "new", thread |-> None, source |-> None, word |-> None, obj |-> None,
           proposal |-> None, saw |-> None, step |-> 0, half |-> FALSE]
Ended == [NoTurn EXCEPT !.pc = "end"]

Init ==
  /\ conv = [t \in Threads |-> None]
  /\ lastUsed = [t \in Threads |-> 0]
  /\ uses = 0
  /\ bound = [t \in Threads |-> None]
  /\ pending = [t \in Threads |-> None]
  /\ lock = [o \in Turns |-> [locked |-> FALSE, waiters |-> <<>>]]
  /\ cut = {}
  /\ turn = [u \in Turns |-> NoTurn]
  /\ runs = [u \in Turns |-> 0]
  /\ withdrawn = {}

-----------------------------------------------------------------------------
(* What a turn does between its lock and its next suspension. *)

\* Mutant: a thread's proposal runs whatever source confirms it.
DecideUnscoped(p, source, word) ==
  IF p = None THEN [pc |-> "loop", drop |-> FALSE]
  ELSE CASE word = "confirm" -> [pc |-> "execute", drop |-> TRUE]
         [] word = "reject" -> [pc |-> "end", drop |-> TRUE]
         [] word = "ambiguous" -> [pc |-> "end", drop |-> FALSE]
         [] word = "other" -> [pc |-> "loop", drop |-> TRUE]

\* Mutant: a confirmed proposal stays.
DecideKeeping(p, source, word) ==
  IF p = None THEN [pc |-> "loop", drop |-> FALSE]
  ELSE IF turn[p].source # source THEN [pc |-> "end", drop |-> TRUE]
  ELSE CASE word = "confirm" -> [pc |-> "execute", drop |-> FALSE]
         [] word = "reject" -> [pc |-> "end", drop |-> TRUE]
         [] word = "ambiguous" -> [pc |-> "end", drop |-> FALSE]
         [] word = "other" -> [pc |-> "loop", drop |-> TRUE]

\* Mutant: a changed topic leaves the proposal.
DecideTopicKept(p, source, word) ==
  IF p = None THEN [pc |-> "loop", drop |-> FALSE]
  ELSE IF turn[p].source # source THEN [pc |-> "end", drop |-> TRUE]
  ELSE CASE word = "confirm" -> [pc |-> "execute", drop |-> TRUE]
         [] word = "reject" -> [pc |-> "end", drop |-> TRUE]
         [] word = "ambiguous" -> [pc |-> "end", drop |-> FALSE]
         [] word = "other" -> [pc |-> "loop", drop |-> FALSE]

\* The proposal p found pending, and the source and word of the turn: how the
\* turn goes on, and whether the proposal leaves _pending_approvals.
Decide(p, source, word) ==
  IF p = None THEN [pc |-> "loop", drop |-> FALSE]
  ELSE IF turn[p].source # source THEN [pc |-> "end", drop |-> TRUE]
  ELSE CASE word = "confirm" -> [pc |-> "execute", drop |-> TRUE]
         [] word = "reject" -> [pc |-> "end", drop |-> TRUE]
         [] word = "ambiguous" -> [pc |-> "end", drop |-> FALSE]
         [] word = "other" -> [pc |-> "loop", drop |-> TRUE]

\* The user, or the source, no longer stands behind the proposal.
Withdraws(p, source, word) ==
  p # None /\ (turn[p].source # source \/ word \in {"reject", "other"})

\* What a request may contain of the history of o, now C: begin_turn trims old
\* turns from it and the budget leaves out more.
Halves(o, C) == IF o \in C THEN BOOLEAN ELSE {FALSE}

\* Turn u, with record r, holds its lock and finds the given table entries.
Begin(u, r, sources, approvals, waiters) ==
  LET p == approvals[r.thread]
      d == Decide(p, r.source, r.word)
      runsNow == d.pc = "execute"
  IN
  /\ bound' = [sources EXCEPT ![r.thread] = r.source]
  /\ pending' = IF d.drop THEN [approvals EXCEPT ![r.thread] = None] ELSE approvals
  /\ \E C \in {cut, cut \ {r.obj}} : \E half \in Halves(r.obj, C) :
       /\ cut' = C
       /\ turn' = [turn EXCEPT ![u] =
            CASE d.pc = "end" -> Ended
              [] d.pc = "loop" -> [r EXCEPT !.pc = "loop", !.word = None, !.saw = None,
                                     !.step = 1, !.half = half]
              [] runsNow -> [r EXCEPT !.pc = "execute", !.word = None, !.proposal = p]]
  /\ lock' = [lock EXCEPT ![r.obj] = [locked |-> d.pc # "end", waiters |-> waiters]]
  /\ runs' = IF runsNow THEN [runs EXCEPT ![p] = @ + 1] ELSE runs
  /\ withdrawn' = withdrawn \cup IF Withdraws(p, r.source, r.word) THEN {p} ELSE {}

-----------------------------------------------------------------------------
(* chat_with_trace up to the lock. *)

Arriving(u) ==
  /\ turn[u].pc = "new"
  /\ \A v \in 1 .. u - 1 : turn[v].pc # "new"

\* The thread belongs to another source: its proposal is dropped.
Mismatched(u, t, s) ==
  /\ Arriving(u)
  /\ conv[t] # None
  /\ bound[t] # s
  /\ turn' = [turn EXCEPT ![u] = Ended]
  /\ pending' = [pending EXCEPT ![t] = None]
  /\ withdrawn' = withdrawn \cup ({pending[t]} \ {None})
  /\ UNCHANGED <<table, bound, lock, cut, runs>>

Open == {t \in Threads : conv[t] # None}

\* Mutant: a thread may be evicted in the middle of its turn.
IdleAlways == Open

\* Only a thread whose lock is free at this moment may be evicted.
Idle == {t \in Open : ~lock[conv[t]].locked}

Oldest == {t \in Idle : \A d \in Idle : lastUsed[t] <= lastUsed[d]}

\* Mutant: one thread too many.
FullLate(t) == conv[t] = None /\ Cardinality(Open) > MaxThreads

\* A new thread needs a place and there is none.
Full(t) == conv[t] = None /\ Cardinality(Open) >= MaxThreads

\* No room and nobody idle: RuntimeError.
Refused(u, t) ==
  /\ Arriving(u)
  /\ Full(t) /\ Idle = {}
  /\ turn' = [turn EXCEPT ![u] = Ended]
  /\ UNCHANGED <<table, bound, pending, lock, cut, runs, withdrawn>>

\* The turn gets its conversation, perhaps in place of thread e, and takes
\* the lock, or queues for it.
Admitted(u, t, s, w, e) ==
  LET o == IF conv[t] = None THEN u ELSE conv[t]
      r == [NoTurn EXCEPT !.pc = "wait", !.thread = t, !.source = s, !.word = w, !.obj = o,
                         !.saw = pending[t]]
      Without(f) == [x \in Threads |-> IF x = e THEN None ELSE f[x]]
  IN
  /\ Arriving(u)
  /\ conv[t] # None => bound[t] = s
  /\ IF Full(t) THEN e \in Oldest ELSE e = None
  /\ conv' = [Without(conv) EXCEPT ![t] = o]
  /\ uses' = uses + 1
  /\ lastUsed' = [x \in Threads |-> IF x = t THEN uses' ELSE IF x = e THEN 0 ELSE lastUsed[x]]
  /\ IF lock[o].locked \/ lock[o].waiters # <<>>
       THEN /\ turn' = [turn EXCEPT ![u] = r]
            /\ lock' = [lock EXCEPT ![o].waiters = Append(@, u)]
            /\ UNCHANGED <<bound, pending, cut, runs, withdrawn>>
       ELSE Begin(u, r, Without(bound), Without(pending), <<>>)

-----------------------------------------------------------------------------
(* Suspended turns. *)

Awaited(u) ==
  /\ turn[u].pc = "wait"
  /\ ~lock[turn[u].obj].locked
  /\ lock[turn[u].obj].waiters # <<>>
  /\ Head(lock[turn[u].obj].waiters) = u

\* Mutant: a waiter goes on only if its conversation is still in the table.
WakeIfCurrent(u) ==
  /\ Awaited(u)
  /\ conv[turn[u].thread] = turn[u].obj
  /\ Begin(u, turn[u], bound, pending, Tail(lock[turn[u].obj].waiters))
  /\ UNCHANGED table

\* The first waiter of a free lock; the table may have changed since.
Wake(u) ==
  /\ Awaited(u)
  /\ Begin(u, turn[u], bound, pending, Tail(lock[turn[u].obj].waiters))
  /\ UNCHANGED table

Finish(u, rest) ==
  /\ turn' = [turn EXCEPT ![u] = rest]
  /\ lock' = [lock EXCEPT ![turn[u].obj].locked = FALSE]
  /\ UNCHANGED <<table, bound, runs, withdrawn>>

\* The provider calls tools, all of them are executed, and the exchange joins
\* the history.  The current turn grows, so less of the rest fits.
CallTools(u) ==
  /\ turn[u].pc = "loop" /\ turn[u].step < MaxSteps
  /\ \E half \in {turn[u].half, FALSE} :
       turn' = [turn EXCEPT ![u].step = @ + 1, ![u].half = half]
  /\ UNCHANGED <<table, bound, pending, lock, cut, runs, withdrawn>>

\* _run_loop ends with a reply, an error or a limit: the budget, the steps, or
\* a call repeated too often, whose exchange does not join the history.
Reply(u) ==
  /\ turn[u].pc = "loop"
  /\ Finish(u, Ended)
  /\ UNCHANGED <<pending, cut>>

\* It ends with a proposal, at the call that needs a confirmation.  The message
\* with all calls joins the history; those after it have no result.
Propose(u) ==
  /\ turn[u].pc = "loop"
  /\ pending' = [pending EXCEPT ![turn[u].thread] = u]
  /\ Finish(u, [Ended EXCEPT !.thread = turn[u].thread, !.source = turn[u].source])
  /\ \E more \in SUBSET {turn[u].obj} : cut' = cut \cup more

\* _execute_pending ends, whatever became of the mutation.
Executed(u) ==
  /\ turn[u].pc = "execute"
  /\ Finish(u, Ended)
  /\ UNCHANGED <<pending, cut>>

-----------------------------------------------------------------------------

Arrive(u) ==
  \E t \in Threads, s \in Sources, w \in Word :
    \/ Mismatched(u, t, s)
    \/ Refused(u, t)
    \/ \E e \in Threads \cup {None} : Admitted(u, t, s, w, e)

Resume(u) == Wake(u) \/ CallTools(u) \/ Reply(u) \/ Propose(u) \/ Executed(u)

Next == \E u \in Turns : Arrive(u) \/ Resume(u)

Spec == Init /\ [][Next]_vars

\* The event loop runs what can run; the provider and every tool have a timeout.
FairSpec == Spec /\ \A u \in Turns : WF_vars(Resume(u))

=============================================================================
