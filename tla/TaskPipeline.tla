---------------------------- MODULE TaskPipeline ----------------------------
(***************************************************************************)
(* The extraction pipeline of CampusCue V2, tasks/pipeline.py, with the     *)
(* deduplicator, the part of TaskService.create_task it ends in, and the    *)
(* event bus's rule that an exception of a handler is logged and no more.   *)
(*                                                                          *)
(* A delivery is one run of the pipeline on one message.  Deliveries run    *)
(* side by side, and a message may be delivered again: after a restart, or  *)
(* when the transport has forgotten it.  What the model answers is          *)
(* arbitrary, also from one delivery of a message to the next.              *)
(*                                                                          *)
(* A notice is reduced to what the deduplicator compares: its key stands    *)
(* for the normalised title and the minute of the deadline or its absence.  *)
(***************************************************************************)
EXTENDS Integers, FiniteSets

CONSTANTS
  Sources,     \* configured group chats
  MessageIds,  \* message ids within a chat
  Keys,        \* what a notice says apart from its course
  Courses,     \* courses a notice can name
  Unknown,     \* no course is named
  NoMessage,   \* the message of a task entered by hand
  Window,      \* DEDUP_WINDOW
  Limit,       \* rows the search for a duplicate reads
  InFlight,    \* handlers the bus runs at once
  Free,        \* nobody holds TaskService's lock
  MaxTime,     \* bound: last instant
  MaxRuns,     \* bound: deliveries
  MaxEdits,    \* bound: changes people make
  MaxFaults    \* bound: crashes and failed database calls

ASSUME PipelineAssumption ==
  /\ Unknown \notin Courses /\ NoMessage \notin MessageIds
  /\ Window \in Nat /\ Limit \in Nat
  /\ {InFlight, MaxTime, MaxRuns, MaxEdits, MaxFaults} \subseteq Nat
  /\ Free \notin Nat

VARIABLES
  now,      \* the clock
  board,    \* the tasks table
  row,      \* the extractions table: what each delivery wrote
  run,      \* the deliveries
  lock,     \* TaskService's lock: a delivery or Free
  spent     \* edits and faults so far

vars == <<now, board, row, run, lock, spent>>

Runs == 1..MaxRuns
Ids == 1..(MaxRuns + MaxEdits)
CourseOrNone == Courses \union {Unknown}

Status == {"error", "skipped", "duplicate", "success"}
NoRow == [status |-> "none", task |-> 0]

\* "new" and the ends "dropped" (a documented drop), "recorded", "raised"
\* (an exception reached the bus) and "killed" (with the process).
Ends == {"dropped", "recorded", "raised", "killed"}
NewRun == [pc |-> "new", source |-> NoMessage, message |-> NoMessage,
           key |-> NoMessage, course |-> Unknown, status |-> "none", made |-> 0]

Init ==
  /\ now = 0
  /\ board = {}
  /\ row = [d \in Runs |-> NoRow]
  /\ run = [d \in Runs |-> NewRun]
  /\ lock = Free
  /\ spent = [edits |-> 0, faults |-> 0]

Running(d) == run[d].pc \notin {"new"} \union Ends

\* What a delivery still needs when it has nothing to do but write its row,
\* and when it has ended.
Left(r, pc, status) == [r EXCEPT !.pc = pc, !.status = status,
                                 !.key = NoMessage, !.course = Unknown]
Writing(d, status) == run' = [run EXCEPT ![d] = Left(@, "record", status)]
Ended(d, pc) == run' = [run EXCEPT ![d] = Left(@, pc, "none")]

-----------------------------------------------------------------------------
(* L0 to L4                                                                *)

\* The bus starts a handler.  Source policy (is the chat known, enabled and
\* set to be extracted now) and hygiene filter drop the event or let it
\* through to the model; both are inputs here.
Start(d) ==
  /\ run[d].pc = "new" /\ \A c \in 1..(d - 1) : run[c].pc # "new"
  /\ Cardinality({c \in Runs : Running(c)}) < InFlight
  /\ \E s \in Sources, m \in MessageIds, pc \in {"dropped", "ask"} :
       run' = [run EXCEPT ![d].pc = pc, ![d].source = s, ![d].message = m]
  /\ UNCHANGED <<now, board, row, lock, spent>>

\* No provider, a provider error or an answer that cannot be parsed.
AskFails(d) ==
  /\ run[d].pc = "ask"
  /\ Writing(d, "error")
  /\ UNCHANGED <<now, board, row, lock, spent>>

AskSaysNone(d) ==
  /\ run[d].pc = "ask"
  /\ Writing(d, "skipped")
  /\ UNCHANGED <<now, board, row, lock, spent>>

AskFindsTask(d) ==
  /\ run[d].pc = "ask"
  /\ \E k \in Keys, c \in CourseOrNone :
       run' = [run EXCEPT ![d].pc = "enter", ![d].key = k, ![d].course = c]
  /\ UNCHANGED <<now, board, row, lock, spent>>

\* resolve_deadline raises on a clock such as 24:00; nothing catches it before
\* the bus.
AskRaises(d) ==
  /\ run[d].pc = "ask"
  /\ Ended(d, "raised")
  /\ UNCHANGED <<now, board, row, lock, spent>>

Ask(d) == AskFails(d) \/ AskSaysNone(d) \/ AskFindsTask(d) \/ AskRaises(d)

-----------------------------------------------------------------------------
(* L5 to L7: create_task                                                   *)

Clash(a, b) ==
  /\ a.source = b.source /\ a.key = b.key
  /\ a.course = b.course \/ a.course = Unknown \/ b.course = Unknown

InWindow(s) == {b \in board : b.source = s /\ b.at >= now - Window}

\* The rows find_recent_for_source reads: the newest of the window up to the
\* limit, in any order among rows of one instant.
Newest(s) ==
  {C \in SUBSET InWindow(s) :
     /\ \A b \in C, c \in InWindow(s) : c.at > b.at => c \in C
     /\ Cardinality(C) <= Limit
     /\ Cardinality(C) < Limit => C = InWindow(s)}

\* SQLite's rowid: one more than the largest present, so ids come back.
IsNextId(id) ==
  /\ \A b \in board : b.id < id
  /\ id = 1 \/ \E b \in board : b.id = id - 1

FromMessage(d) == {b \in board : b.source = run[d].source /\ b.message = run[d].message}

\* Mutant: the search for a duplicate happens before the lock is taken.
CheckOutside(d) ==
  /\ run[d].pc = "enter" /\ lock = Free
  /\ \E C \in Newest(run[d].source) :
       IF FromMessage(d) # {} \/ \E b \in C : Clash(b, run[d])
       THEN Writing(d, "duplicate")
       ELSE run' = [run EXCEPT ![d].pc = "insert"]
  /\ UNCHANGED <<now, board, row, lock, spent>>

\* Entering the critical section and reading.  A delivery that finds a
\* duplicate leaves at once.
CheckDuplicate(d) ==
  /\ run[d].pc = "enter" /\ lock = Free
  /\ \E C \in Newest(run[d].source) :
       IF FromMessage(d) # {} \/ \E b \in C : Clash(b, run[d])
       THEN Writing(d, "duplicate") /\ UNCHANGED lock
       ELSE /\ run' = [run EXCEPT ![d].pc = "insert"]
            /\ lock' = d
  /\ UNCHANGED <<now, board, row, spent>>

\* The unique key on (source, message) cannot refuse the row: every writer of
\* the table holds the lock.  Reminders are planned for a task that needs no
\* confirmation; otherwise the critical section ends here.
Insert(d) ==
  /\ run[d].pc = "insert"
  /\ \E id \in Ids, sure \in BOOLEAN :
       /\ IsNextId(id)
       /\ board' = board \union {[id |-> id, source |-> run[d].source,
                                  message |-> run[d].message, key |-> run[d].key,
                                  course |-> run[d].course, at |-> now]}
       /\ run' = [run EXCEPT ![d] =
            [Left(@, IF sure THEN "plan" ELSE "record", "success") EXCEPT !.made = id]]
       /\ lock' = IF sure THEN lock ELSE Free
  /\ UNCHANGED <<now, row, spent>>

\* Mutant: the handler returns once the reminders are planned.
PlanAndReturn(d) ==
  /\ run[d].pc = "plan"
  /\ Ended(d, "recorded")
  /\ lock' = Free
  /\ UNCHANGED <<now, board, row, spent>>

Plan(d) ==
  /\ run[d].pc = "plan"
  /\ run' = [run EXCEPT ![d].pc = "record"]
  /\ lock' = Free
  /\ UNCHANGED <<now, board, row, spent>>

\* Writes the row of the extraction, a transaction of its own.
Record(d) ==
  /\ run[d].pc = "record"
  /\ row' = [row EXCEPT ![d] = [status |-> run[d].status, task |-> run[d].made]]
  /\ Ended(d, "recorded")
  /\ UNCHANGED <<now, board, lock, spent>>

-----------------------------------------------------------------------------
(* Faults                                                                  *)

Fault == spent.faults < MaxFaults /\ spent' = [spent EXCEPT !.faults = @ + 1]

\* Mutant: an acquire and a release without a finally.
RaiseHolding(d) ==
  /\ run[d].pc \in {"enter", "insert", "plan", "record"} /\ Fault
  /\ Ended(d, "raised")
  /\ UNCHANGED <<now, board, row, lock>>

\* A database call fails: async with lets the lock go, the bus logs.
Raise(d) ==
  /\ run[d].pc \in {"enter", "insert", "plan", "record"} /\ Fault
  /\ Ended(d, "raised")
  /\ lock' = IF lock = d THEN Free ELSE lock
  /\ UNCHANGED <<now, board, row>>

\* The process dies and starts again.
Crash ==
  /\ Fault
  /\ run' = [d \in Runs |-> IF Running(d) THEN Left(run[d], "killed", "none") ELSE run[d]]
  /\ lock' = Free
  /\ UNCHANGED <<now, board, row>>

-----------------------------------------------------------------------------
(* People: the API and the agent's tools, each under the lock              *)

Edit == lock = Free /\ spent.edits < MaxEdits /\ spent' = [spent EXCEPT !.edits = @ + 1]

Enter ==
  /\ Edit
  /\ \E id \in Ids, s \in Sources, k \in Keys, c \in CourseOrNone :
       /\ IsNextId(id)
       /\ board' = board \union {[id |-> id, source |-> s, message |-> NoMessage,
                                  key |-> k, course |-> c, at |-> now]}
  /\ UNCHANGED <<now, row, run, lock>>

Correct ==
  /\ Edit
  /\ \E b \in board, k \in Keys, c \in CourseOrNone :
       board' = (board \ {b}) \union {[b EXCEPT !.key = k, !.course = c]}
  /\ UNCHANGED <<now, row, run, lock>>

Remove ==
  /\ Edit
  /\ \E b \in board : board' = board \ {b}
  /\ UNCHANGED <<now, row, run, lock>>

Tick ==
  /\ now < MaxTime
  /\ now' = now + 1
  /\ UNCHANGED <<board, row, run, lock, spent>>

-----------------------------------------------------------------------------
Step(d) == Start(d) \/ Ask(d) \/ CheckDuplicate(d) \/ Insert(d) \/ Plan(d)
           \/ Record(d) \/ Raise(d)

Next ==
  \/ \E d \in Runs : Step(d)
  \/ Enter \/ Correct \/ Remove \/ Tick \/ Crash

Spec == Init /\ [][Next]_vars

=============================================================================
