----------------------------- MODULE Reminders ------------------------------
(***************************************************************************)
(* The reminder subsystem of CampusCue V2: TaskService's mutations, the    *)
(* ReminderService they drive, the rows of the tasks and reminders tables, *)
(* the scheduler's in-memory jobs, the fire handlers, the API's cancel of  *)
(* one reminder, backup and restore, and the startup reconciliation.       *)
(*                                                                         *)
(* Everything runs on one event loop.  A repository method is one short    *)
(* transaction and every await of one may let another coroutine run, so    *)
(* each transaction is an action and a coroutine is a program counter with *)
(* what it read.  TaskService._lock admits one mutation at a time: op.     *)
(* Fire handlers, cancel_reminder and a restore do not take that lock.     *)
(*                                                                         *)
(* The database survives a crash; jobs and coroutines do not.  A row id is *)
(* SQLite's rowid: one more than the largest present, so the ids of        *)
(* deleted rows at the top are used again.                                 *)
(***************************************************************************)
EXTENDS ReminderPolicy, FiniteSets

CONSTANTS
  MaxTasks, MaxFacts,    \* bounds on the ids of the two tables
  MaxTime, Deadlines,    \* bound on the clock; the deadlines a user gives
  Grace,                 \* misfire_grace_time, in ticks
  MaxOps,                \* bound on TaskService mutations begun
  MaxDeletes,            \* bound on the deletions among them
  MaxAborts,             \* bound on mutations cut short by an exception
  MaxCancels,            \* bound on the API's cancels of one reminder
  MaxCrashes,            \* bound on process deaths
  MaxRestores            \* bound on restores of a backup

\* The settings refuse a lead that is not positive (_require_positive).
ASSUME RemindersAssumption ==
  /\ MinLead > 0
  /\ MaxTasks \in Nat /\ MaxFacts \in Nat /\ MaxTime \in Nat
  /\ Deadlines \subseteq Nat
  /\ Grace \in Nat
  /\ MaxOps \in Nat /\ MaxDeletes \in Nat /\ MaxAborts \in Nat
  /\ MaxCancels \in Nat /\ MaxCrashes \in Nat /\ MaxRestores \in Nat

TaskIds == 1 .. MaxTasks
FactIds == 1 .. MaxFacts

TaskStatus == {"pending_confirm", "pending", "done", "dismissed"}

MaybeDeadline == {None} \cup Deadlines

TaskRow == [status : TaskStatus, deadline : MaybeDeadline]
NoTask == [status |-> "absent", deadline |-> None]

Fact == [task : TaskIds, type : ReminderType, trigger : Nat,
         status : {"scheduled", "fired", "cancelled"}]
NoFact == [task |-> 0, type |-> "deadline", trigger |-> 0, status |-> "absent"]

NoJobs == [r \in FactIds |-> None]
NoFacts == [r \in FactIds |-> NoFact]

VARIABLES
  task,    \* the tasks table
  fact,    \* the reminders table
  job,     \* the scheduler's job store: the run date of reminder:<id>
  now,     \* the clock
  up,      \* "down", "starting" (resync before the scheduler runs), "running"
  op,      \* the TaskService mutation in its critical section
  sync,    \* resync_all
  fire,    \* the fire handler of each reminder id
  cancel,  \* cancel_reminder
  backup,  \* the backup a user holds
  sent,    \* times the present row of an id was handed to the delivery by a
           \* handler that claimed this very row (fire[r].own)
  told,    \* the (task, type, trigger) slots delivered so far
  dirty,   \* tasks whose last mutation was cut short or whose reminder the
           \* user cancelled: their plan is not owed
  left     \* what remains of each bound

vars == <<task, fact, job, now, up, op, sync, fire, cancel, backup, sent,
          told, dirty, left>>

tables == <<task, fact>>
ghosts == <<sent, told, dirty>>

NoOp == [pc |-> "idle", task |-> 0, row |-> NoTask, todo |-> {}, snap |-> NoJobs]
NoSync == [pc |-> "idle", now |-> 0, rows |-> NoFacts, make |-> {},
           drop |-> {}, odd |-> {}]
NoFire == [pc |-> "idle", row |-> NoFact, own |-> FALSE, stale |-> FALSE]
NoCancel == [pc |-> "idle", id |-> 0]
NoBackup == [task |-> [t \in TaskIds |-> NoTask], fact |-> NoFacts]

Init ==
  /\ task \in [TaskIds -> {NoTask} \cup TaskRow]
  /\ fact = NoFacts
  /\ job = NoJobs
  /\ now = 0
  /\ up = "starting"
  /\ op = NoOp
  /\ sync = [NoSync EXCEPT !.pc = "clear"]
  /\ fire = [r \in FactIds |-> NoFire]
  /\ cancel = NoCancel
  /\ backup = NoBackup
  /\ sent = [r \in FactIds |-> 0]
  /\ told = {}
  /\ dirty = {}
  /\ left = [ops |-> MaxOps, deletes |-> MaxDeletes, aborts |-> MaxAborts,
             cancels |-> MaxCancels, crashes |-> MaxCrashes,
             restores |-> MaxRestores]

-----------------------------------------------------------------------------
(* The tables. *)

\* SQLite's next rowid.
IsNextTaskId(t) ==
  /\ \A u \in t .. MaxTasks : task[u] = NoTask
  /\ t > 1 => task[t - 1] # NoTask

IsNextFactId(r) ==
  /\ \A q \in r .. MaxFacts : fact[q] = NoFact
  /\ r > 1 => fact[r - 1] # NoFact

\* Mutant: the row gets a task's status.
CreateFactAsTask(r, t, d) ==
  /\ IsNextFactId(r)
  /\ fact' = [fact EXCEPT ![r] = [task |-> t, type |-> d.type,
                                  trigger |-> d.trigger, status |-> "pending"]]
  /\ sent' = [sent EXCEPT ![r] = 0]

\* ReminderRepository.create: a new row, which nothing has delivered yet.
CreateFact(r, t, d) ==
  /\ IsNextFactId(r)
  /\ fact' = [fact EXCEPT ![r] = [task |-> t, type |-> d.type,
                                  trigger |-> d.trigger,
                                  status |-> "scheduled"]]
  /\ sent' = [sent EXCEPT ![r] = 0]

FactsOf(t) == {r \in FactIds : fact[r] # NoFact /\ fact[r].task = t}

Scheduled(rows) == {r \in FactIds : rows[r].status = "scheduled"}

\* ReminderRepository.cancel_for_task.
CancelledFor(t) ==
  [r \in FactIds |->
     IF r \in FactsOf(t) \cap Scheduled(fact)
       THEN [fact[r] EXCEPT !.status = "cancelled"]
       ELSE fact[r]]

\* mark_fired and mark_cancelled overwrite whatever status the row has.
Mark(r, status) == fact' = [fact EXCEPT ![r].status = status]

Unscheduled(S) == [r \in FactIds |-> IF r \in S THEN None ELSE job[r]]

-----------------------------------------------------------------------------
(* TaskService.  A mutation begins when it gets the lock; its own write is *)
(* the first transaction.  The read that precedes the write in some of     *)
(* them is folded into it: only a restore could come between.              *)

CanBegin == up = "running" /\ op.pc = "idle" /\ left.ops > 0

\* Write the row of t and go on at pc.  After a write that leaves the task
\* pending a fire handler may legitimately deliver (see ClosedIsSilent).
Write(t, row, pc) ==
  /\ task' = [task EXCEPT ![t] = row]
  /\ op' = IF pc = "idle" THEN NoOp
           ELSE [NoOp EXCEPT !.pc = pc, !.task = t, !.row = row]
  /\ left' = [left EXCEPT !.ops = @ - 1]
  /\ fire' = [r \in FactIds |->
                IF row.status = "pending" /\ fact[r].task = t
                  THEN [fire[r] EXCEPT !.stale = FALSE]
                  ELSE fire[r]]
  /\ UNCHANGED <<fact, job, now, up, sync, cancel, backup, ghosts>>

\* create_task (a candidate may await confirmation) and create_manual_task.
CreateTask(t, status, deadline) ==
  /\ CanBegin
  /\ IsNextTaskId(t)
  /\ status \in {"pending_confirm", "pending"}
  /\ Write(t, [status |-> status, deadline |-> deadline],
           IF status = "pending" THEN "plan" ELSE "idle")

\* change_deadline: pending tasks only, always replans.
ChangeDeadline(t, deadline) ==
  /\ CanBegin
  /\ task[t].status = "pending"
  /\ Write(t, [task[t] EXCEPT !.deadline = deadline], "plan")

\* update_task, the agent's tool: replans only when the deadline changed.
UpdateTask(t, deadline) ==
  /\ CanBegin
  /\ task[t].status = "pending"
  /\ Write(t, [task[t] EXCEPT !.deadline = deadline],
           IF deadline # task[t].deadline THEN "plan" ELSE "idle")

\* Mutant: a reopened task is replanned only when its deadline changed.
AfterManualUpdateOfDeadline(old, new) ==
  IF new.status \in {"done", "dismissed"} THEN "cancel"
  ELSE IF new.status = "pending" /\ new.deadline # old.deadline THEN "plan"
  ELSE "idle"

\* Where update_manual_task goes after its write: the three branches.
AfterManualUpdate(old, new) ==
  IF new.status \in {"done", "dismissed"} THEN "cancel"
  ELSE IF new.status = "pending" /\ new.deadline # None THEN "plan"
  ELSE IF new.status = "pending" /\ new.deadline # old.deadline THEN "plan"
  ELSE "idle"

\* update_manual_task, the API's PATCH: any status and any deadline.
UpdateManualTask(t, row) ==
  /\ CanBegin
  /\ task[t] # NoTask
  /\ Write(t, row, AfterManualUpdate(task[t], row))

\* complete and dismiss, from whatever status the task has.
CloseTask(t, status) ==
  /\ CanBegin
  /\ task[t] # NoTask
  /\ status \in {"done", "dismissed"}
  /\ Write(t, [task[t] EXCEPT !.status = status], "cancel")

\* delete: cancel, hard-delete the reminders, then the task.
DeleteTask(t) ==
  /\ CanBegin
  /\ left.deletes > 0
  /\ task[t] # NoTask
  /\ op' = [NoOp EXCEPT !.pc = "delete_cancel", !.task = t]
  /\ left' = [left EXCEPT !.ops = @ - 1, !.deletes = @ - 1]
  /\ UNCHANGED <<tables, job, now, up, sync, fire, cancel, backup, ghosts>>

-----------------------------------------------------------------------------
(* ReminderService, under the mutation's lock. *)

OpUnchanged == UNCHANGED <<now, up, sync, fire, cancel, backup, told, left>>

\* plan_reminders: cancel the active facts, then compute the desired set.
PlanCancel ==
  /\ op.pc = "plan"
  /\ fact' = CancelledFor(op.task)
  /\ op' = [op EXCEPT !.pc = "create",
                      !.todo = PlanDesiredReminders(op.row.status,
                                                    op.row.deadline, now)]
  /\ dirty' = dirty \ {op.task}
  /\ UNCHANGED <<task, job, sent>>
  /\ OpUnchanged

\* One create a transaction, in the order of the triggers.  Without its task
\* (a restore took it) the foreign key refuses the row and the plan raises.
PlanCreate ==
  /\ op.pc = "create"
  /\ \E d \in op.todo, r \in FactIds :
       /\ \A e \in op.todo : d.trigger <= e.trigger
       /\ IF task[op.task] = NoTask
            THEN op' = NoOp /\ UNCHANGED <<fact, sent>>
            ELSE /\ CreateFact(r, op.task, d)
                 /\ op' = [op EXCEPT !.todo = @ \ {d}]
  /\ UNCHANGED <<task, job, dirty>>
  /\ OpUnchanged

\* list_scheduled: what the jobs will be rebuilt from.
PlanList ==
  /\ op.pc = "create"
  /\ op.todo = {}
  /\ op' = [op EXCEPT !.pc = "install",
                      !.snap = [r \in FactIds |->
                                  IF r \in Scheduled(fact) THEN fact[r].trigger
                                                           ELSE None]]
  /\ UNCHANGED <<tables, job, sent, dirty>>
  /\ OpUnchanged

\* clear_all and the schedule loop: nothing in them suspends.
PlanInstall ==
  /\ op.pc = "install"
  /\ job' = op.snap
  /\ op' = NoOp
  /\ UNCHANGED <<tables, sent, dirty>>
  /\ OpUnchanged

\* cancel_for_task: first the facts ...
CancelFacts ==
  /\ op.pc = "cancel"
  /\ fact' = CancelledFor(op.task)
  /\ op' = [op EXCEPT !.pc = "unschedule"]
  /\ UNCHANGED <<task, job, sent, dirty>>
  /\ OpUnchanged

\* ... then the jobs of every cancelled fact of the task.
CancelJobs ==
  /\ op.pc = "unschedule"
  /\ job' = Unscheduled({r \in FactsOf(op.task) : fact[r].status = "cancelled"})
  /\ op' = NoOp
  /\ UNCHANGED <<tables, sent, dirty>>
  /\ OpUnchanged

DeleteCancel ==
  /\ op.pc = "delete_cancel"
  /\ fact' = CancelledFor(op.task)
  /\ op' = [op EXCEPT !.pc = "delete_jobs"]
  /\ UNCHANGED <<task, job, sent, dirty>>
  /\ OpUnchanged

\* Mutant: only the jobs of the task's active reminders are dropped.
DeleteActiveJobs ==
  /\ op.pc = "delete_jobs"
  /\ job' = Unscheduled(FactsOf(op.task) \cap Scheduled(fact))
  /\ op' = [op EXCEPT !.pc = "delete_facts"]
  /\ UNCHANGED <<tables, sent, dirty>>
  /\ OpUnchanged

\* The unscheduling of the cancelled jobs, then of all of the task's.
DeleteJobs ==
  /\ op.pc = "delete_jobs"
  /\ job' = Unscheduled(FactsOf(op.task))
  /\ op' = [op EXCEPT !.pc = "delete_facts"]
  /\ UNCHANGED <<tables, sent, dirty>>
  /\ OpUnchanged

DeleteFacts ==
  /\ op.pc = "delete_facts"
  /\ fact' = [r \in FactIds |-> IF r \in FactsOf(op.task) THEN NoFact ELSE fact[r]]
  /\ fire' = [r \in FactIds |-> IF r \in FactsOf(op.task)
                                  THEN [fire[r] EXCEPT !.own = FALSE]
                                  ELSE fire[r]]
  /\ op' = [op EXCEPT !.pc = "delete_task"]
  /\ UNCHANGED <<task, job, now, up, sync, cancel, backup, ghosts, left>>

\* The foreign key keeps a task that has reminders: the delete then fails.
DeleteRow ==
  /\ op.pc = "delete_task"
  /\ task' = IF FactsOf(op.task) = {} THEN [task EXCEPT ![op.task] = NoTask]
                                      ELSE task
  /\ op' = NoOp
  /\ UNCHANGED <<fact, job, sent, dirty>>
  /\ OpUnchanged

\* Any await of a mutation may raise: SQLite stays busy past its timeout, or
\* ToolRegistry.execute cancels the tool that awaits it.  The lock is let go
\* and what was committed stays.
AbortOp ==
  /\ op.pc # "idle"
  /\ left.aborts > 0
  /\ op' = NoOp
  /\ dirty' = dirty \cup {op.task}
  /\ left' = [left EXCEPT !.aborts = @ - 1]
  /\ UNCHANGED <<tables, job, now, up, sync, fire, cancel, backup, sent, told>>

-----------------------------------------------------------------------------
(* cancel_reminder, the API's cancel of one reminder: outside the lock. *)

CancelUnchanged == UNCHANGED <<task, now, up, op, sync, fire, backup, sent, told>>

\* get, and the status check.
CancelRead(r) ==
  /\ up = "running"
  /\ cancel.pc = "idle"
  /\ left.cancels > 0
  /\ fact[r].status = "scheduled"
  /\ cancel' = [pc |-> "mark", id |-> r]
  /\ left' = [left EXCEPT !.cancels = @ - 1]
  /\ UNCHANGED <<fact, job, dirty>>
  /\ CancelUnchanged

\* mark_cancelled; a row deleted meanwhile raises.
CancelMark ==
  /\ cancel.pc = "mark"
  /\ IF fact[cancel.id] = NoFact
       THEN cancel' = NoCancel /\ UNCHANGED <<fact, dirty>>
       ELSE /\ Mark(cancel.id, "cancelled")
            /\ cancel' = [cancel EXCEPT !.pc = "unschedule"]
            /\ dirty' = dirty \cup {fact[cancel.id].task}
  /\ UNCHANGED <<job, left>>
  /\ CancelUnchanged

CancelUnschedule ==
  /\ cancel.pc = "unschedule"
  /\ job' = Unscheduled({cancel.id})
  /\ cancel' = NoCancel
  /\ UNCHANGED <<fact, dirty, left>>
  /\ CancelUnchanged

-----------------------------------------------------------------------------
(* The scheduler (APScheduler, external) and ReminderService.fire. *)

FireUnchanged == UNCHANGED <<task, now, up, op, sync, cancel, backup, dirty, left>>

\* A due job leaves the store and its handler is started.
JobRun(r) ==
  /\ up = "running"
  /\ job[r] # None
  /\ job[r] <= now /\ now <= job[r] + Grace
  /\ fire[r].pc = "idle"
  /\ job' = [job EXCEPT ![r] = None]
  /\ fire' = [fire EXCEPT ![r] =
                [NoFire EXCEPT !.pc = "wait",
                               !.stale = ~ ( /\ fact[r].status = "scheduled"
                                             /\ task[fact[r].task].status = "pending")]]
  /\ UNCHANGED <<fact, sent, told>>
  /\ FireUnchanged

\* A job found late, or whose handler still runs (max_instances = 1), leaves
\* the store without running; nothing tells the database.
JobMissed(r) ==
  /\ up = "running"
  /\ job[r] # None
  /\ \/ now > job[r] + Grace
     \/ job[r] <= now /\ fire[r].pc # "idle"
  /\ job' = [job EXCEPT ![r] = None]
  /\ UNCHANGED <<fact, fire, sent, told>>
  /\ FireUnchanged

FireLockFree == \A q \in FactIds : fire[q].pc \in {"idle", "wait"}

\* Mutant: the reminder's own status is not checked.
FireReadUnchecked(r) ==
  /\ fire[r].pc = "wait"
  /\ FireLockFree
  /\ fire' = [fire EXCEPT ![r] = IF fact[r] # NoFact
                                   THEN [@ EXCEPT !.pc = "task", !.row = fact[r]]
                                   ELSE NoFire]
  /\ UNCHANGED <<fact, job, sent, told>>
  /\ FireUnchanged

\* The lock, the reminder's row and the check that it is still scheduled.
FireRead(r) ==
  /\ fire[r].pc = "wait"
  /\ FireLockFree
  /\ fire' = [fire EXCEPT ![r] =
                IF fact[r].status = "scheduled"
                  THEN [@ EXCEPT !.pc = "task", !.row = fact[r]]
                  ELSE NoFire]
  /\ UNCHANGED <<fact, job, sent, told>>
  /\ FireUnchanged

\* The task's row, by the id the reminder's row gave.
FireTask(r) ==
  /\ fire[r].pc = "task"
  /\ fire' = [fire EXCEPT ![r].pc =
                IF task[fire[r].row.task].status = "pending" THEN "mark"
                                                             ELSE "close"]
  /\ UNCHANGED <<fact, job, sent, told>>
  /\ FireUnchanged

\* The task is closed or gone: the fact is closed, if it is still there.
FireClose(r) ==
  /\ fire[r].pc = "close"
  /\ IF fact[r] = NoFact THEN UNCHANGED fact ELSE Mark(r, "cancelled")
  /\ fire' = [fire EXCEPT ![r] = NoFire]
  /\ UNCHANGED <<job, sent, told>>
  /\ FireUnchanged

\* Mutant: mark_fired of a deleted row raises past the lock's release.
FireMarkStuck(r) ==
  /\ fire[r].pc = "mark"
  /\ fact[r] # NoFact
  /\ Mark(r, "fired")
  /\ fire' = [fire EXCEPT ![r] =
                [@ EXCEPT !.pc = "deliver", !.row = fact[r], !.own = TRUE]]
  /\ UNCHANGED <<job, sent, told>>
  /\ FireUnchanged

\* The claim: mark_fired before the delivery; a deleted row raises.
FireMark(r) ==
  /\ fire[r].pc = "mark"
  /\ IF fact[r] = NoFact
       THEN UNCHANGED fact /\ fire' = [fire EXCEPT ![r] = NoFire]
       ELSE /\ Mark(r, "fired")
            /\ fire' = [fire EXCEPT ![r] =
                          [@ EXCEPT !.pc = "deliver", !.row = fact[r], !.own = TRUE]]
  /\ UNCHANGED <<job, sent, told>>
  /\ FireUnchanged

Slot(row) == [task |-> row.task, type |-> row.type, trigger |-> row.trigger]

\* The delivery attempt ends: the message left or not, and a message that
\* left may still be reported as failed (the action's answer timed out).
FireDeliver(r) ==
  /\ fire[r].pc = "deliver"
  /\ \E left_us, failed \in BOOLEAN :
       /\ ~left_us => failed
       /\ sent' = IF left_us /\ fire[r].own THEN [sent EXCEPT ![r] = @ + 1] ELSE sent
       /\ told' = IF left_us THEN told \cup {Slot(fire[r].row)} ELSE told
       /\ fire' = [fire EXCEPT ![r] =
                     IF failed THEN [@ EXCEPT !.pc = "error"] ELSE NoFire]
  /\ UNCHANGED <<fact, job>>
  /\ FireUnchanged

\* The failure is recorded with a second mark_fired.
FireError(r) ==
  /\ fire[r].pc = "error"
  /\ IF fact[r] = NoFact THEN UNCHANGED fact ELSE Mark(r, "fired")
  /\ fire' = [fire EXCEPT ![r] = NoFire]
  /\ UNCHANGED <<job, sent, told>>
  /\ FireUnchanged

-----------------------------------------------------------------------------
(* ReminderService.resync_all, at startup and after a restore. *)

SyncUnchanged == UNCHANGED <<task, now, op, fire, cancel, backup, told, left>>

\* clear_all, and the one reading of the clock.
SyncClear ==
  /\ sync.pc = "clear"
  /\ job' = NoJobs
  /\ sync' = [NoSync EXCEPT !.pc = "facts", !.now = now]
  /\ UNCHANGED <<fact, up, sent, dirty>>
  /\ SyncUnchanged

\* list_scheduled.
SyncFacts ==
  /\ sync.pc = "facts"
  /\ sync' = [sync EXCEPT !.pc = "tasks",
                          !.rows = [r \in FactIds |->
                                      IF r \in Scheduled(fact) THEN fact[r]
                                                               ELSE NoFact]]
  /\ dirty' = {}
  /\ UNCHANGED <<fact, job, up, sent>>
  /\ SyncUnchanged

Relevant == {t \in TaskIds : task[t].status = "pending" /\ task[t].deadline # None}

ActiveOf(t) == {r \in Scheduled(sync.rows) : sync.rows[r].task = t}

Matches(r, d) == sync.rows[r].type = d.type /\ sync.rows[r].trigger = d.trigger

DesiredOf(t) == PlanDesiredReminders(task[t].status, task[t].deadline, sync.now)

\* The rows that keep their identity: the first match of each desired slot.
KeptOf(t) ==
  {r \in ActiveOf(t) :
     \E d \in DesiredOf(t) :
       Matches(r, d) /\ \A q \in ActiveOf(t) : Matches(q, d) => r <= q}

\* Mutant: every desired reminder counts as missing.
MissingOfAll(t) == DesiredOf(t)

MissingOf(t) == {d \in DesiredOf(t) : ~ \E r \in ActiveOf(t) : Matches(r, d)}

\* Mutant: tasks that need no plan are left alone.
SyncRelevantTasks ==
  /\ sync.pc = "tasks"
  /\ sync' = [sync EXCEPT
       !.pc = "repair",
       !.make = UNION {{[task |-> t, type |-> d.type, trigger |-> d.trigger] :
                          d \in MissingOf(t)} : t \in Relevant},
       !.drop = UNION {ActiveOf(t) \ KeptOf(t) : t \in Relevant}]
  /\ UNCHANGED <<fact, job, up, sent, dirty>>
  /\ SyncUnchanged

\* list_pending_with_deadline; what follows for these tasks is computed from
\* the rows read so far.
SyncTasks ==
  /\ sync.pc = "tasks"
  /\ sync' = [sync EXCEPT
       !.pc = "repair",
       !.make = UNION {{[task |-> t, type |-> d.type, trigger |-> d.trigger] :
                          d \in MissingOf(t)} : t \in Relevant},
       !.drop = UNION {ActiveOf(t) \ KeptOf(t) : t \in Relevant},
       !.odd = {t \in TaskIds \ Relevant : ActiveOf(t) # {}}]
  /\ UNCHANGED <<fact, job, up, sent, dirty>>
  /\ SyncUnchanged

\* A task deleted meanwhile raises and ends the resync, as in SyncDrop.
SyncCreate ==
  /\ sync.pc = "repair"
  /\ \E m \in sync.make, r \in FactIds :
       /\ IF task[m.task] = NoTask
            THEN sync' = [NoSync EXCEPT !.now = sync.now] /\ UNCHANGED <<fact, sent>>
            ELSE /\ CreateFact(r, m.task, m)
                 /\ sync' = [sync EXCEPT !.make = @ \ {m}]
  /\ UNCHANGED <<job, up, dirty>>
  /\ SyncUnchanged

\* Mutant: the stale fact stays on the list of those to cancel.
SyncDropAgain ==
  /\ sync.pc = "repair"
  /\ \E r \in sync.drop :
       /\ \A m \in sync.make : m.task # sync.rows[r].task
       /\ Mark(r, "cancelled")
       /\ sync' = sync
  /\ UNCHANGED <<job, up, sent, dirty>>
  /\ SyncUnchanged

\* mark_cancelled of a stale fact, after the creates of its task.  A row
\* deleted meanwhile raises and ends the resync (only a restore can see it).
SyncDrop ==
  /\ sync.pc = "repair"
  /\ \E r \in sync.drop :
       /\ \A m \in sync.make : m.task # sync.rows[r].task
       /\ IF fact[r] = NoFact
            THEN sync' = [NoSync EXCEPT !.now = sync.now] /\ UNCHANGED fact
            ELSE /\ Mark(r, "cancelled")
                 /\ sync' = [sync EXCEPT !.drop = @ \ {r}]
  /\ UNCHANGED <<job, up, sent, dirty>>
  /\ SyncUnchanged

\* The tasks that own active facts but were not in the list are read again.
SyncOdd(t) ==
  /\ sync.pc = "repair"
  /\ sync.make = {} /\ sync.drop = {}
  /\ t \in sync.odd
  /\ sync' = [sync EXCEPT !.odd = @ \ {t},
                          !.drop = IF t \in Relevant THEN {} ELSE ActiveOf(t)]
  /\ UNCHANGED <<fact, job, up, sent, dirty>>
  /\ SyncUnchanged

\* list_scheduled again: the survivors.
SyncSurvivors ==
  /\ sync.pc = "repair"
  /\ sync.make = {} /\ sync.drop = {} /\ sync.odd = {}
  /\ sync' = [sync EXCEPT !.pc = "install",
                          !.rows = [r \in FactIds |->
                                      IF r \in Scheduled(fact) THEN fact[r]
                                                               ELSE NoFact]]
  /\ UNCHANGED <<fact, job, up, sent, dirty>>
  /\ SyncUnchanged

Missed(r) == sync.rows[r] # NoFact /\ sync.rows[r].trigger <= sync.now

\* A survivor whose time has passed is closed, never delivered late.
SyncPast ==
  /\ sync.pc = "install"
  /\ \E r \in FactIds :
       /\ Missed(r)
       /\ IF fact[r] = NoFact
            THEN sync' = [NoSync EXCEPT !.now = sync.now] /\ UNCHANGED fact
            ELSE /\ Mark(r, "cancelled")
                 /\ sync' = [sync EXCEPT !.rows[r] = NoFact]
  /\ UNCHANGED <<job, up, sent, dirty>>
  /\ SyncUnchanged

\* The others are scheduled: no call in that part of the loop suspends.  At
\* startup the scheduler is started next.
SyncInstall ==
  /\ sync.pc = "install"
  /\ \A r \in FactIds : ~Missed(r)
  /\ job' = [r \in FactIds |-> IF sync.rows[r] # NoFact THEN sync.rows[r].trigger
                                                        ELSE job[r]]
  /\ sync' = [NoSync EXCEPT !.now = sync.now]
  /\ up' = "running"
  /\ UNCHANGED <<fact, sent, dirty>>
  /\ SyncUnchanged

-----------------------------------------------------------------------------
(* SystemService, the process and the clock. *)

\* create_backup, taken as one reading of the tables.  (A bound: one backup.)
Backup ==
  /\ up = "running"
  /\ left.restores > 0
  /\ backup = NoBackup
  /\ backup' = [task |-> task, fact |-> fact]
  /\ UNCHANGED <<tables, job, now, up, op, sync, fire, cancel, ghosts, left>>

\* restore: every table replaced in one transaction, without TaskService's
\* lock, then resync_all.
Restore ==
  /\ up = "running"
  /\ left.restores > 0
  /\ sync.pc = "idle"
  /\ task' = backup.task
  /\ fact' = backup.fact
  /\ sent' = [r \in FactIds |-> 0]
  /\ fire' = [r \in FactIds |-> [fire[r] EXCEPT !.own = FALSE]]
  /\ sync' = [NoSync EXCEPT !.pc = "clear"]
  /\ left' = [left EXCEPT !.restores = @ - 1]
  /\ UNCHANGED <<job, now, up, op, cancel, backup, told, dirty>>

\* The process dies between two transactions (a graceful stop leaves the
\* tables no better): the tables stay, the rest is gone.
Crash ==
  /\ up # "down"
  /\ left.crashes > 0
  /\ up' = "down"
  /\ job' = NoJobs
  /\ op' = NoOp
  /\ sync' = NoSync
  /\ fire' = [r \in FactIds |-> NoFire]
  /\ cancel' = NoCancel
  /\ left' = [left EXCEPT !.crashes = @ - 1]
  /\ UNCHANGED <<tables, now, backup, ghosts>>

\* CampusRuntime.start: a new scheduler, stopped, and the resync before it.
Start ==
  /\ up = "down"
  /\ up' = "starting"
  /\ sync' = [NoSync EXCEPT !.pc = "clear"]
  /\ UNCHANGED <<tables, job, now, op, fire, cancel, backup, ghosts, left>>

Tick ==
  /\ now < MaxTime
  /\ now' = now + 1
  /\ UNCHANGED <<tables, job, up, op, sync, fire, cancel, backup, ghosts, left>>

-----------------------------------------------------------------------------

Mutation ==
  \/ \E t \in TaskIds :
       \/ \E deadline \in MaybeDeadline :
            \/ \E status \in TaskStatus : CreateTask(t, status, deadline)
            \/ ChangeDeadline(t, deadline)
            \/ UpdateTask(t, deadline)
       \/ \E row \in TaskRow : UpdateManualTask(t, row)
       \/ \E status \in TaskStatus : CloseTask(t, status)
       \/ DeleteTask(t)

OpStep ==
  \/ PlanCancel \/ PlanCreate \/ PlanList \/ PlanInstall
  \/ CancelFacts \/ CancelJobs
  \/ DeleteCancel \/ DeleteJobs \/ DeleteFacts \/ DeleteRow

CancelStep == CancelMark \/ CancelUnschedule

FireStep(r) ==
  \/ FireRead(r) \/ FireTask(r) \/ FireClose(r) \/ FireMark(r)
  \/ FireDeliver(r) \/ FireError(r)

SyncStep ==
  \/ SyncClear \/ SyncFacts \/ SyncTasks \/ SyncCreate \/ SyncDrop
  \/ \E t \in TaskIds : SyncOdd(t)
  \/ SyncSurvivors \/ SyncPast \/ SyncInstall

Next ==
  \/ Mutation
  \/ OpStep
  \/ AbortOp
  \/ \E r \in FactIds : CancelRead(r)
  \/ CancelStep
  \/ \E r \in FactIds : JobRun(r) \/ JobMissed(r) \/ FireStep(r)
  \/ SyncStep
  \/ Backup
  \/ Restore
  \/ Crash
  \/ Start
  \/ Tick

Spec == Init /\ [][Next]_vars

\* The event loop runs what is ready and every await ends; users, crashes
\* and restarts owe nothing, and the clock goes on.
Fairness ==
  /\ WF_vars(OpStep)
  /\ WF_vars(CancelStep)
  /\ WF_vars(SyncStep)
  /\ \A r \in FactIds : WF_vars(FireStep(r)) /\ WF_vars(JobRun(r) \/ JobMissed(r))
  /\ WF_vars(Tick)

FairSpec == Spec /\ Fairness

-----------------------------------------------------------------------------
(* Properties that are also proved, for every value of the constants.      *)

OpPc == {"idle", "plan", "create", "install", "cancel", "unschedule",
         "delete_cancel", "delete_jobs", "delete_facts", "delete_task"}
SyncPc == {"idle", "clear", "facts", "tasks", "repair", "install"}
FirePc == {"idle", "wait", "task", "close", "mark", "deliver", "error"}
Left == {"ops", "deletes", "aborts", "cancels", "crashes", "restores"}

TaskRows == {NoTask} \cup TaskRow
FactRows == {NoFact} \cup Fact
FactTables == [FactIds -> FactRows]
JobStores == [FactIds -> {None} \cup Nat]
DesiredReminder == [type : ReminderType, trigger : Nat]
Slots == [task : TaskIds, type : ReminderType, trigger : Nat]

OpRecords == [pc : OpPc, task : {0} \cup TaskIds, row : TaskRows,
              todo : SUBSET DesiredReminder, snap : JobStores]
SyncRecords == [pc : SyncPc, now : Nat, rows : FactTables, make : SUBSET Slots,
                drop : SUBSET FactIds, odd : SUBSET TaskIds]
FireRecords == [pc : FirePc, row : FactRows, own : BOOLEAN, stale : BOOLEAN]
CancelRecords == [pc : {"idle", "mark", "unschedule"}, id : {0} \cup FactIds]
Backups == [task : [TaskIds -> TaskRows], fact : FactTables]

\* The type of every variable.
TypeOK ==
  /\ task \in [TaskIds -> TaskRows]
  /\ fact \in FactTables
  /\ job \in JobStores
  /\ now \in Nat
  /\ up \in {"down", "starting", "running"}
  /\ op \in OpRecords
  /\ op.pc # "idle" => op.task \in TaskIds
  /\ sync \in SyncRecords
  /\ fire \in [FactIds -> FireRecords]
  /\ \A r \in FactIds : fire[r].pc = "deliver" => fire[r].row # NoFact
  /\ cancel \in CancelRecords
  /\ cancel.pc # "idle" => cancel.id \in FactIds
  /\ backup \in Backups
  /\ sent \in [FactIds -> Nat]
  /\ told \subseteq Slots
  /\ dirty \subseteq TaskIds
  /\ left \in [Left -> Nat]

\* However mutations, cancels, crashes, restores and fire handlers interleave,
\* no reminder row is handed to the delivery twice: the claim (mark_fired) is
\* committed before the delivery, under the fire lock, and the status check of
\* fire() refuses a job that a replan installed again from a stale reading.
RowSentAtMostOnce == \A r \in FactIds : sent[r] <= 1

\* Until a restore, a job always stands for a present row and carries that
\* row's own time: a deletion leaves no job behind that a row created later
\* under the same id would inherit.
JobsMatchRows ==
  left.restores = MaxRestores =>
    \A r \in FactIds : job[r] # None =>
       fact[r] # NoFact /\ job[r] = fact[r].trigger

\* Until a restore, no two active rows stand for one slot: neither a replan,
\* nor the resync that repairs a plan a crash cut short, nor a cancel in the
\* middle of either creates a reminder twice.
NoDuplicateActive ==
  left.restores = MaxRestores =>
    \A r, q \in Scheduled(fact) : Slot(fact[r]) = Slot(fact[q]) => r = q

=============================================================================
