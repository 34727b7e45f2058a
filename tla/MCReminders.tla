---------------------------- MODULE MCReminders -----------------------------
(***************************************************************************)
(* Properties of Reminders that TLC checks on small instances.             *)
(***************************************************************************)
EXTENDS Reminders

AtRest == /\ up = "running" /\ op.pc = "idle" /\ sync.pc = "idle"
          /\ cancel.pc = "idle"

\* No row was deleted or replaced yet, so that an id still names the row it
\* was given to: SQLite gives the ids of deleted rows out again.
IdsLast == left.deletes = MaxDeletes /\ left.restores = MaxRestores

\* What the policy would plan for a task at this very moment, less a reminder
\* that has its minute only because one that goes before it came too near.
Owed(t) ==
  {d \in PlanDesiredReminders(task[t].status, task[t].deadline, now) :
     \A e \in Folded(task[t].deadline) :
       SameMinute(d.trigger, e.trigger) => Precedence(d.type) <= Precedence(e.type)}

\* Whenever no mutation and no resync is under way, every reminder the policy
\* would plan now for a task exists, active and with its job, unless the
\* task's last mutation was cut short or the user cancelled the reminder since.
Covered ==
  AtRest /\ IdsLast => \A t \in TaskIds \ dirty : \A d \in Owed(t) : \E r \in FactIds :
     /\ Slot(fact[r]) = [task |-> t, type |-> d.type, trigger |-> d.trigger]
     /\ fact[r].status = "scheduled"
     /\ job[r] = d.trigger

\* The step in which the message of reminder r leaves the process.
Delivers(r) == sent'[r] > sent[r]

\* A (task, type, time) is announced once, whatever rows stood for it: a
\* restart or a replan never announces again what was announced before.
SlotToldOnce ==
  [][IdsLast => \A r \in FactIds : Delivers(r) => Slot(fire[r].row) \notin told]_vars

\* A handler started when its reminder or its task was already closed, in
\* the database, never delivers, unless a write left its task pending
\* meanwhile (it was reopened, or another field of it was changed).
ClosedIsSilent ==
  [][IdsLast => \A r \in FactIds : Delivers(r) => ~fire[r].stale]_vars

\* When the startup resync hands over to the scheduler, the active rows are
\* exactly the plans of the tasks at the resync's instant, and the jobs
\* exactly the active rows.
ActiveSlots(rows) == {Slot(rows[r]) : r \in Scheduled(rows)}
PlannedSlots ==
  UNION {{[task |-> t, type |-> d.type, trigger |-> d.trigger] :
            d \in DesiredOf(t)} : t \in TaskIds}
ResyncExact ==
  [][up = "starting" /\ up' = "running" =>
       /\ ActiveSlots(fact') = PlannedSlots
       /\ \A r \in FactIds :
            job'[r] = IF r \in Scheduled(fact) THEN fact[r].trigger ELSE None]_vars

\* TaskService's lock is always let go, and every handler ends and lets the
\* fire lock go, whatever rows disappear under them.
LocksAreReleased ==
  /\ op.pc # "idle" ~> op.pc = "idle"
  /\ \A r \in FactIds : fire[r].pc # "idle" ~> fire[r].pc = "idle"

\* A resync always ends, at startup and after a restore, even when a mutation
\* deletes rows it has read.
ResyncEnds == sync.pc # "idle" ~> sync.pc = "idle"

-----------------------------------------------------------------------------
(* Claims of the documents that the code does not keep.                    *)

\* docs/v2/10_REMINDER.md:28: a fire reads the latest state again and skips what
\* is completed, dismissed or deleted.  Said, as ClosedIsSilent is, of what was
\* closed when the handler started, but also after a deletion.
ClosedNeverDelivers ==
  [][\A r \in FactIds : Delivers(r) => ~fire[r].stale]_vars

\* docs/v2/10_REMINDER.md:24: a task without a deadline has no reminders.  Said
\* only of pending tasks, whose reminders fire() would deliver.
NoDeadlineNoReminder ==
  AtRest => \A r \in Scheduled(fact) :
     task[fact[r].task].status = "pending" => task[fact[r].task].deadline # None

\* reminder_service.py:207-218: an unchanged task keeps its active rows
\* through a resync.
StableThroughResync ==
  [][\A r \in Scheduled(fact) :
       /\ sync.pc # "idle" /\ op.pc = "idle"
       /\ fact[r].trigger > now
       /\ fact[r].task \in Relevant
       /\ [type |-> fact[r].type, trigger |-> fact[r].trigger]
            \in Folded(task[fact[r].task].deadline)
       => fact'[r].status = "scheduled"]_vars

=============================================================================
