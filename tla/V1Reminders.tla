---------------------------- MODULE V1Reminders -----------------------------
(***************************************************************************)
(* Reminders of CampusCue V1: campuscue/reminders.py on AstrBot's cron      *)
(* manager, with the routes, the extraction pipeline and the star that      *)
(* call it.  Nothing here takes a lock: every coroutine may run between any *)
(* two database calls of another.                                           *)
(*                                                                          *)
(* The tables survive a crash (task, row), the scheduler's jobs do not      *)
(* (live): they are registered persistent=False.  A coroutine co[c] is one  *)
(* request, one extraction or one resync; all of them end in                *)
(* schedule_for_task, which works on the snapshot of the task it was given. *)
(* fire[j] is the handler of job j.                                         *)
(*                                                                          *)
(* A job is a crontab pinned to a minute of the year, so that it runs at the *)
(* first instant that has its place in the year, and again a year later      *)
(* unless it is deleted: at once when it runs, and not at all when the       *)
(* scheduler finds it too late to run (SkipRun).                             *)
(*                                                                          *)
(* A tick is at least MIN_LEAD_SECONDS; requests and resyncs take less, a   *)
(* push may take longer.  All tasks belong to one umo.                      *)
(***************************************************************************)
EXTENDS Integers, FiniteSets, FiniteSetsExt, Functions

CONSTANTS
  Tasks,       \* ids a task can get; all stand for one notice with one title
  Requests,    \* coroutines of the HTTP API, the tools and the pipeline
  NoTask,      \* no task
  Boot,        \* the coroutine of the star that runs the startup resync
  Deadlines,   \* instants a deadline can be
  Leads,       \* reminders this long before the deadline; 0 is the last call
  Year,        \* length of a year
  Window,      \* DEDUP_WINDOW: how far back find_duplicate looks
  Limit,       \* how many open tasks list_tasks returns (200)
  ClosedLimit, \* and how many closed ones (1000)
  MaxTime,     \* bound: last instant
  MaxJobs,     \* bound: cron rows ever created
  MaxRequests, \* bound: creations, edits, deletions and changes of settings
  MaxCrashes   \* bound: crashes

ASSUME V1Assumption ==
  /\ NoTask \notin Tasks /\ Boot \notin Requests
  /\ IsFiniteSet(Tasks) /\ IsFiniteSet(Requests)
  /\ Deadlines \subseteq Nat /\ Leads \subseteq Nat /\ 0 \in Leads
  /\ Year \in Nat \ {0}
  /\ {Window, Limit, ClosedLimit, MaxTime, MaxJobs, MaxRequests, MaxCrashes} \subseteq Nat

VARIABLES
  now,     \* the clock
  up,      \* the process runs and the scheduler is bound
  task,    \* campus_tasks: state, deadline, created_at, reminder_job_ids
  row,     \* ids of the cron_jobs rows
  live,    \* jobs the scheduler holds
  next,    \* next_run_time of each of them
  job,     \* what each id ever given out was created for; 0 if unused
  co,      \* the coroutines
  fire,    \* the handlers
  told,    \* history: how often an instant of a task was pushed, then or later
  mixed,   \* history: tasks whose schedule two coroutines worked on at once,
           \* since a resync began that met nobody working on them
  ever,    \* history: tasks that were in mixed at some time
  lost,    \* history: tasks that lack reminders, since a resync swept what it
           \* did not list or a reminder ran a year early
  spent    \* requests and crashes so far

vars == <<now, up, task, row, live, next, job, co, fire, told, mixed, ever, lost,
          spent>>

Coroutines == Requests \union {Boot}
JobIds == 1..MaxJobs
Unused == [t |-> NoTask, at |-> 0]

\* A snapshot of a row of campus_tasks, as an ORM object keeps it.
Snap(t) == [t |-> t, open |-> task[t].state = "open",
            deadline |-> task[t].deadline, ids |-> task[t].ids]
NoSnap == [t |-> NoTask, open |-> FALSE, deadline |-> 0, ids |-> {}]

Idle == [pc |-> "idle", resync |-> FALSE, snap |-> NoSnap, left |-> {},
         made |-> {}, job |-> 0, todo |-> {}, owned |-> {}, sweep |-> {}]
NoFire == [pc |-> "none", ids |-> {}]

Open(t) == task[t].state = "open"
Present(t) == task[t].state \in {"open", "closed"}

Init ==
  /\ now = 0 /\ up = FALSE
  /\ task = [t \in Tasks |-> [state |-> "fresh", deadline |-> 0, born |-> 0, ids |-> {}]]
  /\ row = {} /\ live = {}
  /\ next = [j \in JobIds |-> 0]
  /\ job = [j \in JobIds |-> Unused]
  /\ co = [c \in Coroutines |-> Idle]
  /\ fire = [j \in JobIds |-> NoFire]
  /\ told = [t \in Tasks |-> [at \in 0..MaxTime |-> 0]]
  /\ mixed = {} /\ ever = {} /\ lost = {}
  /\ spent = [requests |-> 0, crashes |-> 0]

-----------------------------------------------------------------------------
(* History: who works on a task's schedule.                                *)

Schedules(c, t) == co[c].pc \notin {"idle", "insert"} /\
                   (co[c].resync \/ co[c].snap.t = t)
Fires(j, t) == job[j].t = t /\ fire[j].pc \in {"send", "delete", "drop"}
Worked(t) == (\E c \in Coroutines : Schedules(c, t)) \/ (\E j \in JobIds : Fires(j, t))

Overlap(S) == mixed' = mixed \union S /\ ever' = ever \union S
Touch(t) == Overlap(IF Worked(t) THEN {t} ELSE {})

-----------------------------------------------------------------------------
(* schedule_for_task                                                       *)

\* Mutant: plan_reminders without the minimum lead.
PlannedWithoutLead(deadline) ==
  {at \in 0..MaxTime : at >= now /\ \E l \in Leads : at + l = deadline}

\* plan_reminders: the leads still ahead, at least a tick away.
Planned(deadline) ==
  {at \in 0..MaxTime : at > now /\ \E l \in Leads : at + l = deadline}

\* Where schedule_for_task continues once the old jobs are gone: it reads the
\* settings and plans.  A plan without reminders writes nothing; only the
\* resync then resets the ids, and goes on to its next task.
Planning(r, s) ==
  LET planned == IF s.open THEN Planned(s.deadline) ELSE {} IN
  CASE planned # {} -> [r EXCEPT !.pc = "row", !.left = planned]
    [] planned = {} /\ r.resync -> [r EXCEPT !.pc = "reset"]
    [] OTHER -> Idle

Entered(c, s) ==
  LET r == [co[c] EXCEPT !.snap = s, !.made = {}] IN
  IF s.ids # {} THEN [r EXCEPT !.pc = "cancel"] ELSE Planning(r, s)

DeleteJob(j) == live' = live \ {j} /\ row' = row \ {j}
SetIds(t, ids) ==
  task' = IF Present(t) THEN [task EXCEPT ![t].ids = ids] ELSE task
Done(c) == IF co[c].resync THEN [co[c] EXCEPT !.pc = "next"] ELSE Idle
Goto(c, pc) == co' = [co EXCEPT ![c].pc = pc]

\* Deletes the jobs the snapshot names, whatever the row names by now.
Cancel(c) ==
  /\ co[c].pc = "cancel"
  /\ LET j == Min(co[c].snap.ids) IN
       /\ DeleteJob(j)
       /\ co' = [co EXCEPT ![c].snap.ids = @ \ {j},
                           ![c].pc = IF co[c].snap.ids = {j} THEN "clear" ELSE @]
  /\ UNCHANGED <<now, up, task, next, job, fire, told, mixed, ever, lost, spent>>

Clear(c) ==
  /\ co[c].pc = "clear"
  /\ SetIds(co[c].snap.t, {})
  /\ co' = [co EXCEPT ![c] = Planning(@, @.snap)]
  /\ UNCHANGED <<now, up, row, live, next, job, fire, told, mixed, ever, lost, spent>>

Reset(c) ==
  /\ co[c].pc = "reset"
  /\ SetIds(co[c].snap.t, {})
  /\ Goto(c, "next")
  /\ UNCHANGED <<now, up, row, live, next, job, fire, told, mixed, ever, lost, spent>>

\* add_basic_job: the row is committed, and only then is the job scheduled.
InsertRow(c) ==
  /\ co[c].pc = "row"
  /\ \E j \in JobIds :
       /\ job[j] = Unused /\ \A i \in 1..(j - 1) : job[i] # Unused
       /\ job' = [job EXCEPT ![j] = [t |-> co[c].snap.t, at |-> Min(co[c].left)]]
       /\ row' = row \union {j}
       /\ co' = [co EXCEPT ![c].pc = "arm", ![c].job = j]
  /\ UNCHANGED <<now, up, task, live, next, fire, told, mixed, ever, lost, spent>>

\* _crontab_for: minute, hour, day and month without a year.  CronTrigger
\* takes the next instant that has them.
NextRun(at) == now + 1 + ((at - (now + 1)) % Year)

Arm(c) ==
  /\ co[c].pc = "arm"
  /\ LET j == co[c].job
         rest == co[c].left \ {job[j].at} IN
       /\ live' = live \union {j}
       /\ next' = [next EXCEPT ![j] = NextRun(job[j].at)]
       /\ co' = [co EXCEPT ![c].left = rest, ![c].job = 0,
                           ![c].made = @ \union {j},
                           ![c].pc = IF rest = {} THEN "store" ELSE "row"]
  /\ UNCHANGED <<now, up, task, row, job, fire, told, mixed, ever, lost, spent>>

Store(c) ==
  /\ co[c].pc = "store"
  /\ SetIds(co[c].snap.t, co[c].made)
  /\ co' = [co EXCEPT ![c] = Done(c)]
  /\ UNCHANGED <<now, up, row, live, next, job, fire, told, mixed, ever, lost, spent>>

ScheduleForTask(c) ==
  Cancel(c) \/ Clear(c) \/ Reset(c) \/ InsertRow(c) \/ Arm(c) \/ Store(c)

-----------------------------------------------------------------------------
(* Requests, tools and extractions                                         *)

Free(c) == up /\ c \in Requests /\ co[c].pc = "idle" /\ spent.requests < MaxRequests
Asked == spent' = [spent EXCEPT !.requests = @ + 1]

\* find_duplicate: a recent task with this title and deadline, of whatever
\* status.
Twin(d) == \E t \in Tasks : Present(t) /\ task[t].deadline = d
                           /\ now - Window <= task[t].born

\* The search for a duplicate and the insertion are two transactions.
Check(c) ==
  /\ Free(c) /\ Asked
  /\ \E d \in Deadlines :
       /\ ~Twin(d)
       /\ co' = [co EXCEPT ![c] = [Idle EXCEPT !.pc = "insert", !.snap.deadline = d]]
  /\ UNCHANGED <<now, up, task, row, live, next, job, fire, told, mixed, ever, lost>>

Insert(c) ==
  /\ co[c].pc = "insert"
  /\ \E t \in Tasks :
       /\ task[t].state = "fresh"
       /\ task' = [task EXCEPT ![t] = [state |-> "open", ids |-> {}, born |-> now,
                                       deadline |-> co[c].snap.deadline]]
       /\ co' = [co EXCEPT ![c] = Entered(c, [co[c].snap EXCEPT !.t = t, !.open = TRUE])]
       /\ Touch(t) /\ lost' = lost \ {t}
  /\ UNCHANGED <<now, up, row, live, next, job, fire, told, spent>>

\* Mutant: plans for the row as it was before the commit.
EditOfOld(c) ==
  /\ Free(c) /\ Asked
  /\ \E t \in Tasks, state \in {"open", "closed"}, d \in Deadlines :
       /\ Present(t)
       /\ task' = [task EXCEPT ![t].state = state, ![t].deadline = d]
       /\ co' = [co EXCEPT ![c] = Entered(c, Snap(t))]
       /\ Touch(t) /\ lost' = lost \ {t}
  /\ UNCHANGED <<now, up, row, live, next, job, fire, told>>

\* PATCH, confirm, complete, dismiss, restore and the tools: one commit that
\* returns the row, then schedule_for_task on what it returned.
Edit(c) ==
  /\ Free(c) /\ Asked
  /\ \E t \in Tasks, state \in {"open", "closed"}, d \in Deadlines :
       /\ Present(t)
       /\ task' = [task EXCEPT ![t].state = state, ![t].deadline = d]
       /\ co' = [co EXCEPT ![c] = Entered(c,
            [t |-> t, open |-> state = "open", deadline |-> d, ids |-> task[t].ids])]
       /\ Touch(t) /\ lost' = lost \ {t}
  /\ UNCHANGED <<now, up, row, live, next, job, fire, told>>

\* delete_source: the rows first, then the jobs they named.
Remove(c) ==
  /\ Free(c) /\ Asked
  /\ \E t \in Tasks :
       /\ Present(t)
       /\ task' = [task EXCEPT ![t] = [state |-> "gone", deadline |-> 0, born |-> 0, ids |-> {}]]
       /\ co' = [co EXCEPT ![c] = Entered(c, [Snap(t) EXCEPT !.open = FALSE])]
       /\ Touch(t) /\ lost' = lost \ {t}
  /\ UNCHANGED <<now, up, row, live, next, job, fire, told>>

-----------------------------------------------------------------------------
(* resync_all                                                              *)

\* resync_all(): it sweeps every row, and repairs every task that nobody works
\* on now; the others keep their mark.
BeginResync(c) ==
  /\ co' = [co EXCEPT ![c] = [Idle EXCEPT !.pc = "tasks", !.resync = TRUE, !.owned = Tasks]]
  /\ LET busy == {t \in Tasks : Worked(t)} IN
       mixed' = busy /\ ever' = ever \union busy

\* The switch of the reminders.
Resync(c) ==
  /\ Free(c) /\ Asked
  /\ BeginResync(c)
  /\ UNCHANGED <<now, up, task, row, live, next, job, fire, told, lost>>

\* resync_all(umo), after a change of the lead times: it sweeps the rows of
\* the tasks it lists.
ResyncUmo(c) ==
  /\ Free(c) /\ Asked
  /\ co' = [co EXCEPT ![c] = [Idle EXCEPT !.pc = "own", !.resync = TRUE]]
  /\ Overlap({t \in Tasks : Worked(t)})
  /\ UNCHANGED <<now, up, task, row, live, next, job, fire, told, lost>>

\* What list_tasks may return of S: at most n, the soonest deadlines first.
Soonest(S, n) ==
  {R \in SUBSET S : /\ Cardinality(R) = Min({n, Cardinality(S)})
                    /\ \A t \in R, u \in S \ R : task[t].deadline <= task[u].deadline}

\* An open task that is not listed is not planned for; resync_all() sweeps its
\* rows all the same.
ListTasks(c) ==
  /\ co[c].pc \in {"tasks", "own"}
  /\ \E R \in Soonest({t \in Tasks : Open(t)}, Limit) :
       /\ co' = [co EXCEPT ![c].todo = {Snap(t) : t \in R},
                           ![c].owned = @ \union R,
                           ![c].pc = IF @ = "tasks" THEN "rows" ELSE "closed"]
       /\ lost' = IF co[c].pc = "tasks" THEN {t \in Tasks : Open(t)} \ R ELSE lost \ R
  /\ UNCHANGED <<now, up, task, row, live, next, job, fire, told, mixed, ever, spent>>

ListClosed(c) ==
  /\ co[c].pc = "closed"
  /\ \E R \in Soonest({t \in Tasks : Present(t) /\ ~Open(t)}, ClosedLimit) :
       co' = [co EXCEPT ![c].owned = @ \union R, ![c].pc = "rows"]
  /\ UNCHANGED <<now, up, task, row, live, next, job, fire, told, mixed, ever, lost, spent>>

ListRows(c) ==
  /\ co[c].pc = "rows"
  /\ LET swept == {j \in row : job[j].t \in co[c].owned} IN
       co' = [co EXCEPT ![c].sweep = swept, ![c].pc = IF swept = {} THEN "next" ELSE "sweep"]
  /\ UNCHANGED <<now, up, task, row, live, next, job, fire, told, mixed, ever, lost, spent>>

\* The newest row first, as list_cron_jobs orders them.
Sweep(c) ==
  /\ co[c].pc = "sweep"
  /\ \E j \in co[c].sweep :
       /\ \A i \in co[c].sweep : i <= j
       /\ DeleteJob(j)
       /\ co' = [co EXCEPT ![c].sweep = @ \ {j},
                           ![c].pc = IF co[c].sweep = {j} THEN "next" ELSE @]
  /\ UNCHANGED <<now, up, task, next, job, fire, told, mixed, ever, lost, spent>>

NextTask(c) ==
  /\ co[c].pc = "next"
  /\ IF co[c].todo = {} THEN co' = [co EXCEPT ![c] = Idle]
     ELSE \E s \in co[c].todo :
            co' = [co EXCEPT ![c] = [Entered(c, s) EXCEPT !.todo = @ \ {s}]]
  /\ UNCHANGED <<now, up, task, row, live, next, job, fire, told, mixed, ever, lost, spent>>

ResyncAll(c) == ListTasks(c) \/ ListClosed(c) \/ ListRows(c) \/ Sweep(c) \/ NextTask(c)

-----------------------------------------------------------------------------
(* _run_job and _fire                                                      *)

Due(j) == j \in live /\ next[j] = now /\ fire[j].pc = "none"

\* The scheduler took it from the crontab: the next run is a year later.
Started(j) == next' = [next EXCEPT ![j] = @ + Year]

\* The scheduler gets to it more than misfire_grace_time late (the loop was
\* blocked, the host was asleep): this run is skipped.
SkipRun(j) ==
  /\ up /\ Due(j)
  /\ Started(j)
  /\ UNCHANGED <<now, up, task, row, live, job, co, fire, told, mixed, ever, lost, spent>>

\* Mutant: a handler that finds the task closed returns early.
LoadReturning(j) ==
  /\ up /\ Due(j)
  /\ Started(j)
  /\ LET t == job[j].t IN
       /\ fire' = [fire EXCEPT ![j] =
            IF j \notin row \/ ~Open(t) THEN [@ EXCEPT !.pc = "done"]
            ELSE [pc |-> "send", ids |-> task[t].ids]]
       /\ IF j \in row THEN Touch(t) ELSE Overlap({})
       /\ lost' = IF j \in row /\ job[j].at > now THEN lost \union {t} ELSE lost
  /\ UNCHANGED <<now, up, task, row, live, job, co, told, spent>>

\* The row, its handler and the task are read.  A job whose row is gone ends
\* here; a task that is closed or gone is skipped, and the job still deletes
\* itself.
Load(j) ==
  /\ up /\ Due(j)
  /\ Started(j)
  /\ LET t == job[j].t IN
       /\ fire' = [fire EXCEPT ![j] =
            IF j \notin row THEN [@ EXCEPT !.pc = "done"]
            ELSE [pc |-> IF Open(t) THEN "send" ELSE "delete", ids |-> task[t].ids]]
       /\ IF j \in row THEN Touch(t) ELSE Overlap({})
       /\ lost' = IF j \in row /\ job[j].at > now THEN lost \union {t} ELSE lost
  /\ UNCHANGED <<now, up, task, row, live, job, co, told, spent>>

\* send_message; whether the platform took it or not, the job goes on.
Send(j) ==
  /\ fire[j].pc = "send"
  /\ fire' = [fire EXCEPT ![j].pc = "delete"]
  /\ told' = IF job[j].at <= now
             THEN [told EXCEPT ![job[j].t][job[j].at] = Min({@ + 1, 2})] ELSE told
  /\ UNCHANGED <<now, up, task, row, live, next, job, co, mixed, ever, lost, spent>>

SelfDelete(j) ==
  /\ fire[j].pc = "delete"
  /\ DeleteJob(j)
  /\ fire' = [fire EXCEPT ![j].pc = "drop"]
  /\ UNCHANGED <<now, up, task, next, job, co, told, mixed, ever, lost, spent>>

\* reminder_job_ids is written from the snapshot read before the push.
Drop(j) ==
  /\ fire[j].pc = "drop"
  /\ SetIds(job[j].t, fire[j].ids \ {j})
  /\ fire' = [fire EXCEPT ![j] = [NoFire EXCEPT !.pc = "done"]]
  /\ UNCHANGED <<now, up, row, live, next, job, co, told, mixed, ever, lost, spent>>

Handler(j) == SkipRun(j) \/ Load(j) \/ Send(j) \/ SelfDelete(j) \/ Drop(j)

-----------------------------------------------------------------------------
(* The process and the clock                                               *)

Crash ==
  /\ up /\ spent.crashes < MaxCrashes
  /\ up' = FALSE /\ live' = {}
  /\ co' = [c \in Coroutines |-> Idle]
  /\ fire' = [j \in JobIds |-> [NoFire EXCEPT !.pc = IF job[j] = Unused THEN "none" ELSE "done"]]
  /\ spent' = [spent EXCEPT !.crashes = @ + 1]
  /\ UNCHANGED <<now, task, row, next, job, told, mixed, ever, lost>>

\* bind_scheduler: bound, and the resync spawned.
Bind ==
  /\ ~up
  /\ up' = TRUE
  /\ BeginResync(Boot)
  /\ UNCHANGED <<now, task, row, live, next, job, fire, told, lost, spent>>

Tick ==
  /\ now < MaxTime
  /\ \A c \in Coroutines : co[c].pc = "idle"
  /\ \A j \in JobIds : ~Due(j)
  /\ now' = now + 1
  /\ UNCHANGED <<up, task, row, live, next, job, co, fire, told, mixed, ever, lost, spent>>

Next ==
  \/ \E c \in Coroutines :
       \/ ScheduleForTask(c) \/ ResyncAll(c) \/ Resync(c) \/ ResyncUmo(c)
       \/ Check(c) \/ Insert(c) \/ Edit(c) \/ Remove(c)
  \/ \E j \in JobIds : Handler(j)
  \/ Crash \/ Bind \/ Tick

Spec == Init /\ [][Next]_vars

=============================================================================
