--------------------------- MODULE MCV1Reminders ----------------------------
(***************************************************************************)
(* Properties of V1Reminders that TLC checks on small instances.            *)
(***************************************************************************)
EXTENDS V1Reminders, TLC

\* Tasks are alike, and every property is a safety property.
Symmetry == Permutations(Tasks)

\* The process is up, nothing works on the task's schedule, and no job of it
\* waits to be started in this very instant.
AtRest(t) == /\ up /\ ~Worked(t)
             /\ \A j \in JobIds : job[j].t = t => ~Due(j)

Jobs(t) == {j \in live \intersect row : job[j].t = t}

\* The scheduler passed over the run of job j at its instant as too late.
Skipped(j) == fire[j].pc = "none" /\ next[j] > job[j].at

\* No job of a task that is done, and of one that is open none that its row
\* does not name, one an instant, for reminders still ahead or for runs that
\* were skipped.
NothingElse(t) ==
  IF Open(t)
  THEN /\ Jobs(t) \subseteq task[t].ids
       /\ \A i, j \in Jobs(t) : job[i].at = job[j].at => i = j
       /\ \A j \in Jobs(t) : job[j].at \in Planned(task[t].deadline) \/ Skipped(j)
  ELSE Jobs(t) = {}

\* What reminders.py:29-31 promises: the schedule is what the task implies,
\* and the row names exactly its jobs.
Agrees(t) ==
  /\ NothingElse(t)
  /\ Open(t) => /\ task[t].ids \subseteq Jobs(t)
                /\ \A at \in Planned(task[t].deadline) : \E j \in Jobs(t) : job[j].at = at

\* Whatever crashed in between, the schedule and the task disagree only about
\* tasks on whose schedule two coroutines worked at once since the last
\* resync that found the task unattended.  A task that lost reminders (beyond
\* the limit of that resync, or announced a year early) has no other ones.
AgreesUnlessMixed ==
  \A t \in Tasks \ mixed :
    AtRest(t) => NothingElse(t) /\ (t \notin lost => Agrees(t))

\* An instant of a task is announced once, then or later, through crashes in
\* the middle of the delivery, rebuilt schedules and skipped runs, unless two
\* coroutines worked on the task's schedule at once.
ToldOnceUnlessMixed ==
  \A t \in Tasks \ ever : \A at \in 0..MaxTime : told[t][at] <= 1

\* A pinned crontab fires again next year.  A job outlives its instant only
\* if its run was skipped: none whose handler ran does, whatever it found and
\* whichever coroutines overlapped.
OnlySkippedRecurs ==
  up => \A j \in live \intersect row :
          /\ fire[j].pc \in {"none", "send", "delete"}
          /\ job[j].at < now /\ fire[j].pc = "none" => Skipped(j)

-----------------------------------------------------------------------------
(* Claims of the code's own comments that it does not keep.                *)

\* reminders.py:29-31: the two can never disagree: no orphan job, no task
\* silently missing its reminder.
NeverDisagree == \A t \in Tasks : AtRest(t) => Agrees(t)

\* The same of tasks that one coroutine worked on at a time.
NeverLost == \A t \in Tasks \ mixed : AtRest(t) => Agrees(t)

\* reminders.py:39-41: a job that never fires is inert after a restart, and
\* one that does deletes itself; so none is left for next year.
NeverRecurs ==
  up => \A j \in live \intersect row :
          job[j].at < now => fire[j].pc \in {"send", "delete"}

\* routes.py:122-124: a notice entered twice does not get two sets of
\* reminders.
OneSetPerObligation ==
  \A t, u \in Tasks :
    t # u /\ Open(t) /\ Open(u) /\ task[t].deadline = task[u].deadline
      => Jobs(t) = {} \/ Jobs(u) = {}

=============================================================================
