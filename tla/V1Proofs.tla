------------------------------ MODULE V1Proofs ------------------------------
(***************************************************************************)
(* Proofs about V1Reminders, for any number of tasks, coroutines, leads,   *)
(* jobs and crashes.  Nothing takes a lock.                                *)
(*                                                                         *)
(* Inv: only a job whose run was skipped outlives its instant, however the *)
(* coroutines overlap.  GoodSpecInv: the schedule of a task on which no    *)
(* two of them overlapped is right, and announced once.                    *)
(***************************************************************************)
EXTENDS MCV1Reminders, FiniteSetTheorems, TLAPS

TaskRecord == [state : {"fresh", "open", "closed", "gone"}, deadline : Nat,
               born : Nat, ids : SUBSET Nat]

Snaps == [t : Tasks \union {NoTask}, open : BOOLEAN, deadline : Nat, ids : SUBSET Nat]

Places == {"idle", "insert", "cancel", "clear", "row", "arm", "store", "reset",
           "tasks", "own", "closed", "rows", "sweep", "next"}

TaskSnaps == {s \in Snaps : s.t \in Tasks}

CoRecord == [pc : Places, resync : BOOLEAN, snap : Snaps, left : SUBSET Nat,
             made : SUBSET Nat, job : Nat, todo : SUBSET TaskSnaps,
             owned : SUBSET Tasks, sweep : SUBSET Nat]

\* What the proof needs of the types.
TypeInv ==
  /\ now \in Nat
  /\ task \in [Tasks -> TaskRecord]
  /\ next \in [JobIds -> Nat]
  /\ job \in [JobIds -> [t : Tasks, at : Nat] \union {Unused}]
  /\ co \in [Coroutines -> CoRecord]
  /\ fire \in [JobIds -> [pc : {"none", "send", "delete", "drop", "done"},
                         ids : SUBSET Nat]]
  /\ live \subseteq JobIds /\ row \subseteq JobIds

\* What a coroutine has still to schedule is ahead, and of a task.
AheadOf(r) ==
  /\ r.pc \in {"row", "arm"} => \A at \in r.left : at > now
  /\ r.pc = "row" => r.left # {}
  /\ r.pc \in {"cancel", "clear", "row", "arm"} => r.snap.t \in Tasks

AheadInv == \A c \in Coroutines : AheadOf(co[c])

\* A job that was inserted and is not armed yet is ahead, belongs to one
\* coroutine and was never started.
ArmInv ==
  \A c \in Coroutines : co[c].pc = "arm" =>
    /\ co[c].job \in JobIds /\ job[co[c].job] # Unused
    /\ job[co[c].job].at > now
    /\ co[c].job \notin live /\ fire[co[c].job].pc = "none"
    /\ \A d \in Coroutines : co[d].pc = "arm" /\ co[d].job = co[c].job => d = c

\* An id that was not given out yet is neither armed nor fired.
UnusedInv ==
  \A j \in JobIds : job[j] = Unused => j \notin live /\ fire[j].pc = "none"

\* A job the scheduler and the table both have is waiting for its next run, or
\* its handler has not deleted it yet.
FireInv ==
  \A j \in live \intersect row :
    /\ fire[j].pc \in {"none", "send", "delete"}
    /\ fire[j].pc = "none" => next[j] >= now

Inv == TypeInv /\ AheadInv /\ ArmInv /\ UnusedInv /\ FireInv

-----------------------------------------------------------------------------
(* Operators                                                               *)

LEMMA SmallestIsIn ==
  ASSUME NEW S, S \subseteq Nat, S # {}
  PROVE  Min(S) \in S
<1> DEFINE R == {ss \in Nat \X Nat : ss[1] < ss[2]}
<1>1. OpToRel(<, Nat) = R
  BY Zenon DEF OpToRel
<1>2. IsWellFoundedOn(R, Nat)
  BY <1>1, NatLessThanWellFounded, Zenon
<1>3. \A x, y \in Nat : <<y, x>> \in R <=> y < x
  OBVIOUS
<1> HIDE DEF R
<1>4. PICK x \in S : \A y \in S : ~(<<y, x>> \in R)
  BY <1>2, WFMin
<1>5. ASSUME NEW y \in S PROVE x <= y
  <2>1. x \in Nat /\ y \in Nat
    OBVIOUS
  <2>2. ~(y < x)
    BY <1>3, <1>4, <2>1
  <2> QED
    BY <2>1, <2>2
<1> QED
  BY <1>5 DEF Min

LEMMA PlannedIsAhead ==
  ASSUME TypeInv, NEW d
  PROVE  Planned(d) \subseteq Nat /\ \A at \in Planned(d) : at > now
BY V1Assumption DEF Planned

\* The next instant with the same place in the year is ahead.
LEMMA NextRunIsAhead ==
  ASSUME TypeInv, NEW at \in Nat
  PROVE  NextRun(at) \in Nat /\ NextRun(at) > now
<1>1. (at - (now + 1)) % Year \in 0..(Year - 1)
  BY V1Assumption DEF TypeInv
<1> QED
  BY <1>1, V1Assumption DEF NextRun, TypeInv

LEMMA IdleIsRecord == /\ NoSnap \in Snaps /\ Idle \in CoRecord
                      /\ Idle.pc = "idle" /\ Unused.at = 0
BY DEF NoSnap, Snaps, Idle, CoRecord, Places, Unused

\* A coroutine never leaves a place of schedule_for_task with less than this.
Calm(r) == r \in CoRecord /\ r.pc # "arm" /\ AheadOf(r)

LEMMA PlanningIsCalm ==
  ASSUME TypeInv, NEW r \in CoRecord, NEW s \in TaskSnaps, r.snap = s
  PROVE  Calm(Planning(r, s))
<1> DEFINE planned == IF s.open THEN Planned(s.deadline) ELSE {}
<1>1. planned \subseteq Nat /\ \A at \in planned : at > now
  BY PlannedIsAhead
<1> HIDE DEF planned
<1>2. Planning(r, s) = CASE planned # {} -> [r EXCEPT !.pc = "row", !.left = planned]
                         [] planned = {} /\ r.resync -> [r EXCEPT !.pc = "reset"]
                         [] OTHER -> Idle
  BY DEF Planning, planned
<1>3. CASE planned # {}
  <2>1. Planning(r, s) = [r EXCEPT !.pc = "row", !.left = planned]
    BY <1>2, <1>3
  <2> QED
    BY <1>1, <1>3, <2>1 DEF Calm, CoRecord, Places, AheadOf, TaskSnaps
<1>4. CASE planned = {} /\ r.resync
  <2>1. Planning(r, s) = [r EXCEPT !.pc = "reset"]
    BY <1>2, <1>4
  <2> QED
    BY <2>1 DEF Calm, CoRecord, Places, AheadOf
<1>5. CASE planned = {} /\ ~r.resync
  <2>1. Planning(r, s) = Idle
    BY <1>2, <1>5
  <2> QED
    BY <2>1, IdleIsRecord DEF Calm, AheadOf
<1> QED
  BY <1>3, <1>4, <1>5

LEMMA EnteredIsCalm ==
  ASSUME TypeInv, NEW c \in Coroutines, NEW s \in TaskSnaps
  PROVE  Calm(Entered(c, s))
<1> DEFINE r == [co[c] EXCEPT !.snap = s, !.made = {}]
<1>1. r \in CoRecord /\ r.snap = s /\ s.t \in Tasks
  BY DEF TypeInv, CoRecord, TaskSnaps
<1>2. CASE s.ids # {}
  <2>1. Entered(c, s) = [r EXCEPT !.pc = "cancel"]
    BY <1>2 DEF Entered
  <2> HIDE DEF r
  <2> QED
    BY <1>1, <2>1 DEF Calm, CoRecord, Places, AheadOf
<1>3. CASE s.ids = {}
  <2>1. Entered(c, s) = Planning(r, s)
    BY <1>3 DEF Entered
  <2> QED
    BY <1>1, <2>1, PlanningIsCalm
<1> QED
  BY <1>2, <1>3

LEMMA SnapIsSnap ==
  ASSUME TypeInv, NEW t \in Tasks
  PROVE  Snap(t) \in TaskSnaps
BY DEF TypeInv, TaskRecord, Snaps, TaskSnaps, Snap

-----------------------------------------------------------------------------
(* Steps                                                                   *)

\* A step that moves one coroutine to a calm place, takes jobs away at most
\* and leaves time, ids and handlers alone.
LEMMA CalmStep ==
  ASSUME Inv, NEW c \in Coroutines, NEW r, Calm(r),
         co' = [co EXCEPT ![c] = r],
         task' \in [Tasks -> TaskRecord],
         live' \subseteq live, row' \subseteq row,
         UNCHANGED <<now, next, job, fire>>
  PROVE  Inv'
<1>1. TypeInv'
  BY DEF Inv, TypeInv, Calm
<1>2. co'[c] = r /\ \A d \in Coroutines : d # c => co'[d] = co[d]
  BY DEF Inv, TypeInv
<1>3. AheadOf(r)' <=> AheadOf(r)
  BY DEF AheadOf
<1>4. AheadInv'
  BY <1>2 DEF Inv, AheadInv, AheadOf, Calm
<1>5. ArmInv'
  BY <1>2 DEF Inv, ArmInv, Calm
<1>6. UnusedInv'
  BY DEF Inv, UnusedInv
<1>7. FireInv'
  BY DEF Inv, FireInv
<1> QED
  BY <1>1, <1>4, <1>5, <1>6, <1>7 DEF Inv

LEMMA SetIdsIsTyped ==
  ASSUME TypeInv, NEW t, NEW ids \in SUBSET Nat, SetIds(t, ids)
  PROVE  task' \in [Tasks -> TaskRecord]
BY DEF SetIds, TypeInv, TaskRecord

LEMMA ScheduleStep ==
  ASSUME Inv, NEW c \in Coroutines, Cancel(c) \/ Clear(c) \/ Reset(c) \/ Store(c)
  PROVE  Inv'
<1>0. /\ TypeInv /\ co[c] \in CoRecord /\ co[c].snap \in Snaps
      /\ co[c].made \subseteq Nat
  BY DEF Inv, TypeInv, CoRecord
<1>1. CASE Cancel(c)
  <2> DEFINE j == Min(co[c].snap.ids)
             r == [co[c] EXCEPT !.snap.ids = @ \ {j},
                                !.pc = IF co[c].snap.ids = {j} THEN "clear" ELSE @]
  <2>1. co' = [co EXCEPT ![c] = r]
    BY <1>0, <1>1 DEF Cancel, Inv, TypeInv
  <2>2. live' \subseteq live /\ row' \subseteq row /\ UNCHANGED <<now, task, next, job, fire>>
    BY <1>1 DEF Cancel, DeleteJob
  <2>3. [co[c].snap EXCEPT !.ids = @ \ {j}] \in Snaps
    BY <1>0 DEF Snaps
  <2>4. r.pc \in {"cancel", "clear"} /\ r \in CoRecord
    <3>1. co[c].pc = "cancel"
      BY <1>1 DEF Cancel
    <3>2. CASE co[c].snap.ids = {j}
      <4>1. r = [co[c] EXCEPT !.snap.ids = @ \ {j}, !.pc = "clear"]
        BY <3>2
      <4> QED
        BY <1>0, <2>3, <4>1 DEF CoRecord, Places
    <3>3. CASE co[c].snap.ids # {j}
      <4>1. r = [co[c] EXCEPT !.snap.ids = @ \ {j}, !.pc = co[c].pc]
        BY <3>3
      <4> QED
        BY <1>0, <2>3, <3>1, <4>1 DEF CoRecord, Places
    <3> QED
      BY <3>2, <3>3
  <2>5. Calm(r)
    <3>1. r.snap.t = co[c].snap.t /\ co[c].snap.t \in Tasks
      BY <1>0, <1>1 DEF Cancel, Inv, AheadInv, AheadOf, CoRecord, Snaps
    <3> QED
      BY <3>1, <2>4 DEF Calm, AheadOf
  <2> HIDE DEF r
  <2> QED
    BY <1>0, <2>1, <2>2, <2>5, CalmStep DEF TypeInv
<1>2. CASE Clear(c)
  <2>1. co[c].snap \in TaskSnaps
    BY <1>0, <1>2 DEF Clear, Inv, AheadInv, AheadOf, TaskSnaps
  <2>4. Calm(Planning(co[c], co[c].snap))
    BY <1>0, <2>1, PlanningIsCalm
  <2>2. task' \in [Tasks -> TaskRecord]
    BY <1>0, <1>2, SetIdsIsTyped DEF Clear
  <2>3. /\ co' = [co EXCEPT ![c] = Planning(co[c], co[c].snap)]
        /\ UNCHANGED <<now, row, live, next, job, fire>>
    BY <1>2 DEF Clear
  <2> QED
    BY <2>4, <2>2, <2>3, CalmStep
<1>3. CASE Reset(c)
  <2>1. Calm([co[c] EXCEPT !.pc = "next"])
    BY <1>0 DEF Calm, CoRecord, Places, AheadOf
  <2>2. task' \in [Tasks -> TaskRecord]
    BY <1>0, <1>3, SetIdsIsTyped DEF Reset
  <2>3. /\ co' = [co EXCEPT ![c] = [co[c] EXCEPT !.pc = "next"]]
        /\ UNCHANGED <<now, row, live, next, job, fire>>
    BY <1>3 DEF Reset, Goto
  <2> QED
    BY <2>1, <2>2, <2>3, CalmStep
<1>4. CASE Store(c)
  <2>1. Calm(Done(c))
    BY <1>0, IdleIsRecord DEF Done, Calm, CoRecord, Places, AheadOf
  <2>2. task' \in [Tasks -> TaskRecord]
    BY <1>0, <1>4, SetIdsIsTyped DEF Store
  <2>3. /\ co' = [co EXCEPT ![c] = Done(c)]
        /\ UNCHANGED <<now, row, live, next, job, fire>>
    BY <1>4 DEF Store
  <2> QED
    BY <2>1, <2>2, <2>3, CalmStep
<1> QED
  BY <1>1, <1>2, <1>3, <1>4

LEMMA RequestStep ==
  ASSUME Inv, NEW c \in Coroutines,
         Resync(c) \/ ResyncUmo(c) \/ Check(c) \/ Insert(c) \/ Edit(c) \/ Remove(c)
  PROVE  Inv'
<1>0. TypeInv /\ co[c] \in CoRecord /\ co[c].snap \in Snaps
  BY DEF Inv, TypeInv, CoRecord
<1>1. CASE Resync(c)
  <2>1. Calm([Idle EXCEPT !.pc = "tasks", !.resync = TRUE, !.owned = Tasks])
    BY IdleIsRecord DEF Calm, CoRecord, Places, AheadOf
  <2> QED
    BY <1>0, <1>1, <2>1, CalmStep DEF Resync, BeginResync, TypeInv
<1>6. CASE ResyncUmo(c)
  <2>1. Calm([Idle EXCEPT !.pc = "own", !.resync = TRUE])
    BY IdleIsRecord DEF Calm, CoRecord, Places, AheadOf
  <2> QED
    BY <1>0, <1>6, <2>1, CalmStep DEF ResyncUmo, TypeInv
<1>2. CASE Check(c)
  <2>1. PICK d \in Deadlines :
          co' = [co EXCEPT ![c] = [Idle EXCEPT !.pc = "insert", !.snap.deadline = d]]
    BY <1>2 DEF Check
  <2>2. [NoSnap EXCEPT !.deadline = d] \in Snaps
    BY IdleIsRecord, V1Assumption DEF Snaps
  <2>3. Calm([Idle EXCEPT !.pc = "insert", !.snap.deadline = d])
    BY <2>2, IdleIsRecord DEF Idle, Calm, CoRecord, Places, AheadOf
  <2> QED
    BY <1>0, <1>2, <2>1, <2>3, CalmStep DEF Check, TypeInv
<1>3. CASE Insert(c)
  <2>1. PICK t \in Tasks :
          /\ task' = [task EXCEPT ![t] = [state |-> "open", ids |-> {}, born |-> now,
                                         deadline |-> co[c].snap.deadline]]
          /\ co' = [co EXCEPT ![c] = Entered(c, [co[c].snap EXCEPT !.t = t, !.open = TRUE])]
    BY <1>3 DEF Insert
  <2>2. [co[c].snap EXCEPT !.t = t, !.open = TRUE] \in TaskSnaps
    BY <1>0 DEF Snaps, TaskSnaps
  <2>3. Calm(Entered(c, [co[c].snap EXCEPT !.t = t, !.open = TRUE]))
    BY <1>0, <2>2, EnteredIsCalm
  <2>4. task' \in [Tasks -> TaskRecord]
    BY <1>0, <2>1 DEF TypeInv, TaskRecord, Snaps
  <2>5. UNCHANGED <<now, row, live, next, job, fire>>
    BY <1>3 DEF Insert
  <2> QED
    BY <2>1, <2>3, <2>4, <2>5, CalmStep
<1>4. CASE Edit(c)
  <2>1. PICK t \in Tasks, state \in {"open", "closed"}, d \in Deadlines :
          /\ Present(t)
          /\ task' = [task EXCEPT ![t].state = state, ![t].deadline = d]
          /\ co' = [co EXCEPT ![c] = Entered(c,
               [t |-> t, open |-> state = "open", deadline |-> d, ids |-> task[t].ids])]
          /\ Touch(t)
    BY <1>4, Zenon DEF Edit
  <2>2. [t |-> t, open |-> state = "open", deadline |-> d, ids |-> task[t].ids] \in TaskSnaps
    BY <1>0, V1Assumption DEF Snaps, TaskSnaps, TypeInv, TaskRecord
  <2>3. Calm(Entered(c, [t |-> t, open |-> state = "open", deadline |-> d,
                         ids |-> task[t].ids]))
    BY <1>0, <2>2, EnteredIsCalm
  <2>4. task' \in [Tasks -> TaskRecord]
    <3>1. [task[t] EXCEPT !.state = state, !.deadline = d] \in TaskRecord
      <4>1. d \in Nat /\ task[t] \in TaskRecord
        BY <1>0, V1Assumption DEF TypeInv
      <4>2. state \in {"fresh", "open", "closed", "gone"}
        OBVIOUS
      <4> QED
        BY <4>1, <4>2 DEF TaskRecord
    <3>2. task' = [task EXCEPT ![t] = [task[t] EXCEPT !.state = state, !.deadline = d]]
      BY <1>0, <2>1 DEF TypeInv, TaskRecord
    <3> QED
      BY <1>0, <3>1, <3>2 DEF TypeInv
  <2>5. UNCHANGED <<now, row, live, next, job, fire>>
    BY <1>4 DEF Edit
  <2> QED
    BY <2>1, <2>3, <2>4, <2>5, CalmStep
<1>5. CASE Remove(c)
  <2>1. PICK t \in Tasks :
          /\ task' = [task EXCEPT ![t] = [state |-> "gone", deadline |-> 0, born |-> 0, ids |-> {}]]
          /\ co' = [co EXCEPT ![c] = Entered(c, [Snap(t) EXCEPT !.open = FALSE])]
    BY <1>5 DEF Remove
  <2>2. [Snap(t) EXCEPT !.open = FALSE] \in TaskSnaps
    BY <1>0, SnapIsSnap DEF Snaps, TaskSnaps
  <2>3. Calm(Entered(c, [Snap(t) EXCEPT !.open = FALSE]))
    BY <1>0, <2>2, EnteredIsCalm
  <2>4. task' \in [Tasks -> TaskRecord]
    BY <1>0, <2>1 DEF TypeInv, TaskRecord
  <2>5. UNCHANGED <<now, row, live, next, job, fire>>
    BY <1>5 DEF Remove
  <2> QED
    BY <2>1, <2>3, <2>4, <2>5, CalmStep
<1> QED
  BY <1>1, <1>2, <1>3, <1>4, <1>5, <1>6

LEMMA ResyncStep ==
  ASSUME Inv, NEW c \in Coroutines, ResyncAll(c)
  PROVE  Inv'
<1>0. TypeInv /\ co[c] \in CoRecord /\ row \subseteq Nat
  BY DEF Inv, TypeInv, JobIds
<1>1. CASE ListTasks(c)
  <2>1. PICK R \in Soonest({t \in Tasks : Open(t)}, Limit) :
          co' = [co EXCEPT ![c].todo = {Snap(t) : t \in R},
                           ![c].owned = @ \union R,
                           ![c].pc = IF @ = "tasks" THEN "rows" ELSE "closed"]
    BY <1>1 DEF ListTasks
  <2>2. R \subseteq Tasks
    BY <2>1 DEF Soonest
  <2> DEFINE todo == {Snap(t) : t \in R}
             r(pc) == [co[c] EXCEPT !.todo = todo, !.owned = @ \union R, !.pc = pc]
  <2>3. todo \subseteq TaskSnaps
    BY <1>0, <2>2, SnapIsSnap
  <2> HIDE DEF todo
  <2>4. PICK pc \in {"rows", "closed"} : co' = [co EXCEPT ![c] = r(pc)]
    BY <1>0, <2>1 DEF TypeInv, todo
  <2>5. UNCHANGED <<now, task, row, live, next, job, fire>>
    BY <1>1 DEF ListTasks
  <2>6. Calm(r(pc))
    BY <1>0, <2>2, <2>3 DEF Calm, CoRecord, Places, AheadOf
  <2> HIDE DEF r
  <2> QED
    BY <1>0, <2>4, <2>5, <2>6, CalmStep DEF TypeInv
<1>5. CASE ListClosed(c)
  <2>1. PICK R \in Soonest({t \in Tasks : Present(t) /\ ~Open(t)}, ClosedLimit) :
          co' = [co EXCEPT ![c].owned = @ \union R, ![c].pc = "rows"]
    BY <1>5 DEF ListClosed
  <2>2. R \subseteq Tasks
    BY <2>1 DEF Soonest
  <2> DEFINE r == [co[c] EXCEPT !.owned = @ \union R, !.pc = "rows"]
  <2>3. co' = [co EXCEPT ![c] = r] /\ UNCHANGED <<now, task, row, live, next, job, fire>>
    BY <1>0, <1>5, <2>1 DEF ListClosed, TypeInv
  <2>4. Calm(r)
    BY <1>0, <2>2 DEF Calm, CoRecord, Places, AheadOf
  <2> HIDE DEF r
  <2> QED
    BY <1>0, <2>3, <2>4, CalmStep DEF TypeInv
<1>2. CASE ListRows(c)
  <2> DEFINE swept == {j \in row : job[j].t \in co[c].owned}
             r(pc) == [co[c] EXCEPT !.sweep = swept, !.pc = pc]
  <2>1. PICK pc \in {"next", "sweep"} : co' = [co EXCEPT ![c] = r(pc)]
    BY <1>0, <1>2 DEF ListRows, TypeInv
  <2>2. Calm(r(pc))
    BY <1>0 DEF Calm, CoRecord, Places, AheadOf
  <2>3. UNCHANGED <<now, task, row, live, next, job, fire>>
    BY <1>2 DEF ListRows
  <2> HIDE DEF r
  <2> QED
    BY <1>0, <2>1, <2>2, <2>3, CalmStep DEF TypeInv
<1>3. CASE Sweep(c)
  <2>0. PICK j \in co[c].sweep :
          co' = [co EXCEPT ![c].sweep = @ \ {j},
                           ![c].pc = IF co[c].sweep = {j} THEN "next" ELSE @]
    BY <1>3 DEF Sweep
  <2> DEFINE r(pc) == [co[c] EXCEPT !.sweep = @ \ {j}, !.pc = pc]
  <2>1. PICK pc \in {"next", "sweep"} : co' = [co EXCEPT ![c] = r(pc)]
    BY <1>0, <1>3, <2>0 DEF Sweep, TypeInv
  <2>2. Calm(r(pc))
    BY <1>0 DEF Calm, CoRecord, Places, AheadOf
  <2>3. live' \subseteq live /\ row' \subseteq row /\ UNCHANGED <<now, task, next, job, fire>>
    BY <1>3 DEF Sweep, DeleteJob
  <2> HIDE DEF r
  <2> QED
    BY <1>0, <2>1, <2>2, <2>3, CalmStep DEF TypeInv
<1>4. CASE NextTask(c)
  <2>1. UNCHANGED <<now, task, row, live, next, job, fire>>
    BY <1>4 DEF NextTask
  <2>2. CASE co[c].todo = {}
    <3>1. co' = [co EXCEPT ![c] = Idle]
      BY <1>4, <2>2 DEF NextTask
    <3>2. Calm(Idle)
      BY IdleIsRecord DEF Calm, AheadOf
    <3> QED
      BY <1>0, <2>1, <3>1, <3>2, CalmStep DEF TypeInv
  <2>3. CASE co[c].todo # {}
    <3>1. PICK s \in co[c].todo :
            co' = [co EXCEPT ![c] = [Entered(c, s) EXCEPT !.todo = @ \ {s}]]
      BY <1>4, <2>3 DEF NextTask
    <3>2. s \in TaskSnaps
      BY <1>0 DEF CoRecord
    <3>3. Calm(Entered(c, s))
      BY <1>0, <3>2, EnteredIsCalm
    <3>4. Calm([Entered(c, s) EXCEPT !.todo = @ \ {s}])
      BY <3>3 DEF Calm, CoRecord, AheadOf
    <3> QED
      BY <1>0, <2>1, <3>1, <3>4, CalmStep DEF TypeInv
  <2> QED
    BY <2>2, <2>3
<1> QED
  BY <1>1, <1>2, <1>3, <1>4, <1>5 DEF ResyncAll

LEMMA InsertRowStep ==
  ASSUME Inv, NEW c \in Coroutines, InsertRow(c)
  PROVE  Inv'
<1>0. /\ TypeInv /\ co[c] \in CoRecord /\ co[c].snap.t \in Tasks /\ co[c].pc = "row"
      /\ co[c].left \subseteq Nat /\ co[c].left # {} /\ \A at \in co[c].left : at > now
  BY DEF Inv, TypeInv, CoRecord, AheadInv, AheadOf, InsertRow
<1>1. PICK j \in JobIds :
        /\ job[j] = Unused
        /\ job' = [job EXCEPT ![j] = [t |-> co[c].snap.t, at |-> Min(co[c].left)]]
        /\ row' = row \union {j}
        /\ co' = [co EXCEPT ![c].pc = "arm", ![c].job = j]
  BY DEF InsertRow
<1> DEFINE at == Min(co[c].left)
           r == [co[c] EXCEPT !.pc = "arm", !.job = j]
<1>2. at \in co[c].left
  BY <1>0, SmallestIsIn
<1>3. at \in Nat /\ at > now /\ now \in Nat
  BY <1>0, <1>2 DEF TypeInv
<1> HIDE DEF at
<1>4. /\ co' = [co EXCEPT ![c] = r]
      /\ job' = [job EXCEPT ![j] = [t |-> co[c].snap.t, at |-> at]]
  BY <1>0, <1>1 DEF TypeInv, at
<1>5. /\ r \in CoRecord /\ r.pc = "arm" /\ r.job = j
      /\ r.left = co[c].left /\ r.snap = co[c].snap
  <2>1. j \in Nat
    BY V1Assumption DEF JobIds
  <2>2. "arm" \in Places
    BY DEF Places
  <2> QED
    BY <1>0, <2>1, <2>2 DEF CoRecord
<1> HIDE DEF r
<1>6. UNCHANGED <<now, task, live, next, fire>>
  BY DEF InsertRow
<1>7. [t |-> co[c].snap.t, at |-> at] \in [t : Tasks, at : Nat]
  BY <1>0, <1>3
<1>8. TypeInv'
  <2>1. job' \in [JobIds -> [t : Tasks, at : Nat] \union {Unused}]
    BY <1>0, <1>4, <1>7 DEF TypeInv
  <2>2. co' \in [Coroutines -> CoRecord]
    BY <1>0, <1>4, <1>5 DEF TypeInv
  <2>3. row' \subseteq JobIds
    BY <1>0, <1>1 DEF TypeInv
  <2> QED
    BY <1>0, <1>6, <2>1, <2>2, <2>3 DEF TypeInv
<1>9. /\ co'[c] = r /\ \A d \in Coroutines : d # c => co'[d] = co[d]
      /\ job'[j].at = at /\ job'[j] # Unused
      /\ \A i \in JobIds : i # j => job'[i] = job[i]
  <2>1. job'[j] = [t |-> co[c].snap.t, at |-> at]
    BY <1>0, <1>4 DEF TypeInv
  <2>2. job'[j].at = at /\ job'[j] # Unused
    BY <1>3, <2>1, IdleIsRecord
  <2> QED
    BY <1>0, <1>4, <2>2 DEF TypeInv
<1>10. j \notin live /\ fire[j].pc = "none"
  BY <1>1 DEF Inv, UnusedInv
<1>11. AheadInv'
  BY <1>0, <1>5, <1>6, <1>9 DEF Inv, AheadInv, AheadOf
<1>12. ASSUME NEW d \in Coroutines, co[d].pc = "arm"
       PROVE  co[d].job \in JobIds /\ co[d].job # j
  BY <1>1, <1>12 DEF Inv, ArmInv
<1>13. ArmInv'
  BY <1>3, <1>5, <1>6, <1>9, <1>10, <1>12 DEF Inv, ArmInv
<1>14. UnusedInv'
  BY <1>6, <1>9 DEF Inv, UnusedInv
<1>15. FireInv'
  <2> SUFFICES ASSUME NEW i \in live, i \in row \union {j}
               PROVE  /\ fire[i].pc \in {"none", "send", "delete"}
                      /\ fire[i].pc = "none" => next[i] >= now
    BY <1>1, <1>6 DEF FireInv
  <2>1. i # j /\ i \in live \intersect row /\ i \in JobIds
    BY <1>0, <1>10 DEF TypeInv
  <2> QED
    BY <1>9, <2>1 DEF Inv, FireInv
<1> QED
  BY <1>8, <1>11, <1>13, <1>14, <1>15 DEF Inv

LEMMA ArmStep ==
  ASSUME Inv, NEW c \in Coroutines, Arm(c)
  PROVE  Inv'
<1> DEFINE j == co[c].job
           rest == co[c].left \ {job[j].at}
           r == [co[c] EXCEPT !.left = rest, !.job = 0, !.made = @ \union {j},
                              !.pc = IF rest = {} THEN "store" ELSE "row"]
<1>0. TypeInv /\ co[c] \in CoRecord /\ co[c].pc = "arm"
  BY DEF Inv, TypeInv, Arm
<1>1. /\ j \in JobIds /\ job[j] # Unused /\ job[j].at > now
      /\ j \notin live /\ fire[j].pc = "none"
      /\ \A d \in Coroutines : co[d].pc = "arm" /\ co[d].job = j => d = c
  BY <1>0 DEF Inv, ArmInv
<1>2. co' = [co EXCEPT ![c] = r]
  BY <1>0 DEF Arm, TypeInv
<1>3. /\ live' = live \union {j} /\ UNCHANGED <<now, task, row, job, fire>>
      /\ next' = [next EXCEPT ![j] = NextRun(job[j].at)]
  BY DEF Arm
<1>4. Calm(r)
  <2>1. rest \subseteq Nat /\ \A at \in rest : at > now
    BY <1>0 DEF Inv, AheadInv, AheadOf, CoRecord
  <2>2. co[c].made \union {j} \subseteq Nat
    BY <1>0, <1>1 DEF CoRecord, JobIds
  <2>5. co[c].snap.t \in Tasks
    BY <1>0 DEF Inv, AheadInv, AheadOf
  <2> HIDE DEF rest, j
  <2>3. CASE rest = {}
    <3>1. r = [co[c] EXCEPT !.left = rest, !.job = 0, !.made = @ \union {j}, !.pc = "store"]
      BY <2>3
    <3> QED
      BY <1>0, <2>1, <2>2, <3>1 DEF Calm, CoRecord, Places, AheadOf
  <2>4. CASE rest # {}
    <3>1. r = [co[c] EXCEPT !.left = rest, !.job = 0, !.made = @ \union {j}, !.pc = "row"]
      BY <2>4
    <3> QED
      BY <1>0, <2>1, <2>2, <2>4, <2>5, <3>1 DEF Calm, CoRecord, Places, AheadOf
  <2> QED
    BY <2>3, <2>4
<1> HIDE DEF r, j
<1>12. NextRun(job[j].at) \in Nat /\ NextRun(job[j].at) > now
  BY <1>0, <1>1, NextRunIsAhead DEF TypeInv
<1>5. TypeInv'
  BY <1>0, <1>1, <1>2, <1>3, <1>4, <1>12 DEF TypeInv, Calm
<1>6. co'[c] = r /\ \A d \in Coroutines : d # c => co'[d] = co[d]
  BY <1>0, <1>2 DEF TypeInv
<1>7. AheadInv'
  BY <1>3, <1>4, <1>6 DEF Inv, AheadInv, AheadOf, Calm
<1>8. ASSUME NEW d \in Coroutines, co[d].pc = "arm", d # c
      PROVE  co[d].job # j
  BY <1>1, <1>8
<1>9. ArmInv'
  BY <1>3, <1>4, <1>6, <1>8 DEF Inv, ArmInv, Calm
<1>10. UnusedInv'
  BY <1>1, <1>3 DEF Inv, UnusedInv
<1>11. FireInv'
  <2>1. /\ next'[j] >= now
        /\ \A i \in JobIds : i # j => next'[i] = next[i]
    BY <1>0, <1>1, <1>3, <1>12 DEF TypeInv
  <2> QED
    BY <1>0, <1>1, <1>3, <2>1 DEF Inv, FireInv, TypeInv
<1> QED
  BY <1>5, <1>7, <1>9, <1>10, <1>11 DEF Inv

\* The scheduler takes a job for its next run of a year later.
LEMMA StartedIsTyped ==
  ASSUME TypeInv, NEW j \in JobIds, Started(j)
  PROVE  /\ next' \in [JobIds -> Nat] /\ next'[j] = next[j] + Year
         /\ \A i \in JobIds : i # j => next'[i] = next[i]
BY V1Assumption DEF TypeInv, Started

LEMMA SkipStep ==
  ASSUME Inv, NEW j \in JobIds, SkipRun(j)
  PROVE  Inv'
<1>1. /\ UNCHANGED <<now, task, row, live, job, co, fire>>
      /\ next[j] = now
  BY DEF SkipRun, Due
<1>2. /\ next' \in [JobIds -> Nat] /\ next'[j] = next[j] + Year
      /\ \A i \in JobIds : i # j => next'[i] = next[i]
  BY StartedIsTyped DEF SkipRun, Inv
<1>3. TypeInv' /\ AheadInv' /\ ArmInv' /\ UnusedInv'
  BY <1>1, <1>2 DEF Inv, TypeInv, AheadInv, AheadOf, ArmInv, UnusedInv
<1>4. next'[j] >= now
  BY <1>1, <1>2, V1Assumption DEF Inv, TypeInv
<1>5. FireInv'
  BY <1>1, <1>2, <1>4 DEF Inv, FireInv, TypeInv
<1> QED
  BY <1>3, <1>5 DEF Inv

\* A handler that was started never is "none" again.
LEMMA HandlerStep ==
  ASSUME Inv, NEW j \in JobIds, Handler(j), ~SkipRun(j)
  PROVE  Inv'
<1> DEFINE f == fire'[j].pc
<1>0. /\ TypeInv /\ UNCHANGED <<now, job, co>>
      /\ live' \subseteq live /\ row' \subseteq row
  BY DEF Inv, Handler, Load, Send, SelfDelete, Drop, DeleteJob
<1>1. task' \in [Tasks -> TaskRecord]
  <2>1. CASE Drop(j)
    <3>1. fire[j].ids \ {j} \in SUBSET Nat
      BY <1>0 DEF TypeInv
    <3> QED
      BY <1>0, <2>1, <3>1, SetIdsIsTyped DEF Drop
  <2>2. CASE ~Drop(j)
    BY <1>0, <2>2 DEF Handler, Load, Send, SelfDelete, TypeInv
  <2> QED
    BY <2>1, <2>2
<1>2. /\ fire' \in [JobIds -> [pc : {"none", "send", "delete", "drop", "done"},
                                ids : SUBSET Nat]]
      /\ \A i \in JobIds : i # j => fire'[i] = fire[i]
      /\ f # "none"
      /\ \/ fire[j].pc # "none"
         \/ j \in live
      /\ j \in live' \intersect row' => f \in {"send", "delete"}
  <2>1. CASE Load(j)
    <3>1. j \in live /\ job[j].t \in Tasks
      BY <1>0, <2>1 DEF TypeInv, Load, Due, Inv, UnusedInv
    <3>2. CASE j \notin row
      <4>1. fire' = [fire EXCEPT ![j] = [fire[j] EXCEPT !.pc = "done"]] /\ row' = row
        BY <1>0, <2>1, <3>2 DEF Load, TypeInv
      <4> QED
        BY <1>0, <3>1, <3>2, <4>1 DEF TypeInv
    <3>3. CASE j \in row
      <4>1. PICK pc \in {"send", "delete"} :
              fire' = [fire EXCEPT ![j] = [pc |-> pc, ids |-> task[job[j].t].ids]]
        BY <2>1, <3>3 DEF Load
      <4>2. task[job[j].t].ids \in SUBSET Nat
        BY <1>0, <3>1 DEF TypeInv, TaskRecord
      <4> QED
        BY <1>0, <3>1, <4>1, <4>2 DEF TypeInv
    <3> QED
      BY <3>2, <3>3
  <2>2. CASE Send(j)
    <3>1. fire' = [fire EXCEPT ![j] = [fire[j] EXCEPT !.pc = "delete"]] /\ fire[j].pc = "send"
      BY <1>0, <2>2 DEF Send, TypeInv
    <3> QED
      BY <1>0, <3>1 DEF TypeInv
  <2>3. CASE SelfDelete(j)
    <3>1. /\ fire' = [fire EXCEPT ![j] = [fire[j] EXCEPT !.pc = "drop"]]
          /\ fire[j].pc = "delete" /\ j \notin live'
      BY <1>0, <2>3 DEF SelfDelete, DeleteJob, TypeInv
    <3> QED
      BY <1>0, <3>1 DEF TypeInv
  <2>4. CASE Drop(j)
    <3>1. /\ fire' = [fire EXCEPT ![j] = [pc |-> "done", ids |-> {}]]
          /\ fire[j].pc = "drop" /\ live' = live /\ row' = row
      <4>1. [NoFire EXCEPT !.pc = "done"] = [pc |-> "done", ids |-> {}]
        BY DEF NoFire
      <4> QED
        BY <2>4, <4>1 DEF Drop
    <3>2. j \notin live \intersect row
      BY <3>1 DEF Inv, FireInv
    <3> QED
      BY <1>0, <3>1, <3>2 DEF TypeInv
  <2> QED
    BY <2>1, <2>2, <2>3, <2>4 DEF Handler
<1>10. /\ next' \in [JobIds -> Nat]
       /\ \A i \in JobIds : i # j => next'[i] = next[i]
  <2>1. CASE Load(j)
    BY <1>0, <2>1, StartedIsTyped DEF Load
  <2>2. CASE ~Load(j)
    BY <1>0, <2>2 DEF Handler, Send, SelfDelete, Drop, TypeInv
  <2> QED
    BY <2>1, <2>2
<1>3. TypeInv'
  BY <1>0, <1>1, <1>2, <1>10 DEF TypeInv
<1>4. AheadInv'
  BY <1>0 DEF Inv, AheadInv, AheadOf
<1>5. ASSUME NEW c \in Coroutines, co[c].pc = "arm"
      PROVE  co[c].job # j
  BY <1>2, <1>5 DEF Inv, ArmInv
<1>6. ArmInv'
  BY <1>0, <1>2, <1>5 DEF Inv, ArmInv
<1>7. job[j] # Unused
  BY <1>2 DEF Inv, UnusedInv
<1>8. UnusedInv'
  BY <1>0, <1>2, <1>7 DEF Inv, UnusedInv
<1>9. FireInv'
  BY <1>0, <1>2, <1>10 DEF Inv, TypeInv, FireInv
<1> QED
  BY <1>3, <1>4, <1>6, <1>8, <1>9 DEF Inv

LEMMA ProcessStep ==
  ASSUME Inv, Crash \/ Bind \/ Tick
  PROVE  Inv'
<1>0. TypeInv
  BY DEF Inv
<1>1. CASE Crash
  <2>1. /\ co' = [c \in Coroutines |-> Idle] /\ live' = {}
        /\ UNCHANGED <<now, task, row, next, job>>
    BY <1>1 DEF Crash
  <2>2. /\ fire' \in [JobIds -> [pc : {"none", "send", "delete", "drop", "done"},
                                 ids : SUBSET Nat]]
        /\ \A j \in JobIds : job[j] = Unused => fire'[j].pc = "none"
    BY <1>1 DEF Crash, NoFire
  <2>3. TypeInv'
    BY <1>0, <2>1, <2>2, IdleIsRecord DEF TypeInv
  <2>4. AheadInv' /\ ArmInv'
    BY <2>1, IdleIsRecord DEF AheadInv, AheadOf, ArmInv
  <2>5. UnusedInv' /\ FireInv'
    BY <2>1, <2>2 DEF UnusedInv, FireInv
  <2> QED
    BY <2>3, <2>4, <2>5 DEF Inv
<1>2. CASE Bind
  <2>1. Calm([Idle EXCEPT !.pc = "tasks", !.resync = TRUE, !.owned = Tasks])
    BY IdleIsRecord DEF Calm, CoRecord, Places, AheadOf
  <2>2. Boot \in Coroutines
    BY DEF Coroutines
  <2> QED
    BY <1>0, <1>2, <2>1, <2>2, CalmStep DEF Bind, BeginResync, TypeInv
<1>3. CASE Tick
  <2>1. /\ now' = now + 1 /\ UNCHANGED <<task, row, live, next, job, co, fire>>
        /\ \A c \in Coroutines : co[c].pc = "idle"
        /\ \A j \in JobIds : ~Due(j)
    BY <1>3 DEF Tick
  <2>2. TypeInv'
    BY <1>0, <2>1 DEF TypeInv
  <2>3. AheadInv' /\ ArmInv'
    BY <2>1 DEF AheadInv, AheadOf, ArmInv
  <2>4. UnusedInv'
    BY <2>1 DEF Inv, UnusedInv
  <2>5. FireInv'
    <3> SUFFICES ASSUME NEW j \in live \intersect row
                 PROVE  /\ fire[j].pc \in {"none", "send", "delete"}
                        /\ fire[j].pc = "none" => next[j] >= now + 1
      BY <2>1 DEF FireInv
    <3>1. j \in JobIds /\ now \in Nat /\ next[j] \in Nat
      BY <1>0 DEF TypeInv
    <3>2. fire[j].pc = "none" => next[j] # now
      BY <2>1, <3>1 DEF Due
    <3> QED
      BY <3>1, <3>2 DEF Inv, FireInv
  <2> QED
    BY <2>2, <2>3, <2>4, <2>5 DEF Inv
<1> QED
  BY <1>1, <1>2, <1>3

-----------------------------------------------------------------------------
(* The theorem                                                             *)

LEMMA InitInv == Init => Inv
<1> SUFFICES ASSUME Init PROVE Inv
  OBVIOUS
<1>1. TypeInv
  BY IdleIsRecord DEF Init, TypeInv, TaskRecord, NoFire
<1>2. AheadInv /\ ArmInv
  BY IdleIsRecord DEF Init, AheadInv, AheadOf, ArmInv
<1>3. UnusedInv /\ FireInv
  BY DEF Init, UnusedInv, FireInv, NoFire
<1> QED
  BY <1>1, <1>2, <1>3 DEF Inv

LEMMA NextInv == Inv /\ [Next]_vars => Inv'
<1> SUFFICES ASSUME Inv, [Next]_vars PROVE Inv'
  OBVIOUS
<1>1. ASSUME NEW c \in Coroutines, ScheduleForTask(c) PROVE Inv'
  BY <1>1, ScheduleStep, InsertRowStep, ArmStep DEF ScheduleForTask
<1>2. ASSUME NEW c \in Coroutines, ResyncAll(c) PROVE Inv'
  BY <1>2, ResyncStep
<1>3. ASSUME NEW c \in Coroutines,
             Resync(c) \/ ResyncUmo(c) \/ Check(c) \/ Insert(c) \/ Edit(c) \/ Remove(c)
      PROVE  Inv'
  BY <1>3, RequestStep
<1>4. ASSUME NEW j \in JobIds, Handler(j) PROVE Inv'
  BY <1>4, HandlerStep, SkipStep
<1>5. CASE Crash \/ Bind \/ Tick
  BY <1>5, ProcessStep
<1>6. CASE UNCHANGED vars
  BY <1>6 DEF vars, Inv, TypeInv, AheadInv, AheadOf, ArmInv, UnusedInv, FireInv
<1> QED
  BY <1>1, <1>2, <1>3, <1>4, <1>5, <1>6 DEF Next

\* A pinned crontab fires again next year: a job that outlives its instant is
\* one whose run the scheduler skipped (cron/manager.py:266); one whose handler
\* ran is gone, whichever coroutines overlapped and wherever the process died.
THEOREM OnlySkippedTheorem == Spec => []OnlySkippedRecurs
<1>1. Inv => OnlySkippedRecurs
  <2> SUFFICES ASSUME Inv, NEW j \in live \intersect row
               PROVE  /\ fire[j].pc \in {"none", "send", "delete"}
                      /\ job[j].at < now /\ fire[j].pc = "none" => Skipped(j)
    BY DEF OnlySkippedRecurs
  <2>1. now \in Nat /\ job[j].at \in Nat /\ next[j] \in Nat
    BY DEF Inv, TypeInv, Unused
  <2> QED
    BY <2>1 DEF Inv, FireInv, Skipped
<1> QED
  BY <1>1, InitInv, NextInv, PTL DEF Spec

-----------------------------------------------------------------------------
(* The schedule of a task.                                                  *)
(*                                                                          *)
(* SoundInv says what a coroutine carries from place to place; GoodInv says *)
(* of a task that is not mixed how far whoever works on its schedule has    *)
(* got, and that the schedule is right when nobody does.                    *)

\* The ids given out for a task.
OfTask(t) == {j \in JobIds : job[j] # Unused /\ job[j].t = t}

\* A coroutine deletes and stores jobs of the task it schedules, no others.
OwnOf(r) ==
  /\ r.snap.ids \subseteq OfTask(r.snap.t)
  /\ r.made \subseteq OfTask(r.snap.t)
  /\ r.pc = "arm" => r.job \in OfTask(r.snap.t)
  /\ \A s \in r.todo : s.ids \subseteq OfTask(s.t)

PlaceOf(r) ==
  /\ r.pc \in {"idle", "insert"} => ~ r.resync
  /\ r.pc \in {"tasks", "own", "closed", "rows", "sweep", "next", "reset"} => r.resync
  /\ r.pc = "tasks" => r.owned = Tasks
  /\ r.pc = "own" => r.owned = {}
  /\ r.pc = "insert" => r.snap.ids = {}
  /\ r.pc \in {"cancel", "clear"} => r.made = {}
  /\ r.pc = "cancel" => r.snap.ids # {}
  /\ ~ r.resync => r.todo = {}

SoundInv ==
  /\ \A t \in Tasks : task[t].ids \subseteq OfTask(t)
  /\ \A c \in Coroutines : OwnOf(co[c]) /\ PlaceOf(co[c])
  /\ \A j \in JobIds : fire[j].ids \subseteq OfTask(job[j].t)
  /\ ~ up => \A c \in Coroutines : co[c].pc = "idle"
  /\ ~ up => \A j \in JobIds : fire[j].pc \in {"none", "done"}
  /\ mixed \subseteq ever

SchedulePlaces == {"cancel", "clear", "row", "arm", "store", "reset"}

Distinct(t) == \A i, j \in Jobs(t) : job[i].at = job[j].at => i = j

\* The row names the task's jobs, but for those in X; there is one for every
\* reminder still ahead, unless the task lost them, and no other one but for
\* the instant itself or a run that was skipped.
Covers(t, X) ==
  /\ Jobs(t) \ X \subseteq task[t].ids
  /\ Distinct(t)
  /\ \A j \in Jobs(t) \ X :
       job[j].at \in Planned(task[t].deadline) \union {now} \/ Skipped(j)
  /\ t \notin lost =>
       /\ task[t].ids \ X \subseteq Jobs(t)
       /\ \A at \in Planned(task[t].deadline) : \E j \in Jobs(t) : job[j].at = at

Settled(t) == IF Open(t) THEN Covers(t, {}) ELSE Jobs(t) = {}

\* What was planned is either left to do or done, and nothing else is there.
Halfway(c, t) ==
  /\ Open(t)
  /\ Jobs(t) = co[c].made
  /\ Distinct(t)
  /\ co[c].left \subseteq Planned(task[t].deadline)
  /\ \A at \in Planned(task[t].deadline) :
       at \in co[c].left \/ \E j \in Jobs(t) : job[j].at = at
  /\ \A j \in Jobs(t) : job[j].at \in Planned(task[t].deadline) \ co[c].left

\* schedule_for_task works on this task.
Scheduling(c, t) ==
  /\ co[c].snap.open <=> Open(t)
  /\ Open(t) => co[c].snap.deadline = task[t].deadline
  /\ \A s \in co[c].todo : s.t # t
  /\ co[c].pc = "cancel" => Jobs(t) \subseteq co[c].snap.ids
  /\ co[c].pc \in {"clear", "reset"} => Jobs(t) = {}
  /\ co[c].pc = "reset" /\ Open(t) => Planned(task[t].deadline) = {}
  /\ co[c].pc \in {"row", "arm", "store"} => Halfway(c, t)
  /\ co[c].pc = "arm" => co[c].job \in row /\ job[co[c].job].at \in co[c].left
  /\ co[c].pc = "store" => co[c].left = {}

Awaited(c, t) == \E s \in co[c].todo : s.t = t

ResyncPlaces == SchedulePlaces \union {"closed", "rows", "sweep", "next"}

\* resync_all is elsewhere: it leaves this task alone, or has not rescheduled
\* it yet, or is done with it.
Resyncing(c, t) ==
  /\ t \notin co[c].owned => Settled(t)
  /\ co[c].pc \in ResyncPlaces =>
       \A s \in co[c].todo : s.t = t => s = Snap(t) /\ Open(t) /\ t \in co[c].owned
  /\ co[c].pc \in {"closed", "rows", "sweep"} /\ t \in co[c].owned /\ Open(t) =>
       Awaited(c, t) \/ t \in lost
  /\ co[c].pc = "sweep" =>
       IF t \in co[c].owned THEN Jobs(t) \subseteq co[c].sweep
       ELSE co[c].sweep \intersect OfTask(t) = {}
  /\ co[c].pc \in SchedulePlaces \union {"next"} /\ t \in co[c].owned =>
       IF Awaited(c, t) THEN Jobs(t) = {} ELSE Settled(t)

Mine(c, t) == co[c].pc \in SchedulePlaces /\ co[c].snap.t = t

AtWork(c, t) == IF Mine(c, t) THEN Scheduling(c, t) ELSE Resyncing(c, t)

\* A handler announces a reminder of this task or takes it off the row.
Firing(j, t) ==
  /\ Open(t) /\ Covers(t, {j}) /\ (job[j].at <= now \/ t \in lost)
  /\ fire[j].ids \ {j} = task[t].ids \ {j}
  /\ fire[j].pc = "send" => j \in Jobs(t)
  /\ fire[j].pc = "drop" => j \notin Jobs(t)

\* Nobody but c.
Alone(c, t) ==
  /\ \A d \in Coroutines : d # c => ~ Schedules(d, t)
  /\ \A j \in JobIds : ~ Fires(j, t)

Good(t) ==
  /\ ~ Worked(t) => Settled(t)
  /\ \A c \in Coroutines : Schedules(c, t) => Alone(c, t) /\ AtWork(c, t)
  /\ \A j \in JobIds : Fires(j, t) => Firing(j, t)
  /\ \A i, j \in JobIds : Fires(i, t) /\ Fires(j, t) => i = j

GoodInv == up => \A t \in Tasks \ mixed : Good(t)

\* A job that can still announce something has announced nothing.
Waiting(j) == fire[j].pc = "send" \/ (j \in live \intersect row /\ fire[j].pc = "none")

ToldInv ==
  /\ told \in [Tasks -> [0..MaxTime -> Nat]]
  /\ \A j \in JobIds : fire[j].pc \in {"send", "delete", "drop"} => job[j] # Unused
  /\ \A t \in Tasks, at \in 0..MaxTime : told[t][at] > 0 => at <= now
  /\ \A t \in Tasks \ ever, at \in 0..MaxTime :
       /\ told[t][at] <= 1
       /\ \A j \in OfTask(t) : job[j].at = at /\ Waiting(j) => told[t][at] = 0

\* What a coroutine carries wherever it is.
Carried(r) ==
  /\ r.snap.ids \subseteq OfTask(r.snap.t)
  /\ r.made \subseteq OfTask(r.snap.t)
  /\ \A s \in r.todo : s.ids \subseteq OfTask(s.t)
  /\ ~ r.resync => r.todo = {}

\* Ids that were given out stay what they are.
Kept == \A j \in JobIds : job[j] # Unused => job'[j] = job[j]

LEMMA OwnsMore ==
  ASSUME TypeInv, Kept, NEW t
  PROVE  OfTask(t) \subseteq OfTask(t)'
BY DEF Kept, OfTask, JobIds

LEMMA OfNoTask == TypeInv => OfTask(NoTask) = {}
BY V1Assumption DEF TypeInv, OfTask

LEMMA IdleIsSound == Carried(Idle) /\ PlaceOf(Idle)
BY DEF Carried, PlaceOf, Idle, NoSnap

\* A step of a coroutine: what it is afterwards belongs to the task it is at.
LEMMA SoundStep ==
  ASSUME TypeInv, SoundInv, Kept, NEW c \in Coroutines, NEW r, Carried(r), PlaceOf(r),
         r.pc = "arm" => /\ r.job \in JobIds /\ job'[r.job] # Unused
                         /\ job'[r.job].t = r.snap.t,
         co' = [co EXCEPT ![c] = r], up' \/ r.pc = "idle",
         \A t \in Tasks : task'[t].ids \subseteq OfTask(t),
         UNCHANGED fire, up' \/ UNCHANGED up, mixed' \subseteq ever'
  PROVE  SoundInv'
<1>1. co'[c] = r /\ \A d \in Coroutines : d # c => co'[d] = co[d]
  BY DEF TypeInv
<1>2. \A t : OfTask(t) \subseteq OfTask(t)'
  BY OwnsMore
<1>3. \A t \in Tasks : (task[t].ids \subseteq OfTask(t))'
  BY <1>2
<1>4. ASSUME NEW d \in Coroutines PROVE OwnOf(co[d])' /\ PlaceOf(co[d])'
  <2>1. CASE d = c
    <3>1. r.pc = "arm" => r.job \in OfTask(r.snap.t)'
      BY <1>1, <2>1 DEF OfTask, JobIds
    <3> QED
      BY <1>1, <1>2, <2>1, <3>1 DEF OwnOf, PlaceOf, Carried
  <2>2. CASE d # c
    <3>1. OwnOf(co[d]) /\ PlaceOf(co[d]) /\ co'[d] = co[d]
      BY <1>1, <2>2 DEF SoundInv
    <3> QED
      BY <1>2, <3>1 DEF OwnOf, PlaceOf
  <2> QED
    BY <2>1, <2>2
<1>5. ASSUME NEW j \in JobIds PROVE (fire[j].ids \subseteq OfTask(job[j].t))'
  <2>1. fire'[j] = fire[j] /\ fire[j].ids \subseteq OfTask(job[j].t)
    BY DEF SoundInv
  <2>2. CASE job[j] = Unused
    <3>1. fire[j].ids = {}
      BY <2>1, <2>2, OfNoTask DEF Unused
    <3> QED
      BY <2>1, <3>1
  <2>3. CASE job[j] # Unused
    BY <1>2, <2>1, <2>3 DEF Kept
  <2> QED
    BY <2>2, <2>3
<1>6. ~ up' => \A d \in Coroutines : co'[d].pc = "idle"
  BY <1>1 DEF SoundInv
<1>7. ~ up' => \A j \in JobIds : fire'[j].pc \in {"none", "done"}
  BY DEF SoundInv
<1> QED
  BY <1>3, <1>4, <1>5, <1>6, <1>7 DEF SoundInv

LEMMA PlanningIsSound ==
  ASSUME NEW r \in CoRecord, NEW s, Carried(r)
  PROVE  /\ Carried(Planning(r, s)) /\ PlaceOf(Planning(r, s))
         /\ Planning(r, s).pc # "arm"
<1> DEFINE planned == IF s.open THEN Planned(s.deadline) ELSE {}
<1> HIDE DEF planned
<1>2. Planning(r, s) = CASE planned # {} -> [r EXCEPT !.pc = "row", !.left = planned]
                         [] planned = {} /\ r.resync -> [r EXCEPT !.pc = "reset"]
                         [] OTHER -> Idle
  BY DEF Planning, planned
<1>3. CASE planned # {}
  <2>1. Planning(r, s) = [r EXCEPT !.pc = "row", !.left = planned]
    BY <1>2, <1>3
  <2> QED
    BY <2>1 DEF CoRecord, Carried, PlaceOf
<1>4. CASE planned = {} /\ r.resync
  <2>1. Planning(r, s) = [r EXCEPT !.pc = "reset"]
    BY <1>2, <1>4
  <2> QED
    BY <1>4, <2>1 DEF CoRecord, Carried, PlaceOf
<1>5. CASE planned = {} /\ ~r.resync
  <2>1. Planning(r, s) = Idle
    BY <1>2, <1>5
  <2> QED
    BY <2>1, IdleIsSound, IdleIsRecord
<1> QED
  BY <1>3, <1>4, <1>5

LEMMA EnteredIsSound ==
  ASSUME TypeInv, NEW c \in Coroutines, Carried(co[c]),
         NEW s \in TaskSnaps, s.ids \subseteq OfTask(s.t)
  PROVE  /\ Carried(Entered(c, s)) /\ PlaceOf(Entered(c, s))
         /\ Entered(c, s).pc # "arm"
<1> DEFINE r == [co[c] EXCEPT !.snap = s, !.made = {}]
<1>1. /\ r \in CoRecord /\ r.snap = s /\ r.made = {}
      /\ r.todo = co[c].todo /\ r.resync = co[c].resync
  BY DEF TypeInv, CoRecord, TaskSnaps
<1>4. Carried(r)
  BY <1>1 DEF Carried
<1> HIDE DEF r
<1>2. CASE s.ids # {}
  <2>1. Entered(c, s) = [r EXCEPT !.pc = "cancel"]
    BY <1>2 DEF Entered, r
  <2> QED
    BY <1>1, <1>2, <1>4, <2>1 DEF Carried, PlaceOf, CoRecord
<1>3. CASE s.ids = {}
  <2>1. Entered(c, s) = Planning(r, s)
    BY <1>3 DEF Entered, r
  <2> QED
    BY <1>1, <1>4, <2>1, PlanningIsSound
<1> QED
  BY <1>2, <1>3

LEMMA SetIdsIsOwn ==
  ASSUME TypeInv, SoundInv, NEW u, NEW ids, ids \subseteq OfTask(u), SetIds(u, ids)
  PROVE  \A t \in Tasks : /\ task'[t].ids \subseteq OfTask(t)
                          /\ task'[t].state = task[t].state
                          /\ task'[t].deadline = task[t].deadline
                          /\ t # u => task'[t] = task[t]
                          /\ t = u => task'[t].ids = IF Present(t) THEN ids ELSE task[t].ids
BY DEF SetIds, SoundInv, TypeInv, TaskRecord

LEMMA SoundScheduleStep ==
  ASSUME Inv, SoundInv, NEW c \in Coroutines, ScheduleForTask(c)
  PROVE  SoundInv' /\ Kept
<1> DEFINE u == co[c].snap.t
<1>0. /\ TypeInv /\ co[c] \in CoRecord /\ co[c].snap \in Snaps
      /\ OwnOf(co[c]) /\ PlaceOf(co[c]) /\ Carried(co[c])
      /\ \A t \in Tasks : task[t].ids \subseteq OfTask(t)
      /\ mixed \subseteq ever
  BY DEF Inv, TypeInv, CoRecord, SoundInv, OwnOf, PlaceOf, Carried
<1>9. /\ co[c].pc # "idle" /\ up /\ UNCHANGED <<up, fire, mixed, ever>>
  BY DEF ScheduleForTask, Cancel, Clear, Reset, InsertRow, Arm, Store, SoundInv
<1>1. CASE Cancel(c)
  <2> DEFINE j == Min(co[c].snap.ids)
             s == [co[c].snap EXCEPT !.ids = @ \ {j}]
             r(pc) == [co[c] EXCEPT !.snap = s, !.pc = pc]
  <2>1. /\ co[c].pc = "cancel" /\ co[c].snap.ids # {}
        /\ s.t = u /\ s.ids = co[c].snap.ids \ {j}
    BY <1>0, <1>1 DEF Cancel, PlaceOf, Snaps
  <2>2. PICK pc \in {"cancel", "clear"} :
          co' = [co EXCEPT ![c] = r(pc)] /\ (pc = "cancel" => co[c].snap.ids # {j})
    <3>1. co' = [co EXCEPT ![c] = [co[c] EXCEPT !.snap = s,
                  !.pc = IF co[c].snap.ids = {j} THEN "clear" ELSE "cancel"]]
      BY <1>0, <1>1, <2>1 DEF Cancel, TypeInv, CoRecord, Snaps
    <3> HIDE DEF s, j
    <3>2. CASE co[c].snap.ids = {j}
      <4>1. co' = [co EXCEPT ![c] = r("clear")]
        BY <3>1, <3>2
      <4> QED
        BY <4>1
    <3>3. CASE co[c].snap.ids # {j}
      <4>1. co' = [co EXCEPT ![c] = r("cancel")]
        BY <3>1, <3>3
      <4> QED
        BY <3>3, <4>1
    <3> QED
      BY <3>2, <3>3
  <2>3. Carried(r(pc)) /\ PlaceOf(r(pc)) /\ r(pc).pc # "arm"
    <3>1. pc = "cancel" => co[c].snap.ids \ {j} # {}
      BY <2>1, <2>2
    <3> HIDE DEF s, j
    <3>2. /\ r(pc).pc = pc /\ r(pc).snap = s
          /\ r(pc).made = co[c].made /\ r(pc).todo = co[c].todo
          /\ r(pc).resync = co[c].resync
      BY <1>0 DEF CoRecord
    <3> HIDE DEF r
    <3> QED
      BY <1>0, <2>1, <3>1, <3>2 DEF Carried, PlaceOf
  <2>4. UNCHANGED <<task, job>>
    BY <1>1 DEF Cancel
  <2> HIDE DEF r, j
  <2> QED
    BY <1>0, <1>9, <2>2, <2>3, <2>4, SoundStep DEF Kept
<1>2. CASE Clear(c)
  <2>1. Carried(Planning(co[c], co[c].snap)) /\ PlaceOf(Planning(co[c], co[c].snap))
        /\ Planning(co[c], co[c].snap).pc # "arm"
    BY <1>0, PlanningIsSound
  <2>2. \A t \in Tasks : task'[t].ids \subseteq OfTask(t)
    BY <1>0, <1>2, SetIdsIsOwn DEF Clear
  <2>3. co' = [co EXCEPT ![c] = Planning(co[c], co[c].snap)] /\ UNCHANGED job
    BY <1>2 DEF Clear
  <2> QED
    BY <1>0, <1>9, <2>1, <2>2, <2>3, SoundStep DEF Kept
<1>3. CASE Reset(c)
  <2> DEFINE r == [co[c] EXCEPT !.pc = "next"]
  <2>1. Carried(r) /\ PlaceOf(r) /\ r.pc # "arm"
    BY <1>0, <1>3 DEF Reset, CoRecord, Carried, PlaceOf
  <2>2. \A t \in Tasks : task'[t].ids \subseteq OfTask(t)
    BY <1>0, <1>3, SetIdsIsOwn DEF Reset
  <2>3. co' = [co EXCEPT ![c] = r] /\ UNCHANGED job
    BY <1>3 DEF Reset, Goto
  <2> HIDE DEF r
  <2> QED
    BY <1>0, <1>9, <2>1, <2>2, <2>3, SoundStep DEF Kept
<1>4. CASE Store(c)
  <2>1. Carried(Done(c)) /\ PlaceOf(Done(c)) /\ Done(c).pc # "arm"
    BY <1>0, IdleIsSound, IdleIsRecord DEF Done, CoRecord, Carried, PlaceOf
  <2>2. \A t \in Tasks : task'[t].ids \subseteq OfTask(t)
    BY <1>0, <1>4, SetIdsIsOwn DEF Store, Carried
  <2>3. co' = [co EXCEPT ![c] = Done(c)] /\ UNCHANGED job
    BY <1>4 DEF Store
  <2> QED
    BY <1>0, <1>9, <2>1, <2>2, <2>3, SoundStep DEF Kept
<1>5. CASE InsertRow(c)
  <2>1. PICK j \in JobIds :
          /\ job[j] = Unused
          /\ job' = [job EXCEPT ![j] = [t |-> u, at |-> Min(co[c].left)]]
          /\ co' = [co EXCEPT ![c].pc = "arm", ![c].job = j]
    BY <1>5 DEF InsertRow
  <2> DEFINE r == [co[c] EXCEPT !.pc = "arm", !.job = j]
  <2>2. co' = [co EXCEPT ![c] = r]
    BY <1>0, <2>1 DEF TypeInv
  <2>3. /\ r.pc = "arm" /\ r.job = j /\ r.snap = co[c].snap /\ r.made = co[c].made
        /\ r.todo = co[c].todo /\ r.resync = co[c].resync
    BY <1>0 DEF CoRecord
  <2>4. Carried(r) /\ PlaceOf(r)
    BY <1>0, <2>3 DEF Carried, PlaceOf
  <2>5. u \in Tasks /\ Kept /\ UNCHANGED task
    BY <1>0, <1>5, <2>1 DEF Inv, AheadInv, AheadOf, InsertRow, TypeInv, Kept
  <2>6. job'[j] # Unused /\ job'[j].t = u
    <3>1. job'[j] = [t |-> u, at |-> Min(co[c].left)]
      BY <1>0, <2>1 DEF TypeInv
    <3> QED
      BY <2>5, <3>1, V1Assumption DEF Unused
  <2> HIDE DEF r
  <2> QED
    BY <1>0, <1>9, <2>2, <2>3, <2>4, <2>5, <2>6, SoundStep
<1>6. CASE Arm(c)
  <2> DEFINE j == co[c].job
             rest == co[c].left \ {job[j].at}
             r(pc) == [co[c] EXCEPT !.left = rest, !.job = 0,
                                    !.made = @ \union {j}, !.pc = pc]
  <2>1. PICK pc \in {"store", "row"} : co' = [co EXCEPT ![c] = r(pc)]
    <3>1. co' = [co EXCEPT ![c] = r(IF rest = {} THEN "store" ELSE "row")]
      BY <1>0, <1>6 DEF Arm, TypeInv
    <3> QED
      BY <3>1
  <2>2. /\ r(pc).pc = pc /\ r(pc).snap = co[c].snap /\ r(pc).made = co[c].made \union {j}
        /\ r(pc).todo = co[c].todo /\ r(pc).resync = co[c].resync
    BY <1>0 DEF CoRecord
  <2>3. j \in OfTask(u) /\ UNCHANGED <<task, job>>
    BY <1>0, <1>6 DEF Arm, OwnOf
  <2> HIDE DEF r, j
  <2>4. Carried(r(pc)) /\ PlaceOf(r(pc)) /\ r(pc).pc # "arm"
    BY <1>0, <2>2, <2>3 DEF Carried, PlaceOf
  <2> QED
    BY <1>0, <1>9, <2>1, <2>3, <2>4, SoundStep DEF Kept
<1> QED
  BY <1>1, <1>2, <1>3, <1>4, <1>5, <1>6 DEF ScheduleForTask

LEMMA SoundRequestStep ==
  ASSUME Inv, SoundInv, NEW c \in Coroutines,
         Resync(c) \/ ResyncUmo(c) \/ Check(c) \/ Insert(c) \/ Edit(c) \/ Remove(c)
  PROVE  SoundInv' /\ Kept
<1>0. /\ TypeInv /\ co[c] \in CoRecord /\ co[c].snap \in Snaps
      /\ OwnOf(co[c]) /\ PlaceOf(co[c]) /\ Carried(co[c])
      /\ \A t \in Tasks : task[t].ids \subseteq OfTask(t)
      /\ mixed \subseteq ever
  BY DEF Inv, TypeInv, CoRecord, SoundInv, OwnOf, PlaceOf, Carried
<1>9. up /\ UNCHANGED <<up, fire, job>> /\ Kept
  BY DEF Resync, ResyncUmo, Check, Insert, Edit, Remove, Free, SoundInv, Kept
<1>1. CASE Resync(c)
  <2> DEFINE r == [Idle EXCEPT !.pc = "tasks", !.resync = TRUE, !.owned = Tasks]
  <2>1. Carried(r) /\ PlaceOf(r) /\ r.pc # "arm"
    BY DEF Carried, PlaceOf, Idle, NoSnap
  <2>2. co' = [co EXCEPT ![c] = r] /\ mixed' \subseteq ever' /\ UNCHANGED task
    BY <1>1 DEF Resync, BeginResync
  <2> HIDE DEF r
  <2> QED
    BY <1>0, <1>9, <2>1, <2>2, SoundStep
<1>6. CASE ResyncUmo(c)
  <2> DEFINE r == [Idle EXCEPT !.pc = "own", !.resync = TRUE]
  <2>1. Carried(r) /\ PlaceOf(r) /\ r.pc # "arm"
    BY DEF Carried, PlaceOf, Idle, NoSnap
  <2>2. co' = [co EXCEPT ![c] = r] /\ mixed' \subseteq ever' /\ UNCHANGED task
    BY <1>0, <1>6 DEF ResyncUmo, Overlap
  <2> HIDE DEF r
  <2> QED
    BY <1>0, <1>9, <2>1, <2>2, SoundStep
<1>2. CASE Check(c)
  <2>1. PICK d \in Deadlines :
          co' = [co EXCEPT ![c] = [Idle EXCEPT !.pc = "insert", !.snap.deadline = d]]
    BY <1>2 DEF Check
  <2> DEFINE r == [Idle EXCEPT !.pc = "insert", !.snap.deadline = d]
  <2>2. Carried(r) /\ PlaceOf(r) /\ r.pc # "arm"
    BY DEF Carried, PlaceOf, Idle, NoSnap
  <2>3. UNCHANGED <<task, mixed, ever>>
    BY <1>2 DEF Check
  <2> HIDE DEF r
  <2> QED
    BY <1>0, <1>9, <2>1, <2>2, <2>3, SoundStep DEF r
<1>3. CASE Insert(c)
  <2>1. PICK t \in Tasks :
          /\ task' = [task EXCEPT ![t] = [state |-> "open", ids |-> {}, born |-> now,
                                         deadline |-> co[c].snap.deadline]]
          /\ co' = [co EXCEPT ![c] = Entered(c, [co[c].snap EXCEPT !.t = t, !.open = TRUE])]
          /\ Touch(t)
    BY <1>3 DEF Insert
  <2> DEFINE s == [co[c].snap EXCEPT !.t = t, !.open = TRUE]
  <2>2. s \in TaskSnaps /\ s.ids = {}
    BY <1>0, <1>3 DEF Insert, PlaceOf, Snaps, TaskSnaps
  <2> HIDE DEF s
  <2>3. Carried(Entered(c, s)) /\ PlaceOf(Entered(c, s)) /\ Entered(c, s).pc # "arm"
    BY <1>0, <2>2, EnteredIsSound
  <2>4. \A u \in Tasks : task'[u].ids \subseteq OfTask(u)
    BY <1>0, <2>1 DEF TypeInv
  <2>5. mixed' \subseteq ever'
    BY <1>0, <2>1 DEF Touch, Overlap
  <2> QED
    BY <1>0, <1>9, <2>1, <2>3, <2>4, <2>5, SoundStep DEF s
<1>4. CASE Edit(c)
  <2>1. PICK t \in Tasks, state \in {"open", "closed"}, d \in Deadlines :
          /\ Present(t)
          /\ task' = [task EXCEPT ![t].state = state, ![t].deadline = d]
          /\ co' = [co EXCEPT ![c] = Entered(c,
               [t |-> t, open |-> state = "open", deadline |-> d, ids |-> task[t].ids])]
          /\ Touch(t)
    BY <1>4, Zenon DEF Edit
  <2> DEFINE s == [t |-> t, open |-> state = "open", deadline |-> d, ids |-> task[t].ids]
  <2>2. s \in TaskSnaps /\ s.ids \subseteq OfTask(s.t)
    BY <1>0, V1Assumption DEF Snaps, TaskSnaps, TypeInv, TaskRecord
  <2> HIDE DEF s
  <2>3. Carried(Entered(c, s)) /\ PlaceOf(Entered(c, s)) /\ Entered(c, s).pc # "arm"
    BY <1>0, <2>2, EnteredIsSound
  <2>4. \A u \in Tasks : task'[u].ids = task[u].ids
    BY <1>0, <2>1 DEF TypeInv, TaskRecord
  <2>5. mixed' \subseteq ever'
    BY <1>0, <2>1 DEF Touch, Overlap
  <2> QED
    BY <1>0, <1>9, <2>1, <2>3, <2>4, <2>5, SoundStep DEF s
<1>5. CASE Remove(c)
  <2>1. PICK t \in Tasks :
          /\ task' = [task EXCEPT ![t] = [state |-> "gone", deadline |-> 0, born |-> 0, ids |-> {}]]
          /\ co' = [co EXCEPT ![c] = Entered(c, [Snap(t) EXCEPT !.open = FALSE])]
          /\ Touch(t)
    BY <1>5 DEF Remove
  <2> DEFINE s == [Snap(t) EXCEPT !.open = FALSE]
  <2>2. s \in TaskSnaps /\ s.ids = task[t].ids /\ s.t = t
    BY <1>0, SnapIsSnap DEF Snaps, TaskSnaps, Snap
  <2> HIDE DEF s
  <2>3. Carried(Entered(c, s)) /\ PlaceOf(Entered(c, s)) /\ Entered(c, s).pc # "arm"
    BY <1>0, <2>2, EnteredIsSound
  <2>4. \A u \in Tasks : task'[u].ids \subseteq OfTask(u)
    BY <1>0, <2>1 DEF TypeInv
  <2>5. mixed' \subseteq ever'
    BY <1>0, <2>1 DEF Touch, Overlap
  <2> QED
    BY <1>0, <1>9, <2>1, <2>3, <2>4, <2>5, SoundStep DEF s
<1> QED
  BY <1>1, <1>2, <1>3, <1>4, <1>5, <1>6

LEMMA SoundResyncStep ==
  ASSUME Inv, SoundInv, NEW c \in Coroutines, ResyncAll(c)
  PROVE  SoundInv' /\ Kept
<1>0. /\ TypeInv /\ co[c] \in CoRecord /\ co[c].snap \in Snaps
      /\ OwnOf(co[c]) /\ PlaceOf(co[c]) /\ Carried(co[c])
      /\ \A t \in Tasks : task[t].ids \subseteq OfTask(t)
      /\ mixed \subseteq ever
  BY DEF Inv, TypeInv, CoRecord, SoundInv, OwnOf, PlaceOf, Carried
<1>9. /\ up /\ UNCHANGED <<up, task, fire, job, mixed, ever>> /\ Kept
      /\ co[c].resync
  <2>1. /\ co[c].pc \in {"tasks", "own", "closed", "rows", "sweep", "next"}
        /\ UNCHANGED <<up, task, fire, job, mixed, ever>>
    BY DEF ResyncAll, ListTasks, ListClosed, ListRows, Sweep, NextTask
  <2> QED
    BY <1>0, <2>1 DEF SoundInv, Kept, PlaceOf
<1>1. CASE ListTasks(c)
  <2>1. PICK R \in Soonest({t \in Tasks : Open(t)}, Limit) :
          co' = [co EXCEPT ![c].todo = {Snap(t) : t \in R},
                           ![c].owned = @ \union R,
                           ![c].pc = IF @ = "tasks" THEN "rows" ELSE "closed"]
    BY <1>1 DEF ListTasks
  <2> DEFINE todo == {Snap(t) : t \in R}
             r(pc) == [co[c] EXCEPT !.todo = todo, !.owned = @ \union R, !.pc = pc]
  <2>2. \A s \in todo : s.ids \subseteq OfTask(s.t)
    <3>1. \A t : Snap(t).ids = task[t].ids /\ Snap(t).t = t
      BY DEF Snap
    <3>2. R \subseteq Tasks
      BY <2>1 DEF Soonest
    <3> QED
      BY <1>0, <3>1, <3>2
  <2> HIDE DEF todo
  <2>3. PICK pc \in {"rows", "closed"} : co' = [co EXCEPT ![c] = r(pc)]
    BY <1>0, <2>1 DEF TypeInv, todo
  <2>4. Carried(r(pc)) /\ PlaceOf(r(pc)) /\ r(pc).pc # "arm"
    BY <1>0, <1>9, <2>2 DEF CoRecord, Carried, PlaceOf
  <2> HIDE DEF r
  <2> QED
    BY <1>0, <1>9, <2>3, <2>4, SoundStep
<1>5. CASE ListClosed(c)
  <2>1. PICK R : co' = [co EXCEPT ![c].owned = @ \union R, ![c].pc = "rows"]
    BY <1>5 DEF ListClosed
  <2> DEFINE r == [co[c] EXCEPT !.owned = @ \union R, !.pc = "rows"]
  <2>2. co' = [co EXCEPT ![c] = r]
    BY <1>0, <2>1 DEF TypeInv
  <2>3. Carried(r) /\ PlaceOf(r) /\ r.pc # "arm"
    BY <1>0, <1>9 DEF CoRecord, Carried, PlaceOf
  <2> HIDE DEF r
  <2> QED
    BY <1>0, <1>9, <2>2, <2>3, SoundStep
<1>2. CASE ListRows(c)
  <2> DEFINE swept == {j \in row : job[j].t \in co[c].owned}
             r(pc) == [co[c] EXCEPT !.sweep = swept, !.pc = pc]
  <2>1. PICK pc \in {"next", "sweep"} : co' = [co EXCEPT ![c] = r(pc)]
    BY <1>0, <1>2 DEF ListRows, TypeInv
  <2>2. Carried(r(pc)) /\ PlaceOf(r(pc)) /\ r(pc).pc # "arm"
    BY <1>0, <1>9 DEF CoRecord, Carried, PlaceOf
  <2> HIDE DEF r
  <2> QED
    BY <1>0, <1>9, <2>1, <2>2, SoundStep
<1>3. CASE Sweep(c)
  <2>0. PICK j \in co[c].sweep :
          co' = [co EXCEPT ![c].sweep = @ \ {j},
                           ![c].pc = IF co[c].sweep = {j} THEN "next" ELSE @]
    BY <1>3 DEF Sweep
  <2> DEFINE r(pc) == [co[c] EXCEPT !.sweep = @ \ {j}, !.pc = pc]
  <2>1. PICK pc \in {"next", "sweep"} : co' = [co EXCEPT ![c] = r(pc)]
    BY <1>0, <1>3, <2>0 DEF Sweep, TypeInv
  <2>2. Carried(r(pc)) /\ PlaceOf(r(pc)) /\ r(pc).pc # "arm"
    BY <1>0, <1>9 DEF CoRecord, Carried, PlaceOf
  <2> HIDE DEF r
  <2> QED
    BY <1>0, <1>9, <2>1, <2>2, SoundStep
<1>4. CASE NextTask(c)
  <2>2. CASE co[c].todo = {}
    <3>1. co' = [co EXCEPT ![c] = Idle]
      BY <1>4, <2>2 DEF NextTask
    <3> QED
      BY <1>0, <1>9, <3>1, IdleIsSound, IdleIsRecord, SoundStep
  <2>3. CASE co[c].todo # {}
    <3>1. PICK s \in co[c].todo :
            co' = [co EXCEPT ![c] = [Entered(c, s) EXCEPT !.todo = @ \ {s}]]
      BY <1>4, <2>3 DEF NextTask
    <3>2. s \in TaskSnaps /\ s.ids \subseteq OfTask(s.t)
      BY <1>0 DEF CoRecord, Carried
    <3>3. /\ Carried(Entered(c, s)) /\ PlaceOf(Entered(c, s)) /\ Entered(c, s).pc # "arm"
          /\ Entered(c, s) \in CoRecord
      BY <1>0, <3>2, EnteredIsSound, EnteredIsCalm DEF Calm
    <3> DEFINE r == [Entered(c, s) EXCEPT !.todo = @ \ {s}]
    <3>4. Carried(r) /\ PlaceOf(r) /\ r.pc # "arm"
      BY <3>3 DEF CoRecord, Carried, PlaceOf
    <3> HIDE DEF r
    <3> QED
      BY <1>0, <1>9, <3>1, <3>4, SoundStep DEF r
  <2> QED
    BY <2>2, <2>3
<1> QED
  BY <1>1, <1>2, <1>3, <1>4, <1>5 DEF ResyncAll

LEMMA SoundHandlerStep ==
  ASSUME Inv, SoundInv, NEW j \in JobIds, Handler(j)
  PROVE  SoundInv' /\ Kept
<1> DEFINE u == job[j].t
<1>0. /\ TypeInv /\ UNCHANGED <<now, up, job, co>> /\ Kept
      /\ \A t : OfTask(t)' = OfTask(t)
  BY DEF Inv, Handler, SkipRun, Load, Send, SelfDelete, Drop, Kept, OfTask, JobIds
<1>1. up
  BY DEF Handler, SkipRun, Load, Send, SelfDelete, Drop, SoundInv
<1>2. job[j] # Unused /\ u \in Tasks
  <2>1. j \in live \/ fire[j].pc # "none"
    BY DEF Handler, SkipRun, Load, Due, Send, SelfDelete, Drop
  <2> QED
    BY <2>1 DEF Inv, UnusedInv, TypeInv
<1>3. /\ fire[j].ids \subseteq OfTask(u) /\ task[u].ids \subseteq OfTask(u)
      /\ \A t \in Tasks : task[t].ids \subseteq OfTask(t)
      /\ mixed \subseteq ever
  BY <1>2 DEF SoundInv
<1>4. \A t \in Tasks : task'[t].ids \subseteq OfTask(t)
  <2>1. CASE Drop(j)
    <3>1. fire[j].ids \ {j} \subseteq OfTask(u) /\ SetIds(u, fire[j].ids \ {j})
      BY <1>3, <2>1 DEF Drop
    <3> HIDE DEF u
    <3> QED
      BY <1>0, <3>1, SetIdsIsOwn
  <2>2. CASE ~Drop(j)
    BY <1>3, <2>2 DEF Handler, SkipRun, Load, Send, SelfDelete
  <2> QED
    BY <2>1, <2>2
<1>5. /\ fire'[j].ids \subseteq OfTask(u)
      /\ \A i \in JobIds : i # j => fire'[i] = fire[i]
  <2>1. CASE Load(j)
    <3>1. CASE j \notin row
      <4>1. fire' = [fire EXCEPT ![j] = [fire[j] EXCEPT !.pc = "done"]]
        BY <1>0, <2>1, <3>1 DEF Load, TypeInv
      <4> QED
        BY <1>0, <1>3, <4>1 DEF TypeInv
    <3>2. CASE j \in row
      <4>1. PICK pc \in {"send", "delete"} :
              fire' = [fire EXCEPT ![j] = [pc |-> pc, ids |-> task[u].ids]]
        BY <2>1, <3>2 DEF Load
      <4> QED
        BY <1>0, <1>3, <4>1 DEF TypeInv
    <3> QED
      BY <3>1, <3>2
  <2>2. CASE Send(j)
    <3>1. fire' = [fire EXCEPT ![j] = [fire[j] EXCEPT !.pc = "delete"]]
      BY <1>0, <2>2 DEF Send, TypeInv
    <3> QED
      BY <1>0, <1>3, <3>1 DEF TypeInv
  <2>3. CASE SelfDelete(j)
    <3>1. fire' = [fire EXCEPT ![j] = [fire[j] EXCEPT !.pc = "drop"]]
      BY <1>0, <2>3 DEF SelfDelete, TypeInv
    <3> QED
      BY <1>0, <1>3, <3>1 DEF TypeInv
  <2>4. CASE Drop(j)
    <3>1. fire' = [fire EXCEPT ![j] = [NoFire EXCEPT !.pc = "done"]]
      BY <2>4 DEF Drop
    <3> QED
      BY <1>0, <1>3, <3>1 DEF TypeInv, NoFire
  <2>5. CASE SkipRun(j)
    BY <1>3, <2>5 DEF SkipRun
  <2> QED
    BY <2>1, <2>2, <2>3, <2>4, <2>5 DEF Handler
<1>6. mixed' \subseteq ever'
  BY <1>3 DEF Handler, SkipRun, Load, Send, SelfDelete, Drop, Touch, Overlap
<1>7. ASSUME NEW c \in Coroutines PROVE OwnOf(co[c])' /\ PlaceOf(co[c])'
  <2>1. OwnOf(co[c]) /\ PlaceOf(co[c]) /\ co'[c] = co[c]
    BY <1>0 DEF SoundInv
  <2> QED
    BY <1>0, <2>1 DEF OwnOf, PlaceOf
<1>8. ASSUME NEW i \in JobIds PROVE (fire[i].ids \subseteq OfTask(job[i].t))'
  BY <1>0, <1>5 DEF SoundInv
<1> HIDE DEF u
<1> QED
  BY <1>0, <1>1, <1>4, <1>6, <1>7, <1>8 DEF SoundInv

LEMMA SoundProcessStep ==
  ASSUME Inv, SoundInv, Crash \/ Bind \/ Tick
  PROVE  SoundInv' /\ Kept
<1>0. TypeInv /\ Kept /\ UNCHANGED <<task, job>> /\ \A t : OfTask(t)' = OfTask(t)
  BY DEF Inv, Crash, Bind, Tick, Kept, OfTask, JobIds
<1>1. CASE Crash
  <2>1. /\ co' = [c \in Coroutines |-> Idle] /\ UNCHANGED <<mixed, ever>>
        /\ \A j \in JobIds : fire'[j].ids = {} /\ fire'[j].pc \in {"none", "done"}
    BY <1>1 DEF Crash, NoFire
  <2>2. ASSUME NEW c \in Coroutines
        PROVE  co'[c] = Idle /\ OwnOf(co[c])' /\ PlaceOf(co[c])'
    <3>1. co'[c] = Idle
      BY <2>1
    <3> QED
      BY <3>1 DEF OwnOf, PlaceOf, Idle, NoSnap
  <2> QED
    BY <1>0, <2>1, <2>2, IdleIsRecord DEF SoundInv
<1>2. CASE Bind
  <2> DEFINE r == [Idle EXCEPT !.pc = "tasks", !.resync = TRUE, !.owned = Tasks]
  <2>1. Carried(r) /\ PlaceOf(r) /\ r.pc # "arm"
    BY DEF Carried, PlaceOf, Idle, NoSnap
  <2>2. /\ co' = [co EXCEPT ![Boot] = r] /\ mixed' \subseteq ever' /\ up'
        /\ UNCHANGED fire /\ Boot \in Coroutines
    BY <1>2 DEF Bind, BeginResync, SoundInv, Coroutines
  <2>3. \A t \in Tasks : task'[t].ids \subseteq OfTask(t)
    BY <1>0 DEF SoundInv
  <2> HIDE DEF r
  <2> QED
    BY <1>0, <2>1, <2>2, <2>3, SoundStep
<1>3. CASE Tick
  <2>1. UNCHANGED <<up, task, job, co, fire, mixed, ever>>
    BY <1>3 DEF Tick
  <2> QED
    BY <1>0, <2>1 DEF SoundInv, OwnOf, PlaceOf
<1> QED
  BY <1>1, <1>2, <1>3

\* A step that leaves a task and its jobs alone.
Same(t) ==
  /\ now' = now /\ task'[t] = task[t] /\ OfTask(t)' = OfTask(t)
  /\ t \in lost' <=> t \in lost
  /\ \A j \in Jobs(t) : Skipped(j) => Skipped(j)'
  /\ \A j \in OfTask(t) : /\ job'[j] = job[j]
                          /\ j \in live' <=> j \in live
                          /\ j \in row' <=> j \in row

LEMMA JobsAreOfTask == Inv => \A t \in Tasks : Jobs(t) = live \intersect row \intersect OfTask(t)
BY DEF Inv, TypeInv, UnusedInv, Jobs, OfTask

LEMMA SameView ==
  ASSUME Inv, Inv', NEW t \in Tasks, Same(t)
  PROVE  /\ Jobs(t)' = Jobs(t) /\ Jobs(t) \subseteq OfTask(t)
         /\ Open(t)' <=> Open(t)
         /\ \A d : Planned(d)' = Planned(d)
         /\ Snap(t)' = Snap(t)
         /\ \A j \in Jobs(t) : job'[j] = job[j]
<1>1. Jobs(t) = live \intersect row \intersect OfTask(t)
  BY JobsAreOfTask
<1>2. Jobs(t)' = live' \intersect row' \intersect OfTask(t)'
  BY DEF Inv, TypeInv, UnusedInv, Jobs, OfTask
<1>3. Jobs(t)' = Jobs(t)
  BY <1>1, <1>2 DEF Same
<1> QED
  BY <1>1, <1>3 DEF Same, Open, Planned, Snap

LEMMA SameSettled ==
  ASSUME Inv, Inv', NEW t \in Tasks, Same(t)
  PROVE  /\ \A X : Covers(t, X) => Covers(t, X)'
         /\ Settled(t) => Settled(t)'
<1>1. /\ Jobs(t)' = Jobs(t) /\ (Open(t)' <=> Open(t))
      /\ \A d : Planned(d)' = Planned(d)
      /\ \A j \in Jobs(t) : job'[j] = job[j]
      /\ task'[t] = task[t] /\ now' = now /\ (t \in lost' <=> t \in lost)
  BY SameView DEF Same
<1>2. Distinct(t)' <=> Distinct(t)
  BY <1>1 DEF Distinct
<1>3. ASSUME NEW X, Covers(t, X) PROVE Covers(t, X)'
  <2>1. \A j \in Jobs(t) : Skipped(j) => Skipped(j)'
    BY DEF Same
  <2> QED
    BY <1>1, <1>2, <1>3, <2>1 DEF Covers
<1> QED
  BY <1>1, <1>3 DEF Settled

LEMMA SameWork ==
  ASSUME Inv, Inv', SoundInv, NEW t \in Tasks, Same(t),
         NEW c \in Coroutines, co'[c] = co[c], AtWork(c, t)
  PROVE  AtWork(c, t)'
<1>1. /\ Jobs(t)' = Jobs(t) /\ (Open(t)' <=> Open(t)) /\ Snap(t)' = Snap(t)
      /\ \A d : Planned(d)' = Planned(d)
      /\ \A j \in Jobs(t) : job'[j] = job[j]
      /\ task'[t] = task[t] /\ now' = now
      /\ (t \in lost' <=> t \in lost) /\ OfTask(t)' = OfTask(t)
  BY SameView DEF Same
<1>2. Settled(t) => Settled(t)'
  BY SameSettled
<1>3. CASE Mine(c, t)
  <2>1. Scheduling(c, t) /\ Mine(c, t)'
    BY <1>3 DEF AtWork, Mine
  <2>2. Halfway(c, t) => Halfway(c, t)'
    BY <1>1 DEF Halfway, Distinct
  <2>3. co[c].pc = "arm" => (co[c].job \in row /\ job[co[c].job].at \in co[c].left)'
    <3>1. co[c].pc = "arm" => co[c].job \in OfTask(t)
      BY <1>3 DEF Mine, SoundInv, OwnOf
    <3> QED
      BY <2>1, <3>1 DEF Scheduling, Same
  <2>4. Scheduling(c, t)'
    BY <1>1, <2>1, <2>2, <2>3 DEF Scheduling
  <2> QED
    BY <2>1, <2>4 DEF AtWork
<1>4. CASE ~ Mine(c, t)
  <2>1. Resyncing(c, t) /\ ~ Mine(c, t)'
    BY <1>4 DEF AtWork, Mine
  <2>2. Awaited(c, t)' <=> Awaited(c, t)
    BY DEF Awaited
  <2>3. Resyncing(c, t)'
    BY <1>1, <1>2, <2>1, <2>2 DEF Resyncing, ResyncPlaces, SchedulePlaces
  <2> QED
    BY <2>1, <2>3 DEF AtWork
<1> QED
  BY <1>3, <1>4

LEMMA SameFiring ==
  ASSUME Inv, Inv', NEW t \in Tasks, Same(t),
         NEW j \in JobIds, fire'[j] = fire[j], Fires(j, t), Firing(j, t)
  PROVE  Firing(j, t)'
<1>1. /\ Jobs(t)' = Jobs(t) /\ (Open(t)' <=> Open(t))
      /\ task'[t] = task[t] /\ now' = now /\ (t \in lost' <=> t \in lost)
  BY SameView DEF Same
<1>2. Covers(t, {j})'
  BY SameSettled DEF Firing
<1>3. job'[j] = job[j]
  BY DEF Fires, Inv, UnusedInv, Same, OfTask
<1> QED
  BY <1>1, <1>2, <1>3 DEF Firing

\* Who works on a task's schedule after a step.
LEMMA SameFires ==
  ASSUME Inv, Kept, NEW t, NEW j \in JobIds, fire'[j] = fire[j]
  PROVE  Fires(j, t)' <=> Fires(j, t)
<1>1. CASE job[j] = Unused
  BY <1>1 DEF Inv, UnusedInv, Fires
<1>2. CASE job[j] # Unused
  BY <1>2 DEF Kept, Fires
<1> QED
  BY <1>1, <1>2

\* A step beside a task: the one that makes it is at work on the task's
\* schedule after it, or was not before.
LEMMA Beside ==
  ASSUME Inv, Inv', SoundInv, Kept, NEW t \in Tasks, Same(t), Good(t),
         NEW c \in Coroutines, \A d \in Coroutines : d # c => co'[d] = co[d],
         Schedules(c, t)' <=> Schedules(c, t),
         Schedules(c, t) => AtWork(c, t)',
         UNCHANGED fire
  PROVE  Good(t)'
<1>1. \A d \in Coroutines : Schedules(d, t)' <=> Schedules(d, t)
  <2> TAKE d \in Coroutines
  <2>1. CASE d # c
    BY <2>1 DEF Schedules
  <2> QED
    BY <2>1
<1>2. \A j \in JobIds : Fires(j, t)' <=> Fires(j, t)
  BY SameFires
<1>3. Worked(t)' <=> Worked(t)
  BY <1>1, <1>2 DEF Worked
<1>4. \A d \in Coroutines : Alone(d, t)' <=> Alone(d, t)
  BY <1>1, <1>2 DEF Alone
<1>5. ~ Worked(t) => Settled(t)'
  BY SameSettled DEF Good
<1>6. ASSUME NEW d \in Coroutines, Schedules(d, t) PROVE Alone(d, t)' /\ AtWork(d, t)'
  <2>1. Alone(d, t)' /\ AtWork(d, t)
    BY <1>4, <1>6 DEF Good
  <2>2. CASE d = c
    BY <1>6, <2>1, <2>2
  <2>3. CASE d # c
    BY <2>1, <2>3, SameWork
  <2> QED
    BY <2>1, <2>2, <2>3
<1>7. ASSUME NEW j \in JobIds, Fires(j, t) PROVE Firing(j, t)'
  BY <1>7, SameFiring DEF Good
<1> QED
  BY <1>1, <1>2, <1>3, <1>5, <1>6, <1>7 DEF Good

\* A step of the only one that works on the task's schedule.
LEMMA Within ==
  ASSUME Inv, Kept, NEW t \in Tasks, NEW c \in Coroutines, Alone(c, t),
         \A d \in Coroutines : d # c => co'[d] = co[d], UNCHANGED fire,
         Schedules(c, t)' => AtWork(c, t)',
         ~ Schedules(c, t)' => Settled(t)'
  PROVE  Good(t)'
<1>1. \A d \in Coroutines : d # c => ~ Schedules(d, t)'
  BY DEF Alone, Schedules
<1>2. \A j \in JobIds : ~ Fires(j, t)'
  BY SameFires DEF Alone
<1>3. ~ Worked(t)' => Settled(t)'
  BY DEF Worked
<1>4. ASSUME NEW d \in Coroutines, Schedules(d, t)' PROVE Alone(d, t)' /\ AtWork(d, t)'
  <2>1. d = c
    BY <1>1, <1>4
  <2> QED
    BY <1>1, <1>2, <1>4, <2>1 DEF Alone
<1> QED
  BY <1>2, <1>3, <1>4 DEF Good

\* A step of a coroutine that is at another task before it and after it.
LEMMA Elsewhere ==
  ASSUME Inv, Inv', SoundInv, Kept, NEW t \in Tasks, Same(t), Good(t),
         NEW c \in Coroutines, NEW r, co' = [co EXCEPT ![c] = r], UNCHANGED fire,
         ~ Mine(c, t), r.pc \in SchedulePlaces => r.snap.t # t,
         \/ /\ co[c].resync /\ r.resync /\ r.owned = co[c].owned
            /\ co[c].pc \in SchedulePlaces \union {"next"}
            /\ r.pc \in SchedulePlaces \union {"next"}
            /\ \A s : s.t = t => (s \in r.todo <=> s \in co[c].todo)
         \/ /\ ~ co[c].resync /\ ~ r.resync
            /\ co[c].pc \in SchedulePlaces \union {"idle", "insert"}
            /\ r.pc \in SchedulePlaces \union {"idle", "insert"}
  PROVE  Good(t)'
<1>1. co'[c] = r /\ \A d \in Coroutines : d # c => co'[d] = co[d]
  BY DEF Inv, TypeInv
<1>2. CASE ~ co[c].resync
  <2>1. ~ Schedules(c, t) /\ ~ Schedules(c, t)'
    BY <1>1, <1>2 DEF Schedules, Mine, SchedulePlaces
  <2> QED
    BY <1>1, <2>1, Beside
<1>3. CASE co[c].resync
  <2>1. Schedules(c, t) /\ Schedules(c, t)' /\ ~ Mine(c, t)'
    BY <1>1, <1>3 DEF Schedules, Mine, SchedulePlaces
  <2>2. Resyncing(c, t)
    BY <2>1 DEF Good, AtWork
  <2>3. /\ Jobs(t)' = Jobs(t) /\ Snap(t)' = Snap(t) /\ (Open(t)' <=> Open(t))
        /\ Settled(t) => Settled(t)'
    BY SameView, SameSettled
  <2>4. Awaited(c, t)' <=> Awaited(c, t)
    BY <1>1, <1>3 DEF Awaited
  <2>5. \A s \in co'[c].todo : s.t = t => s = Snap(t)' /\ Open(t)' /\ t \in co'[c].owned
    BY <1>1, <1>3, <2>2, <2>3 DEF Resyncing, ResyncPlaces
  <2>6. t \in co'[c].owned => IF Awaited(c, t)' THEN Jobs(t)' = {} ELSE Settled(t)'
    BY <1>1, <1>3, <2>2, <2>3, <2>4 DEF Resyncing
  <2>7. co'[c].pc \notin {"closed", "rows", "sweep"}
    BY <1>1, <1>3 DEF SchedulePlaces
  <2>10. t \notin co'[c].owned => Settled(t)'
    BY <1>1, <1>3, <2>2, <2>3 DEF Resyncing
  <2>8. Resyncing(c, t)'
    BY <2>5, <2>6, <2>7, <2>10 DEF Resyncing
  <2>9. AtWork(c, t)'
    BY <2>1, <2>8 DEF AtWork
  <2> QED
    BY <1>1, <2>1, <2>9, Beside
<1> QED
  BY <1>2, <1>3

LEMMA PlanningPlaces ==
  ASSUME NEW r \in CoRecord, NEW s
  PROVE  \/ /\ Planning(r, s).pc = "row" /\ s.open
            /\ Planning(r, s).left = Planned(s.deadline)
            /\ Planning(r, s).snap = r.snap /\ Planning(r, s).made = r.made
            /\ Planning(r, s).todo = r.todo /\ Planning(r, s).resync = r.resync
            /\ Planning(r, s).owned = r.owned
         \/ /\ Planning(r, s).pc = "reset" /\ (s.open => Planned(s.deadline) = {})
            /\ Planning(r, s).snap = r.snap /\ Planning(r, s).todo = r.todo
            /\ r.resync /\ Planning(r, s).resync /\ Planning(r, s).owned = r.owned
         \/ /\ Planning(r, s) = Idle /\ (s.open => Planned(s.deadline) = {})
            /\ ~ r.resync
<1> DEFINE planned == IF s.open THEN Planned(s.deadline) ELSE {}
<1>1. /\ planned # {} => s.open /\ planned = Planned(s.deadline)
      /\ planned = {} => (s.open => Planned(s.deadline) = {})
  OBVIOUS
<1>2. Planning(r, s) = CASE planned # {} -> [r EXCEPT !.pc = "row", !.left = planned]
                         [] planned = {} /\ r.resync -> [r EXCEPT !.pc = "reset"]
                         [] OTHER -> Idle
  BY DEF Planning
<1> HIDE DEF planned
<1>3. CASE planned # {}
  <2>1. Planning(r, s) = [r EXCEPT !.pc = "row", !.left = planned]
    BY <1>2, <1>3
  <2> QED
    BY <1>1, <1>3, <2>1 DEF CoRecord
<1>4. CASE planned = {} /\ r.resync
  <2>1. Planning(r, s) = [r EXCEPT !.pc = "reset"]
    BY <1>2, <1>4
  <2> QED
    BY <1>1, <1>4, <2>1 DEF CoRecord
<1>5. CASE planned = {} /\ ~r.resync
  <2>1. Planning(r, s) = Idle
    BY <1>2, <1>5
  <2> QED
    BY <1>1, <1>5, <2>1
<1> QED
  BY <1>3, <1>4, <1>5

LEMMA EnteredPlaces ==
  ASSUME TypeInv, NEW c \in Coroutines, NEW s \in TaskSnaps
  PROVE  \/ /\ Entered(c, s).pc = "cancel" /\ s.ids # {}
            /\ Entered(c, s).snap = s /\ Entered(c, s).made = {}
            /\ Entered(c, s).todo = co[c].todo /\ Entered(c, s).resync = co[c].resync
            /\ Entered(c, s).owned = co[c].owned
         \/ /\ Entered(c, s).pc = "row" /\ s.open /\ s.ids = {}
            /\ Entered(c, s).left = Planned(s.deadline)
            /\ Entered(c, s).snap = s /\ Entered(c, s).made = {}
            /\ Entered(c, s).todo = co[c].todo /\ Entered(c, s).resync = co[c].resync
            /\ Entered(c, s).owned = co[c].owned
         \/ /\ Entered(c, s).pc = "reset" /\ s.ids = {}
            /\ (s.open => Planned(s.deadline) = {})
            /\ Entered(c, s).snap = s /\ Entered(c, s).todo = co[c].todo
            /\ co[c].resync /\ Entered(c, s).resync /\ Entered(c, s).owned = co[c].owned
         \/ /\ Entered(c, s) = Idle /\ s.ids = {}
            /\ (s.open => Planned(s.deadline) = {}) /\ ~ co[c].resync
<1> DEFINE r == [co[c] EXCEPT !.snap = s, !.made = {}]
<1>1. /\ r \in CoRecord /\ r.snap = s /\ r.made = {}
      /\ r.todo = co[c].todo /\ r.resync = co[c].resync /\ r.owned = co[c].owned
  BY DEF TypeInv, CoRecord, TaskSnaps
<1>2. CASE s.ids # {}
  <2>1. Entered(c, s) = [r EXCEPT !.pc = "cancel"]
    BY <1>2 DEF Entered
  <2> HIDE DEF r
  <2> QED
    BY <1>1, <1>2, <2>1 DEF CoRecord
<1>3. CASE s.ids = {}
  <2>1. Entered(c, s) = Planning(r, s)
    BY <1>3 DEF Entered
  <2> HIDE DEF r
  <2> QED
    BY <1>1, <1>3, <2>1, PlanningPlaces
<1> QED
  BY <1>2, <1>3

LEMMA CancelMoves ==
  ASSUME TypeInv, NEW c \in Coroutines, Cancel(c)
  PROVE  \E r : /\ co' = [co EXCEPT ![c] = r]
                /\ r.pc = IF co[c].snap.ids = {Min(co[c].snap.ids)} THEN "clear" ELSE "cancel"
                /\ r.snap.t = co[c].snap.t /\ r.snap.open = co[c].snap.open
                /\ r.snap.deadline = co[c].snap.deadline
                /\ r.snap.ids = co[c].snap.ids \ {Min(co[c].snap.ids)}
                /\ r.made = co[c].made /\ r.todo = co[c].todo /\ r.resync = co[c].resync
                /\ r.owned = co[c].owned
<1> DEFINE j == Min(co[c].snap.ids)
           s == [co[c].snap EXCEPT !.ids = @ \ {j}]
           pc == IF co[c].snap.ids = {j} THEN "clear" ELSE "cancel"
           r == [co[c] EXCEPT !.snap = s, !.pc = pc]
<1>1. co[c] \in CoRecord /\ co[c].snap \in Snaps
  BY DEF TypeInv, CoRecord
<1>2. co' = [co EXCEPT ![c] = r]
  BY <1>1 DEF Cancel, TypeInv, CoRecord, Snaps
<1>3. /\ s.t = co[c].snap.t /\ s.open = co[c].snap.open
      /\ s.deadline = co[c].snap.deadline /\ s.ids = co[c].snap.ids \ {j}
  BY <1>1 DEF Snaps
<1> HIDE DEF s, pc
<1>4. /\ r.pc = pc /\ r.snap = s /\ r.made = co[c].made /\ r.todo = co[c].todo
      /\ r.resync = co[c].resync /\ r.owned = co[c].owned
  BY <1>1 DEF CoRecord
<1> HIDE DEF r
<1> QED
  BY <1>2, <1>3, <1>4 DEF pc

LEMMA CancelKeeps ==
  ASSUME Inv, Inv', SoundInv, Kept, NEW c \in Coroutines, NEW t \in Tasks, Good(t),
         Cancel(c)
  PROVE  Good(t)'
<1> DEFINE u == co[c].snap.t
           j == Min(co[c].snap.ids)
<1>1. PICK r : /\ co' = [co EXCEPT ![c] = r]
               /\ r.pc = IF co[c].snap.ids = {j} THEN "clear" ELSE "cancel"
               /\ r.snap.t = u /\ r.snap.open = co[c].snap.open
               /\ r.snap.deadline = co[c].snap.deadline
               /\ r.snap.ids = co[c].snap.ids \ {j}
               /\ r.made = co[c].made /\ r.todo = co[c].todo /\ r.resync = co[c].resync
               /\ r.owned = co[c].owned
  BY CancelMoves DEF Inv
<1>2. /\ TypeInv /\ co[c] \in CoRecord /\ co[c].pc = "cancel"
      /\ co[c].snap.ids # {} /\ co[c].snap.ids \subseteq OfTask(u)
      /\ live' = live \ {j} /\ row' = row \ {j}
      /\ UNCHANGED <<now, task, next, job, fire, lost>>
  BY DEF Inv, TypeInv, SoundInv, PlaceOf, OwnOf, Cancel, DeleteJob
<1>3. j \in OfTask(u)
  <2>1. co[c].snap.ids \subseteq Nat
    BY <1>2 DEF CoRecord, Snaps
  <2>2. j \in co[c].snap.ids
    BY <1>2, <2>1, SmallestIsIn
  <2> QED
    BY <1>2, <2>2
<1>4. /\ co'[c] = r /\ \A d \in Coroutines : d # c => co'[d] = co[d]
      /\ OfTask(t)' = OfTask(t)
      /\ r.pc \in {"clear", "cancel"} /\ r.pc = "clear" => co[c].snap.ids = {j}
  BY <1>1, <1>2 DEF TypeInv, OfTask, JobIds
<1> HIDE DEF j, u
<1>5. CASE t # u
  <2>1. Same(t)
    BY <1>2, <1>3, <1>4, <1>5 DEF Same, OfTask, Skipped
  <2>2. ~ Mine(c, t) /\ r.snap.t # t
    BY <1>1, <1>5 DEF Mine, u
  <2>3. co[c].resync \in BOOLEAN
    BY <1>2 DEF CoRecord
  <2> QED
    BY <1>1, <1>2, <1>4, <2>1, <2>2, <2>3, Elsewhere DEF SchedulePlaces
<1>6. CASE t = u
  <2>1. Schedules(c, t) /\ Mine(c, t) /\ Mine(c, t)'
    BY <1>1, <1>2, <1>4, <1>6 DEF Schedules, Mine, SchedulePlaces, u
  <2>2. Alone(c, t) /\ Scheduling(c, t)
    BY <2>1 DEF Good, AtWork
  <2>3. Jobs(t)' = Jobs(t) \ {j} /\ (Open(t)' <=> Open(t))
    BY <1>2 DEF Jobs, Open
  <2>4. Scheduling(c, t)'
    BY <1>1, <1>2, <1>4, <2>2, <2>3 DEF Scheduling
  <2>5. Schedules(c, t)' /\ AtWork(c, t)'
    BY <1>4, <2>1, <2>4 DEF AtWork, Schedules, Mine, SchedulePlaces
  <2> QED
    BY <1>2, <1>4, <2>2, <2>5, Within
<1> QED
  BY <1>5, <1>6

LEMMA ClearKeeps ==
  ASSUME Inv, Inv', SoundInv, Kept, NEW c \in Coroutines, NEW t \in Tasks, Good(t),
         Clear(c)
  PROVE  Good(t)'
<1> DEFINE u == co[c].snap.t
           r == Planning(co[c], co[c].snap)
<1>1. /\ TypeInv /\ co[c] \in CoRecord /\ co[c].pc = "clear" /\ co[c].made = {}
      /\ co' = [co EXCEPT ![c] = r] /\ SetIds(u, {})
      /\ UNCHANGED <<now, row, live, next, job, fire, lost>>
      /\ OfTask(t)' = OfTask(t)
  BY DEF Inv, TypeInv, SoundInv, PlaceOf, Clear, OfTask, JobIds
<1>2. /\ co'[c] = r /\ \A d \in Coroutines : d # c => co'[d] = co[d]
  BY <1>1 DEF TypeInv
<1>3. /\ task'[t].state = task[t].state /\ task'[t].deadline = task[t].deadline
      /\ t # u => task'[t] = task[t]
      /\ t = u => task'[t].ids = IF Present(t) THEN {} ELSE task[t].ids
  BY <1>1, SetIdsIsOwn
<1>4. LET s == co[c].snap IN
      \/ /\ r.pc = "row" /\ s.open /\ r.left = Planned(s.deadline)
         /\ r.snap = s /\ r.made = co[c].made /\ r.owned = co[c].owned
         /\ r.todo = co[c].todo /\ r.resync = co[c].resync
      \/ /\ r.pc = "reset" /\ (s.open => Planned(s.deadline) = {})
         /\ r.snap = s /\ r.todo = co[c].todo /\ co[c].resync /\ r.resync
         /\ r.owned = co[c].owned
      \/ r = Idle /\ (s.open => Planned(s.deadline) = {}) /\ ~ co[c].resync
  <2>1. co[c] \in CoRecord
    BY <1>1
  <2> QED
    BY <2>1, PlanningPlaces, Zenon
<1> HIDE DEF r, u
<1>5. CASE t # u
  <2>1. Same(t)
    BY <1>1, <1>3, <1>5 DEF Same, Skipped
  <2>2. ~ Mine(c, t) /\ (r.pc \in SchedulePlaces => r.snap.t # t)
    BY <1>4, <1>5 DEF Mine, u, Idle, SchedulePlaces
  <2>3. co[c].resync \in BOOLEAN /\ Idle.resync = FALSE /\ Idle.pc = "idle"
    BY <1>1 DEF CoRecord, Idle
  <2> QED
    BY <1>1, <1>2, <1>4, <2>1, <2>2, <2>3, Elsewhere DEF SchedulePlaces
<1>6. CASE t = u
  <2>1. Schedules(c, t) /\ Mine(c, t)
    BY <1>1, <1>6 DEF Schedules, Mine, SchedulePlaces, u
  <2>2. Alone(c, t) /\ Scheduling(c, t)
    BY <2>1 DEF Good, AtWork
  <2>3. /\ Jobs(t) = {} /\ Jobs(t)' = {} /\ (Open(t)' <=> Open(t))
        /\ \A d : Planned(d)' = Planned(d)
    BY <1>1, <1>3, <2>2 DEF Scheduling, Jobs, Open, Planned
  <2>4. CASE r.pc = "row"
    <3>1. /\ Open(t) /\ co[c].snap.deadline = task[t].deadline
          /\ r.left = Planned(task[t].deadline) /\ r.made = {}
          /\ r.snap = co[c].snap /\ r.todo = co[c].todo
      BY <1>1, <1>4, <2>2, <2>4, IdleIsRecord DEF Scheduling
    <3>2. Halfway(c, t)'
      BY <1>2, <1>3, <2>3, <3>1 DEF Halfway, Distinct
    <3>3. Scheduling(c, t)'
      BY <1>2, <1>3, <2>2, <2>3, <2>4, <3>1, <3>2 DEF Scheduling
    <3>4. Schedules(c, t)' /\ AtWork(c, t)'
      BY <1>2, <1>6, <2>4, <3>1, <3>3 DEF AtWork, Schedules, Mine, SchedulePlaces, u
    <3> QED
      BY <1>1, <1>2, <2>2, <3>4, Within
  <2>5. CASE r.pc = "reset"
    <3>1. /\ Open(t) => Planned(task[t].deadline) = {}
          /\ r.snap = co[c].snap /\ r.todo = co[c].todo
      BY <1>1, <1>4, <2>2, <2>5, IdleIsRecord DEF Scheduling
    <3>2. Scheduling(c, t)'
      BY <1>2, <1>3, <2>2, <2>3, <2>5, <3>1 DEF Scheduling
    <3>3. Schedules(c, t)' /\ AtWork(c, t)'
      BY <1>2, <1>6, <2>5, <3>1, <3>2 DEF AtWork, Schedules, Mine, SchedulePlaces, u
    <3> QED
      BY <1>1, <1>2, <2>2, <3>3, Within
  <2>6. CASE r = Idle
    <3>1. ~ Schedules(c, t)'
      BY <1>2, <2>6, IdleIsRecord DEF Schedules
    <3>2. Open(t) => Planned(task[t].deadline) = {}
      BY <1>4, <2>2, <2>6, IdleIsRecord DEF Scheduling
    <3>3. Open(t) => task'[t].ids = {}
      BY <1>3, <1>6 DEF Open, Present
    <3>4. Settled(t)'
      BY <1>3, <2>3, <3>2, <3>3 DEF Settled, Covers, Distinct
    <3> QED
      BY <1>1, <1>2, <2>2, <3>1, <3>4, Within
  <2> QED
    BY <1>4, <2>4, <2>5, <2>6
<1> QED
  BY <1>5, <1>6

LEMMA ResetKeeps ==
  ASSUME Inv, Inv', SoundInv, Kept, NEW c \in Coroutines, NEW t \in Tasks, Good(t),
         Reset(c)
  PROVE  Good(t)'
<1> DEFINE u == co[c].snap.t
           r == [co[c] EXCEPT !.pc = "next"]
<1>1. /\ TypeInv /\ co[c] \in CoRecord /\ co[c].pc = "reset" /\ co[c].resync
      /\ co' = [co EXCEPT ![c] = r] /\ SetIds(u, {})
      /\ UNCHANGED <<now, row, live, next, job, fire, lost>>
      /\ OfTask(t)' = OfTask(t)
  BY DEF Inv, TypeInv, SoundInv, PlaceOf, Reset, Goto, OfTask, JobIds
<1>2. /\ co'[c] = r /\ \A d \in Coroutines : d # c => co'[d] = co[d]
      /\ r.pc = "next" /\ r.snap = co[c].snap /\ r.todo = co[c].todo /\ r.resync
      /\ r.owned = co[c].owned
  BY <1>1 DEF TypeInv, CoRecord
<1>3. /\ task'[t].state = task[t].state /\ task'[t].deadline = task[t].deadline
      /\ t # u => task'[t] = task[t]
      /\ t = u => task'[t].ids = IF Present(t) THEN {} ELSE task[t].ids
  BY <1>1, SetIdsIsOwn
<1> HIDE DEF r, u
<1>5. CASE t # u
  <2>1. Same(t)
    BY <1>1, <1>3, <1>5 DEF Same, Skipped
  <2>2. ~ Mine(c, t) /\ r.pc \notin SchedulePlaces
    BY <1>2, <1>5 DEF Mine, u, SchedulePlaces
  <2> QED
    BY <1>1, <1>2, <2>1, <2>2, Elsewhere DEF SchedulePlaces
<1>6. CASE t = u
  <2>1. Schedules(c, t) /\ Mine(c, t)
    BY <1>1, <1>6 DEF Schedules, Mine, SchedulePlaces, u
  <2>2. Alone(c, t) /\ Scheduling(c, t)
    BY <2>1 DEF Good, AtWork
  <2>3. /\ Jobs(t) = {} /\ Jobs(t)' = {} /\ (Open(t)' <=> Open(t))
        /\ \A d : Planned(d)' = Planned(d)
        /\ Open(t) => Planned(task[t].deadline) = {}
    BY <1>1, <1>3, <2>2 DEF Scheduling, Jobs, Open, Planned
  <2>4. Open(t) => task'[t].ids = {}
    BY <1>3, <1>6 DEF Open, Present
  <2>5. Settled(t)'
    BY <1>3, <2>3, <2>4 DEF Settled, Covers, Distinct
  <2>6. ~ Awaited(c, t)' /\ (\A s \in co'[c].todo : s.t # t)
    BY <1>2, <2>2 DEF Scheduling, Awaited
  <2>7. Resyncing(c, t)'
    BY <1>2, <2>5, <2>6 DEF Resyncing, ResyncPlaces
  <2>8. Schedules(c, t)' /\ AtWork(c, t)'
    BY <1>2, <2>7 DEF AtWork, Schedules, Mine, SchedulePlaces
  <2> QED
    BY <1>1, <1>2, <2>2, <2>8, Within
<1> QED
  BY <1>5, <1>6

LEMMA StoreKeeps ==
  ASSUME Inv, Inv', SoundInv, Kept, NEW c \in Coroutines, NEW t \in Tasks, Good(t),
         Store(c)
  PROVE  Good(t)'
<1> DEFINE u == co[c].snap.t
           r == Done(c)
<1>1. /\ TypeInv /\ co[c] \in CoRecord /\ co[c].pc = "store"
      /\ co[c].made \subseteq OfTask(u)
      /\ co' = [co EXCEPT ![c] = r] /\ SetIds(u, co[c].made)
      /\ UNCHANGED <<now, row, live, next, job, fire, lost>>
      /\ OfTask(t)' = OfTask(t)
  BY DEF Inv, TypeInv, SoundInv, OwnOf, Store, OfTask, JobIds
<1>2. /\ co'[c] = r /\ \A d \in Coroutines : d # c => co'[d] = co[d]
      /\ \/ /\ r.pc = "next" /\ r.todo = co[c].todo /\ co[c].resync /\ r.resync
            /\ r.owned = co[c].owned
         \/ r.pc = "idle" /\ ~ co[c].resync /\ ~ r.resync
  BY <1>1 DEF TypeInv, CoRecord, Done, Idle
<1>3. /\ task'[t].state = task[t].state /\ task'[t].deadline = task[t].deadline
      /\ t # u => task'[t] = task[t]
      /\ t = u => task'[t].ids = IF Present(t) THEN co[c].made ELSE task[t].ids
  BY <1>1, SetIdsIsOwn
<1> HIDE DEF r, u
<1>5. CASE t # u
  <2>1. Same(t)
    BY <1>1, <1>3, <1>5 DEF Same, Skipped
  <2>2. ~ Mine(c, t) /\ r.pc \notin SchedulePlaces
    BY <1>2, <1>5 DEF Mine, u, SchedulePlaces
  <2> QED
    BY <1>1, <1>2, <2>1, <2>2, Elsewhere DEF SchedulePlaces
<1>6. CASE t = u
  <2>1. Schedules(c, t) /\ Mine(c, t)
    BY <1>1, <1>6 DEF Schedules, Mine, SchedulePlaces, u
  <2>2. Alone(c, t) /\ Scheduling(c, t)
    BY <2>1 DEF Good, AtWork
  <2>3. /\ Halfway(c, t) /\ co[c].left = {}
        /\ \A s \in co[c].todo : s.t # t
    BY <1>1, <2>2 DEF Scheduling
  <2>4. /\ Jobs(t)' = Jobs(t) /\ Jobs(t) = co[c].made /\ Open(t) /\ Open(t)'
        /\ \A d : Planned(d)' = Planned(d)
    BY <1>1, <1>3, <2>3 DEF Halfway, Jobs, Open, Planned
  <2>5. task'[t].ids = co[c].made
    BY <1>3, <1>6, <2>4 DEF Open, Present
  <2>6. Covers(t, {})'
    BY <1>1, <1>3, <2>3, <2>4, <2>5 DEF Covers, Halfway, Distinct
  <2>7. Settled(t)'
    BY <2>4, <2>6 DEF Settled
  <2>8. CASE r.pc = "next"
    <3>1. ~ Awaited(c, t)' /\ (\A s \in co'[c].todo : s.t # t)
      BY <1>2, <2>3, <2>8 DEF Awaited
    <3>2. Resyncing(c, t)'
      BY <1>2, <2>7, <2>8, <3>1 DEF Resyncing
    <3>3. Schedules(c, t)' /\ AtWork(c, t)'
      BY <1>2, <2>8, <3>2 DEF AtWork, Schedules, Mine, SchedulePlaces
    <3> QED
      BY <1>1, <1>2, <2>2, <3>3, Within
  <2>9. CASE r.pc = "idle"
    <3>1. ~ Schedules(c, t)'
      BY <1>2, <2>9 DEF Schedules
    <3> QED
      BY <1>1, <1>2, <2>2, <2>7, <3>1, Within
  <2> QED
    BY <1>2, <2>8, <2>9
<1> QED
  BY <1>5, <1>6

LEMMA InsertRowKeeps ==
  ASSUME Inv, Inv', SoundInv, Kept, NEW c \in Coroutines, NEW t \in Tasks, Good(t),
         InsertRow(c)
  PROVE  Good(t)'
<1> DEFINE u == co[c].snap.t
<1>1. PICK j \in JobIds :
        /\ job[j] = Unused
        /\ job' = [job EXCEPT ![j] = [t |-> u, at |-> Min(co[c].left)]]
        /\ row' = row \union {j}
        /\ co' = [co EXCEPT ![c].pc = "arm", ![c].job = j]
  BY DEF InsertRow
<1> DEFINE r == [co[c] EXCEPT !.pc = "arm", !.job = j]
<1>2. /\ TypeInv /\ co[c] \in CoRecord /\ co[c].pc = "row" /\ u \in Tasks
      /\ co[c].left \subseteq Nat /\ co[c].left # {}
      /\ UNCHANGED <<now, task, live, next, fire, lost>>
      /\ co' = [co EXCEPT ![c] = r]
  BY <1>1 DEF Inv, TypeInv, CoRecord, AheadInv, AheadOf, InsertRow
<1>3. /\ co'[c] = r /\ \A d \in Coroutines : d # c => co'[d] = co[d]
      /\ r.pc = "arm" /\ r.job = j /\ r.snap = co[c].snap /\ r.todo = co[c].todo
      /\ r.resync = co[c].resync /\ r.made = co[c].made /\ r.left = co[c].left
      /\ r.owned = co[c].owned
  BY <1>2 DEF TypeInv, CoRecord
<1>4. /\ job'[j].t = u /\ job'[j].at \in co[c].left
      /\ \A i \in JobIds : i # j => job'[i] = job[i]
      /\ j \notin live /\ j \notin OfTask(t)
  <2>1. Min(co[c].left) \in co[c].left
    BY <1>2, SmallestIsIn
  <2>2. job'[j] = [t |-> u, at |-> Min(co[c].left)]
    BY <1>1, <1>2 DEF TypeInv
  <2> QED
    BY <1>1, <1>2, <2>1, <2>2 DEF TypeInv, OfTask, Inv, UnusedInv
<1> HIDE DEF r, u
<1>5. CASE t # u
  <2>1. OfTask(t)' = OfTask(t)
    BY <1>2, <1>4, <1>5 DEF OfTask, JobIds
  <2>2. Same(t)
    <3>1. \A i \in Jobs(t) : i # j
      BY <1>4 DEF Jobs
    <3>2. \A i \in Jobs(t) : i \in JobIds
      BY <1>2 DEF Jobs, TypeInv
    <3>3. \A i \in Jobs(t) : Skipped(i) => Skipped(i)'
      BY <1>2, <1>4, <3>1, <3>2 DEF Skipped
    <3> QED
      BY <1>1, <1>2, <1>4, <2>1, <3>3 DEF Same, OfTask
  <2>3. ~ Mine(c, t) /\ r.snap.t # t /\ co[c].resync \in BOOLEAN
    BY <1>2, <1>3, <1>5 DEF Mine, u, CoRecord
  <2> QED
    BY <1>2, <1>3, <2>2, <2>3, Elsewhere DEF SchedulePlaces
<1>6. CASE t = u
  <2>1. Schedules(c, t) /\ Mine(c, t)
    BY <1>2, <1>6 DEF Schedules, Mine, SchedulePlaces, u
  <2>2. Alone(c, t) /\ Scheduling(c, t)
    BY <2>1 DEF Good, AtWork
  <2>3. Halfway(c, t)
    BY <1>2, <2>2 DEF Scheduling
  <2>4. /\ Jobs(t)' = Jobs(t) /\ (Open(t)' <=> Open(t))
        /\ \A d : Planned(d)' = Planned(d)
        /\ \A i \in Jobs(t) : job'[i] = job[i]
    <3>1. \A i \in live : i \in JobIds /\ i # j
      BY <1>2, <1>4 DEF TypeInv
    <3> QED
      BY <1>1, <1>2, <1>4, <3>1 DEF Jobs, Open, Planned
  <2>5. Halfway(c, t)'
    BY <1>2, <1>3, <2>3, <2>4 DEF Halfway, Distinct
  <2>6. j \in row'
    BY <1>1
  <2>7. Scheduling(c, t)'
    BY <1>2, <1>3, <1>4, <2>2, <2>4, <2>5, <2>6 DEF Scheduling
  <2>8. Schedules(c, t)' /\ AtWork(c, t)'
    BY <1>3, <1>6, <2>7 DEF AtWork, Schedules, Mine, SchedulePlaces, u
  <2> QED
    BY <1>2, <1>3, <2>2, <2>8, Within
<1> QED
  BY <1>5, <1>6

LEMMA ArmKeeps ==
  ASSUME Inv, Inv', SoundInv, Kept, NEW c \in Coroutines, NEW t \in Tasks, Good(t),
         Arm(c)
  PROVE  Good(t)'
<1> DEFINE u == co[c].snap.t
           j == co[c].job
           rest == co[c].left \ {job[j].at}
           r == [co[c] EXCEPT !.left = rest, !.job = 0, !.made = @ \union {j},
                              !.pc = IF rest = {} THEN "store" ELSE "row"]
<1>1. /\ TypeInv /\ co[c] \in CoRecord /\ co[c].pc = "arm" /\ j \in OfTask(u)
      /\ live' = live \union {j} /\ UNCHANGED <<now, task, row, job, fire, lost>>
      /\ next' = [next EXCEPT ![j] = NextRun(job[j].at)]
      /\ co' = [co EXCEPT ![c] = r] /\ OfTask(t)' = OfTask(t)
  BY DEF Inv, TypeInv, SoundInv, OwnOf, Arm, OfTask, JobIds
<1>2. /\ co'[c] = r /\ \A d \in Coroutines : d # c => co'[d] = co[d]
      /\ r.pc = IF rest = {} THEN "store" ELSE "row"
      /\ r.left = rest /\ r.made = co[c].made \union {j}
      /\ r.snap = co[c].snap /\ r.todo = co[c].todo /\ r.resync = co[c].resync
      /\ r.owned = co[c].owned
  <2> HIDE DEF rest, j
  <2>1. CASE rest = {}
    BY <1>1, <2>1 DEF TypeInv, CoRecord
  <2>2. CASE rest # {}
    BY <1>1, <2>2 DEF TypeInv, CoRecord
  <2> QED
    BY <2>1, <2>2
<1>3. r.pc \in {"store", "row"} /\ (r.pc = "store" => rest = {})
  BY <1>2
<1> HIDE DEF r, u, j
<1>5. CASE t # u
  <2>1. Same(t)
    <3>1. \A i \in Jobs(t) : i # j /\ i \in JobIds
      BY <1>1, <1>5 DEF Jobs, OfTask, TypeInv
    <3>2. \A i \in Jobs(t) : Skipped(i) => Skipped(i)'
      BY <1>1, <3>1 DEF Skipped, TypeInv
    <3> QED
      BY <1>1, <1>5, <3>2 DEF Same, OfTask
  <2>2. ~ Mine(c, t) /\ r.snap.t # t /\ co[c].resync \in BOOLEAN
    BY <1>1, <1>2, <1>5 DEF Mine, u, CoRecord
  <2> QED
    BY <1>1, <1>2, <1>3, <2>1, <2>2, Elsewhere DEF SchedulePlaces
<1>6. CASE t = u
  <2>1. Schedules(c, t) /\ Mine(c, t)
    BY <1>1, <1>6 DEF Schedules, Mine, SchedulePlaces, u
  <2>2. Alone(c, t) /\ Scheduling(c, t)
    BY <2>1 DEF Good, AtWork
  <2>3. Halfway(c, t) /\ j \in row /\ job[j].at \in co[c].left
    BY <1>1, <2>2 DEF Scheduling, j
  <2>4. /\ Jobs(t)' = Jobs(t) \union {j} /\ (Open(t)' <=> Open(t))
        /\ \A d : Planned(d)' = Planned(d)
    BY <1>1, <1>6, <2>3 DEF Jobs, Open, Planned, OfTask
  <2>5. \A i \in Jobs(t) : job[i].at \notin co[c].left
    BY <2>3 DEF Halfway
  <2>6. Distinct(t)'
    BY <1>1, <2>3, <2>4, <2>5 DEF Distinct, Halfway
  <2>7. \A i \in Jobs(t)' : job'[i].at \in Planned(task[t].deadline) \ rest
    BY <1>1, <2>3, <2>4 DEF Halfway
  <2>8. \A at \in Planned(task[t].deadline) :
          at \in rest \/ \E i \in Jobs(t)' : job'[i].at = at
    BY <1>1, <2>3, <2>4 DEF Halfway
  <2>9. Halfway(c, t)'
    <3>1. Jobs(t)' = co'[c].made /\ Open(t)'
      BY <1>2, <2>3, <2>4 DEF Halfway
    <3>2. co'[c].left = rest /\ rest \subseteq Planned(task[t].deadline)
      BY <1>2, <2>3 DEF Halfway
    <3>3. Planned(task[t].deadline)' = Planned(task[t].deadline)
      BY <1>1 DEF Planned
    <3> HIDE DEF rest
    <3> QED
      BY <2>6, <2>7, <2>8, <3>1, <3>2, <3>3 DEF Halfway
  <2>10. Scheduling(c, t)'
    BY <1>1, <1>2, <1>3, <2>2, <2>4, <2>9 DEF Scheduling
  <2>11. Schedules(c, t)' /\ AtWork(c, t)'
    BY <1>2, <1>3, <1>6, <2>10 DEF AtWork, Schedules, Mine, SchedulePlaces, u
  <2> QED
    BY <1>1, <1>2, <2>2, <2>11, Within
<1> QED
  BY <1>5, <1>6

\* schedule_for_task begins on a snapshot that is what the row is by now, of a
\* task nobody else works on.
LEMMA EnterKeeps ==
  ASSUME Inv, Inv', SoundInv, Kept, NEW c \in Coroutines, NEW t \in Tasks, Alone(c, t),
         NEW s \in TaskSnaps, UNCHANGED <<now, row, live, job, fire>>,
         NEW r, co' = [co EXCEPT ![c] = r],
         r.pc = Entered(c, s).pc, r.snap = Entered(c, s).snap,
         r.left = Entered(c, s).left, r.made = Entered(c, s).made,
         s.t = t, s.open <=> Open(t)', Open(t)' => s.deadline = task'[t].deadline,
         \A x \in r.todo : x.t # t,
         Jobs(t) \subseteq s.ids, s.ids = {} => task'[t].ids = {}
  PROVE  Good(t)'
<1>1. /\ co'[c] = r /\ \A d \in Coroutines : d # c => co'[d] = co[d]
      /\ Jobs(t)' = Jobs(t) /\ \A d : Planned(d)' = Planned(d)
  BY DEF Inv, TypeInv, Jobs, Planned
<1>2. \/ r.pc = "cancel" /\ s.ids # {} /\ r.snap = s /\ r.made = {}
      \/ /\ r.pc = "row" /\ s.open /\ s.ids = {} /\ r.left = Planned(s.deadline)
         /\ r.snap = s /\ r.made = {}
      \/ /\ r.pc = "reset" /\ s.ids = {} /\ (s.open => Planned(s.deadline) = {})
         /\ r.snap = s
      \/ r.pc = "idle" /\ s.ids = {} /\ (s.open => Planned(s.deadline) = {})
  BY EnteredPlaces, IdleIsRecord DEF Inv
<1>3. CASE r.pc = "cancel"
  <2>1. Scheduling(c, t)'
    BY <1>1, <1>2, <1>3 DEF Scheduling
  <2>2. Schedules(c, t)' /\ AtWork(c, t)'
    BY <1>1, <1>2, <1>3, <2>1 DEF AtWork, Schedules, Mine, SchedulePlaces
  <2> QED
    BY <1>1, <2>2, Within
<1>4. CASE r.pc = "row"
  <2>1. Open(t)' /\ Jobs(t)' = {} /\ r.left = Planned(task'[t].deadline)
    BY <1>1, <1>2, <1>4
  <2>2. Halfway(c, t)'
    BY <1>1, <1>2, <1>4, <2>1 DEF Halfway, Distinct
  <2>3. Scheduling(c, t)'
    BY <1>1, <1>2, <1>4, <2>2 DEF Scheduling
  <2>4. Schedules(c, t)' /\ AtWork(c, t)'
    BY <1>1, <1>2, <1>4, <2>3 DEF AtWork, Schedules, Mine, SchedulePlaces
  <2> QED
    BY <1>1, <2>4, Within
<1>5. CASE r.pc = "reset"
  <2>1. Scheduling(c, t)'
    BY <1>1, <1>2, <1>5 DEF Scheduling
  <2>2. Schedules(c, t)' /\ AtWork(c, t)'
    BY <1>1, <1>2, <1>5, <2>1 DEF AtWork, Schedules, Mine, SchedulePlaces
  <2> QED
    BY <1>1, <2>2, Within
<1>6. CASE r.pc = "idle"
  <2>1. ~ Schedules(c, t)'
    BY <1>1, <1>6 DEF Schedules
  <2>2. Settled(t)'
    BY <1>1, <1>2, <1>6 DEF Settled, Covers, Distinct
  <2> QED
    BY <1>1, <2>1, <2>2, Within
<1> QED
  BY <1>2, <1>3, <1>4, <1>5, <1>6

\* A request begins on another task.
LEMMA EnterElsewhere ==
  ASSUME Inv, Inv', SoundInv, Kept, NEW c \in Coroutines, NEW t \in Tasks, Good(t),
         Same(t), NEW s \in TaskSnaps, s.t # t, UNCHANGED fire,
         co[c].pc \in {"idle", "insert"}, co' = [co EXCEPT ![c] = Entered(c, s)]
  PROVE  Good(t)'
<1> DEFINE r == Entered(c, s)
<1>1. ~ co[c].resync
  BY DEF SoundInv, PlaceOf
<1>2. /\ r.pc \in {"cancel", "row", "idle"} /\ ~ r.resync
      /\ r.pc # "idle" => r.snap = s
  BY <1>1, EnteredPlaces DEF Inv, Idle
<1> HIDE DEF r
<1>3. co' = [co EXCEPT ![c] = r]
  BY DEF r
<1>4. ~ Mine(c, t) /\ (r.pc \in SchedulePlaces => r.snap.t # t)
  BY <1>2 DEF Mine, SchedulePlaces
<1> QED
  BY <1>1, <1>2, <1>3, <1>4, Elsewhere DEF SchedulePlaces

\* Who finds nobody at work on a task finds its schedule settled.
LEMMA TouchFree ==
  ASSUME NEW t \in Tasks, Good(t), Touch(t), t \notin mixed', NEW c \in Coroutines
  PROVE  /\ Alone(c, t) /\ ~ Worked(t) /\ Settled(t)
         /\ Open(t) => Jobs(t) \subseteq task[t].ids
         /\ ~ Open(t) => Jobs(t) = {}
<1>1. ~ Worked(t)
  BY DEF Touch, Overlap
<1> QED
  BY <1>1 DEF Worked, Alone, Good, Settled, Covers

LEMMA RequestKeeps ==
  ASSUME Inv, Inv', SoundInv, Kept, NEW c \in Coroutines,
         NEW t \in Tasks, t \notin mixed', Good(t),
         Check(c) \/ Insert(c) \/ Edit(c) \/ Remove(c)
  PROVE  Good(t)'
<1>0. /\ TypeInv /\ co[c] \in CoRecord /\ co[c].snap \in Snaps /\ PlaceOf(co[c])
      /\ co[c].pc \in {"idle", "insert"} /\ ~ co[c].resync /\ co[c].todo = {}
      /\ UNCHANGED <<now, row, live, next, job, fire>> /\ OfTask(t)' = OfTask(t)
  <2>1. co[c].pc \in {"idle", "insert"} /\ UNCHANGED <<now, row, live, next, job, fire>>
    BY DEF Check, Insert, Edit, Remove, Free
  <2>2. TypeInv /\ co[c] \in CoRecord /\ co[c].snap \in Snaps
    BY DEF Inv, TypeInv, CoRecord
  <2>3. PlaceOf(co[c])
    BY DEF SoundInv
  <2>4. ~ co[c].resync
    BY <2>1, <2>3 DEF PlaceOf
  <2>5. co[c].todo = {}
    BY <2>3, <2>4 DEF PlaceOf
  <2>6. OfTask(t)' = OfTask(t)
    BY <2>1 DEF OfTask, JobIds
  <2> QED
    BY <2>1, <2>2, <2>3, <2>4, <2>5, <2>6
<1>1. CASE Check(c)
  <2>1. PICK d \in Deadlines :
          co' = [co EXCEPT ![c] = [Idle EXCEPT !.pc = "insert", !.snap.deadline = d]]
    BY <1>1 DEF Check
  <2> DEFINE r == [Idle EXCEPT !.pc = "insert", !.snap.deadline = d]
  <2>2. r.pc = "insert" /\ ~ r.resync
    BY DEF Idle
  <2>3. Same(t)
    BY <1>0, <1>1 DEF Check, Same, Skipped
  <2>4. ~ Mine(c, t) /\ r.pc \notin SchedulePlaces
    BY <1>0, <2>2 DEF Mine, SchedulePlaces
  <2> HIDE DEF r
  <2>5. co' = [co EXCEPT ![c] = r]
    BY <2>1 DEF r
  <2> QED
    BY <1>0, <2>2, <2>3, <2>4, <2>5, Elsewhere
<1>2. CASE Insert(c)
  <2>1. PICK u \in Tasks :
          /\ task[u].state = "fresh"
          /\ task' = [task EXCEPT ![u] = [state |-> "open", ids |-> {}, born |-> now,
                                         deadline |-> co[c].snap.deadline]]
          /\ co' = [co EXCEPT ![c] = Entered(c, [co[c].snap EXCEPT !.t = u, !.open = TRUE])]
          /\ Touch(u) /\ lost' = lost \ {u}
    BY <1>2 DEF Insert
  <2> DEFINE s == [co[c].snap EXCEPT !.t = u, !.open = TRUE]
  <2>2. /\ s \in TaskSnaps /\ s.ids = {} /\ s.t = u /\ s.open
        /\ s.deadline = co[c].snap.deadline
    BY <1>0, <1>2 DEF Insert, PlaceOf, Snaps, TaskSnaps
  <2> HIDE DEF s
  <2>3. co' = [co EXCEPT ![c] = Entered(c, s)]
    BY <2>1 DEF s
  <2>4. CASE t = u
    <3>1. /\ task'[t] = [state |-> "open", ids |-> {}, born |-> now,
                         deadline |-> co[c].snap.deadline]
          /\ ~ Open(t) /\ Open(t)'
      BY <1>0, <2>1, <2>4 DEF TypeInv, Open
    <3>2. Alone(c, t) /\ Jobs(t) = {}
      BY <2>1, <2>4, <3>1, TouchFree
    <3>3. \A x \in Entered(c, s).todo : x.t # t
      BY <1>0, <2>2, EnteredPlaces DEF Idle
    <3>4. /\ s.open <=> Open(t)'
          /\ Open(t)' => s.deadline = task'[t].deadline
          /\ task'[t].ids = {} /\ Jobs(t) \subseteq s.ids /\ s.t = t
      BY <2>2, <2>4, <3>1, <3>2
    <3> QED
      BY <1>0, <2>2, <2>3, <3>2, <3>3, <3>4, EnterKeeps
  <2>5. CASE t # u
    <3>1. Same(t)
      BY <1>0, <2>1, <2>5 DEF TypeInv, Same, Skipped
    <3> QED
      BY <1>0, <2>2, <2>3, <2>5, <3>1, EnterElsewhere
  <2> QED
    BY <2>4, <2>5
<1>3. CASE Edit(c)
  <2>1. PICK u \in Tasks, state \in {"open", "closed"}, d \in Deadlines :
          /\ Present(u)
          /\ task' = [task EXCEPT ![u].state = state, ![u].deadline = d]
          /\ co' = [co EXCEPT ![c] = Entered(c,
               [t |-> u, open |-> state = "open", deadline |-> d, ids |-> task[u].ids])]
          /\ Touch(u) /\ lost' = lost \ {u}
    BY <1>3, Zenon DEF Edit
  <2> DEFINE s == [t |-> u, open |-> state = "open", deadline |-> d, ids |-> task[u].ids]
  <2>2. /\ s \in TaskSnaps /\ s.ids = task[u].ids /\ s.t = u /\ (s.open <=> state = "open")
        /\ s.deadline = d
    BY <1>0, V1Assumption DEF Snaps, TaskSnaps, TypeInv, TaskRecord
  <2> HIDE DEF s
  <2>3. co' = [co EXCEPT ![c] = Entered(c, s)]
    BY <2>1 DEF s
  <2>6. /\ task'[u].state = state /\ task'[u].deadline = d /\ task'[u].ids = task[u].ids
        /\ t # u => task'[t] = task[t]
    BY <1>0, <2>1 DEF TypeInv, TaskRecord
  <2>4. CASE t = u
    <3>1. Alone(c, t) /\ Jobs(t) \subseteq task[t].ids
      BY <2>1, <2>4, TouchFree
    <3>2. s.open <=> Open(t)'
      BY <2>2, <2>4, <2>6 DEF Open
    <3>3. \A x \in Entered(c, s).todo : x.t # t
      BY <1>0, <2>2, EnteredPlaces DEF Idle
    <3> QED
      BY <1>0, <2>2, <2>3, <2>4, <2>6, <3>1, <3>2, <3>3, EnterKeeps
  <2>5. CASE t # u
    <3>1. Same(t)
      BY <1>0, <2>1, <2>5, <2>6 DEF Same, Skipped
    <3> QED
      BY <1>0, <2>2, <2>3, <2>5, <3>1, EnterElsewhere
  <2> QED
    BY <2>4, <2>5
<1>4. CASE Remove(c)
  <2>1. PICK u \in Tasks :
          /\ task' = [task EXCEPT ![u] = [state |-> "gone", deadline |-> 0, born |-> 0, ids |-> {}]]
          /\ co' = [co EXCEPT ![c] = Entered(c, [Snap(u) EXCEPT !.open = FALSE])]
          /\ Touch(u) /\ lost' = lost \ {u}
    BY <1>4 DEF Remove
  <2> DEFINE s == [Snap(u) EXCEPT !.open = FALSE]
  <2>2. s \in TaskSnaps /\ s.ids = task[u].ids /\ s.t = u /\ ~ s.open
    BY <1>0, SnapIsSnap DEF Snaps, TaskSnaps, Snap
  <2> HIDE DEF s
  <2>3. co' = [co EXCEPT ![c] = Entered(c, s)]
    BY <2>1 DEF s
  <2>4. CASE t = u
    <3>1. /\ task'[t] = [state |-> "gone", deadline |-> 0, born |-> 0, ids |-> {}]
          /\ ~ Open(t)'
      BY <1>0, <2>1, <2>4 DEF TypeInv, Open
    <3>2. Alone(c, t) /\ Jobs(t) \subseteq task[t].ids
      BY <2>1, <2>4, TouchFree
    <3>3. \A x \in Entered(c, s).todo : x.t # t
      BY <1>0, <2>2, EnteredPlaces DEF Idle
    <3>4. /\ s.open <=> Open(t)'
          /\ Open(t)' => s.deadline = task'[t].deadline
          /\ task'[t].ids = {} /\ Jobs(t) \subseteq s.ids /\ s.t = t
      BY <2>2, <2>4, <3>1, <3>2
    <3> QED
      BY <1>0, <2>2, <2>3, <3>2, <3>3, <3>4, EnterKeeps
  <2>5. CASE t # u
    <3>1. Same(t)
      BY <1>0, <2>1, <2>5 DEF TypeInv, Same, Skipped
    <3> QED
      BY <1>0, <2>2, <2>3, <2>5, <3>1, EnterElsewhere
  <2> QED
    BY <2>4, <2>5
<1> QED
  BY <1>1, <1>2, <1>3, <1>4

\* A resync will repair every task it found nobody at work on.
LEMMA BeginKeeps ==
  ASSUME Inv, Inv', Kept, NEW c \in Coroutines, BeginResync(c), UNCHANGED fire,
         NEW t \in Tasks, t \notin mixed'
  PROVE  Good(t)'
<1> DEFINE r == [Idle EXCEPT !.pc = "tasks", !.resync = TRUE, !.owned = Tasks]
<1>1. r.pc = "tasks" /\ r.owned = Tasks
  BY DEF Idle
<1>2. co' = [co EXCEPT ![c] = r] /\ ~ Worked(t)
  BY DEF BeginResync
<1> HIDE DEF r
<1>3. /\ co'[c] = r /\ \A d \in Coroutines : d # c => co'[d] = co[d]
      /\ Alone(c, t)
  BY <1>2 DEF Inv, TypeInv, Alone, Worked
<1>4. AtWork(c, t)'
  BY <1>1, <1>3 DEF AtWork, Mine, SchedulePlaces, ResyncPlaces, Resyncing
<1>5. Schedules(c, t)'
  <2>1. r.resync
    BY DEF r, Idle
  <2> QED
    BY <1>1, <1>3, <2>1 DEF Schedules
<1> QED
  BY <1>3, <1>4, <1>5, Within

\* A resync of one umo starts on schedules that are settled.
LEMMA OwnKeeps ==
  ASSUME Inv, Inv', Kept, NEW c \in Coroutines, ResyncUmo(c),
         NEW t \in Tasks, t \notin mixed', Good(t)
  PROVE  Good(t)'
<1> DEFINE r == [Idle EXCEPT !.pc = "own", !.resync = TRUE]
<1>1. r.pc = "own" /\ r.resync
  BY DEF Idle
<1>2. /\ co' = [co EXCEPT ![c] = r] /\ ~ Worked(t)
      /\ UNCHANGED <<now, task, row, live, next, job, fire, lost>>
  BY DEF ResyncUmo, Overlap
<1> HIDE DEF r
<1>3. /\ co'[c] = r /\ \A d \in Coroutines : d # c => co'[d] = co[d]
      /\ Alone(c, t)
  BY <1>2 DEF Inv, TypeInv, Alone, Worked
<1>4. Same(t) /\ Settled(t)
  BY <1>2 DEF Same, Skipped, OfTask, JobIds, Good
<1>5. Settled(t)'
  BY <1>4, SameSettled
<1>6. AtWork(c, t)'
  BY <1>1, <1>3, <1>5 DEF AtWork, Mine, SchedulePlaces, ResyncPlaces, Resyncing
<1>7. Schedules(c, t)'
  BY <1>1, <1>3 DEF Schedules
<1> QED
  BY <1>2, <1>3, <1>6, <1>7, Within

LEMMA ResyncKeeps ==
  ASSUME Inv, Inv', SoundInv, Kept, NEW c \in Coroutines, NEW t \in Tasks, Good(t),
         ResyncAll(c)
  PROVE  Good(t)'
<1>0. /\ TypeInv /\ co[c] \in CoRecord /\ co[c].resync /\ PlaceOf(co[c])
      /\ co[c].pc \in {"tasks", "own", "closed", "rows", "sweep", "next"}
      /\ UNCHANGED <<now, task, next, job, fire>> /\ OfTask(t)' = OfTask(t)
      /\ Snap(t)' = Snap(t) /\ (Open(t)' <=> Open(t)) /\ Snap(t).t = t
      /\ \A d : Planned(d)' = Planned(d)
  <2>1. /\ UNCHANGED <<now, task, next, job, fire>>
        /\ co[c].pc \in {"tasks", "own", "closed", "rows", "sweep", "next"}
    BY DEF ResyncAll, ListTasks, ListClosed, ListRows, Sweep, NextTask
  <2>2. PlaceOf(co[c])
    BY DEF SoundInv
  <2>3. TypeInv /\ co[c] \in CoRecord /\ co[c].resync
    BY <2>1, <2>2 DEF Inv, TypeInv, PlaceOf
  <2> QED
    BY <2>1, <2>2, <2>3 DEF OfTask, JobIds, Snap, Open, Planned
<1>1. Schedules(c, t) /\ ~ Mine(c, t)
  BY <1>0 DEF Schedules, Mine, SchedulePlaces
<1>2. Alone(c, t) /\ Resyncing(c, t)
  BY <1>1 DEF Good, AtWork
\* It goes on to a place where it is at no task.
<1>3. ASSUME co'[c].pc \in {"closed", "rows", "sweep", "next"}, co'[c].resync,
             \A d \in Coroutines : d # c => co'[d] = co[d], Resyncing(c, t)'
      PROVE  Good(t)'
  <2>1. Schedules(c, t)' /\ AtWork(c, t)'
    BY <1>3 DEF Schedules, AtWork, Mine, SchedulePlaces
  <2> QED
    BY <1>0, <1>2, <1>3, <2>1, Within
\* Once it knows its tasks, it leaves what it does not own as it is.
<1>4. ASSUME co[c].pc \in {"closed", "rows", "sweep"},
             co'[c].pc \in {"rows", "sweep", "next"}, co'[c].resync,
             co'[c].todo = co[c].todo, co[c].owned \subseteq co'[c].owned,
             \A d \in Coroutines : d # c => co'[d] = co[d],
             t \notin co'[c].owned => Same(t),
             t \in co'[c].owned \ co[c].owned => co'[c].pc = "rows" /\ ~ Open(t),
             UNCHANGED lost,
             co'[c].pc = "sweep" =>
               IF t \in co'[c].owned THEN Jobs(t)' \subseteq co'[c].sweep
               ELSE co'[c].sweep \intersect OfTask(t) = {},
             co'[c].pc = "next" /\ t \in co'[c].owned => Jobs(t)' = {}
      PROVE  Good(t)'
  <2>1. Awaited(c, t)' <=> Awaited(c, t)
    BY <1>4 DEF Awaited
  <2>2. /\ \A s \in co[c].todo : s.t = t => s = Snap(t) /\ Open(t) /\ t \in co[c].owned
        /\ t \in co[c].owned /\ Open(t) => Awaited(c, t) \/ t \in lost
        /\ t \notin co[c].owned => Settled(t)
    BY <1>2, <1>4 DEF Resyncing, ResyncPlaces
  <2>3. t \notin co'[c].owned => Settled(t)'
    BY <1>4, <2>2, SameSettled
  <2>4. co'[c].pc = "next" /\ t \in co'[c].owned =>
          IF Awaited(c, t)' THEN Jobs(t)' = {} ELSE Settled(t)'
    <3>1. SUFFICES ASSUME co'[c].pc = "next", t \in co'[c].owned, ~ Awaited(c, t)
                   PROVE  Settled(t)'
      BY <1>4, <2>1
    <3>2. Jobs(t)' = {} /\ (Open(t)' => t \in lost')
      BY <1>0, <1>4, <2>2, <3>1
    <3> QED
      BY <3>2 DEF Settled, Covers, Distinct
  <2>5. /\ \A s \in co'[c].todo :
             s.t = t => s = Snap(t)' /\ Open(t)' /\ t \in co'[c].owned
        /\ t \in co'[c].owned /\ Open(t)' => Awaited(c, t)' \/ t \in lost'
    BY <1>0, <1>4, <2>1, <2>2
  <2>6. co'[c].pc = "sweep" => IF t \in co'[c].owned THEN Jobs(t)' \subseteq co'[c].sweep
                               ELSE co'[c].sweep \intersect OfTask(t)' = {}
    BY <1>0, <1>4
  <2>7. co'[c].pc \notin SchedulePlaces
    BY <1>4 DEF SchedulePlaces
  <2>8. Resyncing(c, t)'
    BY <2>3, <2>4, <2>5, <2>6, <2>7 DEF Resyncing
  <2> QED
    BY <1>3, <1>4, <2>8
<1>5. CASE ListTasks(c)
  <2>1. PICK R \in Soonest({u \in Tasks : Open(u)}, Limit) :
          /\ co' = [co EXCEPT ![c].todo = {Snap(u) : u \in R},
                              ![c].owned = @ \union R,
                              ![c].pc = IF @ = "tasks" THEN "rows" ELSE "closed"]
          /\ lost' = IF co[c].pc = "tasks" THEN {u \in Tasks : Open(u)} \ R
                     ELSE lost \ R
    BY <1>5 DEF ListTasks
  <2>2. R \subseteq {u \in Tasks : Open(u)}
    BY <2>1 DEF Soonest
  <2> DEFINE todo == {Snap(u) : u \in R}
  <2>3. \A s \in todo : s.t = t => s = Snap(t) /\ Open(t) /\ t \in R
    BY <2>2 DEF Snap
  <2>4. t \in R => Snap(t) \in todo
    OBVIOUS
  <2> HIDE DEF todo
  <2>5. co[c].pc \in {"tasks", "own"} /\ UNCHANGED <<row, live>>
    BY <1>5 DEF ListTasks
  <2>6. /\ co'[c].pc = IF co[c].pc = "tasks" THEN "rows" ELSE "closed"
        /\ co'[c].todo = todo /\ co'[c].resync /\ co'[c].owned = co[c].owned \union R
        /\ \A d \in Coroutines : d # c => co'[d] = co[d]
    <3>1. co' = [co EXCEPT ![c].todo = todo,
                           ![c].owned = @ \union R,
                           ![c].pc = IF @ = "tasks" THEN "rows" ELSE "closed"]
      BY <2>1 DEF todo
    <3> QED
      BY <1>0, <3>1 DEF TypeInv, CoRecord
  <2>7. CASE co[c].pc = "tasks"
    <3>1. co[c].owned = Tasks /\ co'[c].pc = "rows"
      BY <1>0, <2>6, <2>7 DEF PlaceOf
    <3>2. t \notin R /\ Open(t) => t \in lost'
      BY <2>1, <2>7
    <3>3. t \in R => Awaited(c, t)'
      BY <1>0, <2>4, <2>6, <3>1 DEF Awaited
    <3>4. Resyncing(c, t)'
      BY <1>0, <2>3, <2>6, <3>1, <3>2, <3>3 DEF Resyncing, SchedulePlaces
    <3> QED
      BY <1>3, <2>6, <3>1, <3>4
  <2>8. CASE co[c].pc = "own"
    <3>1. co[c].owned = {} /\ co'[c].pc = "closed"
      BY <1>0, <2>5, <2>6, <2>8 DEF PlaceOf
    <3>2. t \in R => Awaited(c, t)'
      BY <1>0, <2>4, <2>6, <3>1 DEF Awaited
    <3>3. t \notin R => Settled(t)'
      <4>1. SUFFICES ASSUME t \notin R PROVE Settled(t)'
        OBVIOUS
      <4>2. t \in lost' <=> t \in lost
        BY <2>1, <2>8, <4>1
      <4>3. Same(t) /\ Settled(t)
        BY <1>0, <1>2, <2>5, <3>1, <4>2 DEF Same, Skipped, Resyncing
      <4> QED
        BY <4>3, SameSettled
    <3>4. Resyncing(c, t)'
      BY <1>0, <2>3, <2>6, <3>1, <3>2, <3>3 DEF Resyncing, SchedulePlaces
    <3> QED
      BY <1>3, <2>6, <3>1, <3>4
  <2> QED
    BY <2>5, <2>7, <2>8
<1>9. CASE ListClosed(c)
  <2>1. PICK R \in Soonest({u \in Tasks : Present(u) /\ ~ Open(u)}, ClosedLimit) :
          co' = [co EXCEPT ![c].owned = @ \union R, ![c].pc = "rows"]
    BY <1>9 DEF ListClosed
  <2>2. t \in R => ~ Open(t)
    BY <2>1 DEF Soonest
  <2>3. /\ co'[c].pc = "rows" /\ co'[c].resync /\ co'[c].todo = co[c].todo
        /\ co'[c].owned = co[c].owned \union R
        /\ \A d \in Coroutines : d # c => co'[d] = co[d]
    BY <1>0, <2>1 DEF TypeInv, CoRecord
  <2>4. co[c].pc = "closed" /\ UNCHANGED lost /\ Same(t)
    BY <1>0, <1>9 DEF ListClosed, Same, Skipped
  <2> QED
    BY <1>4, <2>2, <2>3, <2>4
<1>6. CASE ListRows(c)
  <2> DEFINE swept == {j \in row : job[j].t \in co[c].owned}
  <2>1. /\ co'[c].pc = IF swept = {} THEN "next" ELSE "sweep"
        /\ co'[c].sweep = swept /\ co'[c].todo = co[c].todo
        /\ co'[c].resync /\ co'[c].owned = co[c].owned
        /\ \A d \in Coroutines : d # c => co'[d] = co[d]
    BY <1>0, <1>6 DEF ListRows, TypeInv, CoRecord
  <2>2. UNCHANGED <<row, live, lost>> /\ co[c].pc = "rows"
    BY <1>6 DEF ListRows
  <2>3. /\ t \in co[c].owned => Jobs(t)' \subseteq swept
        /\ t \notin co[c].owned => swept \intersect OfTask(t) = {}
    BY <1>0, <2>2 DEF Jobs, OfTask
  <2>4. Same(t)
    BY <1>0, <2>2 DEF Same, Skipped
  <2> HIDE DEF swept
  <2>5. co'[c].pc = "next" /\ t \in co'[c].owned => Jobs(t)' = {}
    BY <2>1, <2>3
  <2>6. co'[c].pc \in {"sweep", "next"}
    BY <2>1
  <2> QED
    BY <1>4, <2>1, <2>2, <2>3, <2>4, <2>5, <2>6
<1>7. CASE Sweep(c)
  <2>1. PICK j \in co[c].sweep :
          /\ live' = live \ {j} /\ row' = row \ {j}
          /\ co' = [co EXCEPT ![c].sweep = @ \ {j},
                              ![c].pc = IF co[c].sweep = {j} THEN "next" ELSE @]
    BY <1>7 DEF Sweep, DeleteJob
  <2>2. UNCHANGED lost /\ co[c].pc = "sweep"
    BY <1>7 DEF Sweep
  <2>3. /\ co'[c].pc = IF co[c].sweep = {j} THEN "next" ELSE "sweep"
        /\ co'[c].sweep = co[c].sweep \ {j} /\ co'[c].todo = co[c].todo
        /\ co'[c].resync /\ co'[c].owned = co[c].owned
        /\ \A d \in Coroutines : d # c => co'[d] = co[d]
    BY <1>0, <2>1, <2>2 DEF TypeInv, CoRecord
  <2>4. t \in co[c].owned => Jobs(t)' \subseteq co[c].sweep \ {j}
    <3>1. t \in co[c].owned => Jobs(t) \subseteq co[c].sweep
      BY <1>2, <2>2 DEF Resyncing
    <3> QED
      BY <1>0, <2>1, <3>1 DEF Jobs
  <2>5. t \notin co[c].owned => co[c].sweep \intersect OfTask(t) = {}
    BY <1>2, <2>2 DEF Resyncing
  <2>6. t \notin co[c].owned => Same(t)
    <3>1. t \notin co[c].owned => j \notin OfTask(t)
      BY <2>1, <2>5
    <3> QED
      BY <1>0, <2>1, <2>2, <3>1 DEF Same, Skipped
  <2>7. co'[c].pc = "next" /\ t \in co'[c].owned => Jobs(t)' = {}
    BY <2>3, <2>4
  <2>8. co'[c].pc \in {"sweep", "next"}
    BY <2>3
  <2> QED
    BY <1>4, <2>2, <2>3, <2>4, <2>5, <2>6, <2>7, <2>8
<1>8. CASE NextTask(c)
  <2>1. UNCHANGED <<row, live, lost>> /\ co[c].pc = "next"
    BY <1>8 DEF NextTask
  <2>2. /\ \A s \in co[c].todo : s.t = t => s = Snap(t) /\ Open(t) /\ t \in co[c].owned
        /\ IF Awaited(c, t) THEN Jobs(t) = {} ELSE Settled(t)
    BY <1>2, <2>1 DEF Resyncing, ResyncPlaces, Awaited
  <2>3. Same(t)
    BY <1>0, <2>1 DEF Same, Skipped
  <2>4. CASE co[c].todo = {}
    <3>1. co' = [co EXCEPT ![c] = Idle]
      BY <1>8, <2>4 DEF NextTask
    <3>2. co'[c] = Idle /\ \A d \in Coroutines : d # c => co'[d] = co[d]
      BY <1>0, <3>1 DEF TypeInv
    <3>3. Settled(t)'
      BY <2>2, <2>3, <2>4, SameSettled DEF Awaited
    <3>4. ~ Schedules(c, t)'
      BY <3>2, IdleIsRecord DEF Schedules
    <3> QED
      BY <1>0, <1>2, <3>2, <3>3, <3>4, Within
  <2>5. CASE co[c].todo # {}
    <3>1. PICK s \in co[c].todo :
            co' = [co EXCEPT ![c] = [Entered(c, s) EXCEPT !.todo = @ \ {s}]]
      BY <1>8, <2>5 DEF NextTask
    <3>2. s \in TaskSnaps
      BY <1>0 DEF CoRecord
    <3> DEFINE e == Entered(c, s)
               r == [e EXCEPT !.todo = @ \ {s}]
    <3>3. /\ e \in CoRecord /\ e.todo = co[c].todo /\ e.resync
          /\ e.pc \in {"cancel", "row", "reset"} /\ e.snap = s /\ e.owned = co[c].owned
      BY <1>0, <3>2, EnteredPlaces, EnteredIsCalm DEF Calm
    <3> HIDE DEF e
    <3>4. /\ r.pc = e.pc /\ r.snap = e.snap /\ r.left = e.left /\ r.made = e.made
          /\ r.resync = e.resync /\ r.todo = co[c].todo \ {s} /\ r.owned = e.owned
      BY <3>3 DEF CoRecord
    <3> HIDE DEF r
    <3>5. co' = [co EXCEPT ![c] = r]
      BY <3>1 DEF r, e
    <3>6. CASE s.t = t
      <4>1. s = Snap(t) /\ Open(t) /\ Jobs(t) = {}
        BY <2>2, <3>6 DEF Awaited
      <4>2. \A x \in r.todo : x.t # t
        BY <2>2, <3>4, <4>1
      <4>3. /\ s.open <=> Open(t)' /\ s.deadline = task'[t].deadline
            /\ s.ids = {} => task'[t].ids = {}
        BY <1>0, <4>1 DEF Snap, Open
      <4>4. /\ s.open <=> Open(t)'
            /\ Open(t)' => s.deadline = task'[t].deadline
            /\ Jobs(t) \subseteq s.ids
        BY <1>0, <4>1, <4>3 DEF Snap, Open
      <4> QED
        BY <1>0, <1>2, <2>1, <3>2, <3>4, <3>5, <3>6, <4>2, <4>3, <4>4, EnterKeeps DEF e
    <3>7. CASE s.t # t
      <4>1. \A x : x.t = t => (x \in r.todo <=> x \in co[c].todo)
        BY <3>4, <3>7
      <4> QED
        BY <1>0, <1>1, <2>1, <2>3, <3>3, <3>4, <3>5, <3>7, <4>1, Elsewhere DEF SchedulePlaces
    <3> QED
      BY <3>6, <3>7
  <2> QED
    BY <2>4, <2>5
<1> QED
  BY <1>5, <1>6, <1>7, <1>8, <1>9 DEF ResyncAll

\* A handler's step beside a task it does not work on, before or after.
LEMMA BesideHandler ==
  ASSUME Inv, Inv', SoundInv, Kept, NEW t \in Tasks, Same(t), Good(t), UNCHANGED co,
         NEW j \in JobIds, \A i \in JobIds : i # j => fire'[i] = fire[i],
         ~ Fires(j, t), ~ Fires(j, t)'
  PROVE  Good(t)'
<1>1. \A c \in Coroutines : Schedules(c, t)' <=> Schedules(c, t)
  BY DEF Schedules
<1>2. \A i \in JobIds : Fires(i, t)' <=> Fires(i, t)
  <2> TAKE i \in JobIds
  <2>1. CASE i = j
    BY <2>1
  <2>2. CASE i # j
    BY <2>2, SameFires
  <2> QED
    BY <2>1, <2>2
<1>3. Worked(t)' <=> Worked(t)
  BY <1>1, <1>2 DEF Worked
<1>4. \A c \in Coroutines : Alone(c, t)' <=> Alone(c, t)
  BY <1>1, <1>2 DEF Alone
<1>5. ~ Worked(t) => Settled(t)'
  BY SameSettled DEF Good
<1>6. ASSUME NEW c \in Coroutines, Schedules(c, t) PROVE Alone(c, t)' /\ AtWork(c, t)'
  BY <1>4, <1>6, SameWork DEF Good
<1>7. ASSUME NEW i \in JobIds, Fires(i, t) PROVE Firing(i, t)'
  BY <1>7, SameFiring DEF Good
<1> QED
  BY <1>1, <1>2, <1>3, <1>5, <1>6, <1>7 DEF Good

\* A step of the only one that works on the task, a handler.
LEMMA WithinHandler ==
  ASSUME Inv, Kept, NEW t \in Tasks, UNCHANGED co, NEW j \in JobIds,
         \A i \in JobIds : i # j => fire'[i] = fire[i] /\ ~ Fires(i, t),
         \A c \in Coroutines : ~ Schedules(c, t),
         Fires(j, t)' => Firing(j, t)',
         ~ Fires(j, t)' => Settled(t)'
  PROVE  Good(t)'
<1>1. \A c \in Coroutines : ~ Schedules(c, t)'
  BY DEF Schedules
<1>2. \A i \in JobIds : i # j => ~ Fires(i, t)'
  BY SameFires
<1> QED
  BY <1>1, <1>2 DEF Good, Worked

\* A run that is skipped moves the job to next year.
LEMMA SkipKeeps ==
  ASSUME Inv, Inv', SoundInv, Kept, NEW j \in JobIds, SkipRun(j),
         NEW t \in Tasks, Good(t)
  PROVE  Good(t)'
<1>1. /\ UNCHANGED <<now, task, row, live, job, co, fire, lost>>
      /\ fire[j].pc = "none" /\ Started(j)
  BY DEF SkipRun, Due
<1>2. \A i \in JobIds : Skipped(i) => Skipped(i)'
  <2>1. /\ next' \in [JobIds -> Nat] /\ next'[j] = next[j] + Year
        /\ \A i \in JobIds : i # j => next'[i] = next[i]
    BY <1>1, StartedIsTyped DEF Inv
  <2>2. \A i \in JobIds : job[i].at \in Nat /\ next[i] \in Nat
    BY DEF Inv, TypeInv, Unused
  <2> QED
    BY <1>1, <2>1, <2>2, V1Assumption DEF Skipped
<1>3. Same(t)
  <2>1. Jobs(t) \subseteq JobIds
    BY DEF Inv, TypeInv, Jobs
  <2> QED
    BY <1>1, <1>2, <2>1 DEF Same, OfTask, JobIds
<1>4. ~ Fires(j, t) /\ ~ Fires(j, t)'
  BY <1>1 DEF Fires
<1> QED
  BY <1>1, <1>3, <1>4, BesideHandler

LEMMA HandlerKeeps ==
  ASSUME Inv, Inv', SoundInv, Kept, NEW j \in JobIds, Handler(j), ~ SkipRun(j),
         NEW t \in Tasks, t \notin mixed', Good(t)
  PROVE  Good(t)'
<1> DEFINE u == job[j].t
<1>0. /\ TypeInv /\ UNCHANGED <<now, job, co>> /\ OfTask(t)' = OfTask(t)
      /\ job[j] # Unused /\ u \in Tasks /\ j \in OfTask(u)
      /\ \A d : Planned(d)' = Planned(d)
      /\ now \in Nat /\ job[j].at \in Nat
  <2>1. UNCHANGED <<now, job, co>> /\ (j \in live \/ fire[j].pc # "none")
    BY DEF Handler, Load, Due, Send, SelfDelete, Drop
  <2>2. job[j] # Unused
    BY <2>1 DEF Inv, UnusedInv
  <2>3. TypeInv /\ u \in Tasks /\ j \in OfTask(u) /\ job[j].at \in Nat
    BY <2>2 DEF Inv, TypeInv, OfTask
  <2> QED
    BY <2>1, <2>2, <2>3 DEF OfTask, JobIds, Planned, TypeInv
<1>1. \A i \in JobIds : i # j => fire'[i] = fire[i]
  BY <1>0 DEF Handler, Load, Send, SelfDelete, Drop, TypeInv
<1>4. \A i \in JobIds : i # j => (Skipped(i) => Skipped(i)')
  <2>1. \A i \in JobIds : i # j => next'[i] = next[i]
    <3>1. CASE Load(j)
      BY <1>0, <3>1, StartedIsTyped DEF Load
    <3>2. CASE ~ Load(j)
      BY <3>2 DEF Handler, Send, SelfDelete, Drop
    <3> QED
      BY <3>1, <3>2
  <2> QED
    BY <1>0, <1>1, <2>1 DEF Skipped
<1>5. Jobs(t) \subseteq JobIds /\ \A i \in Jobs(t) : job[i].t = t
  BY <1>0 DEF Jobs, TypeInv
<1> HIDE DEF u
<1>2. CASE t # u
  <2>1. ~ Fires(j, t) /\ ~ Fires(j, t)'
    BY <1>0, <1>2 DEF Fires, u
  <2>2. Same(t)
    <3>1. task'[t] = task[t]
      <4>1. CASE Drop(j)
        BY <1>0, <1>2, <4>1 DEF Drop, SetIds, TypeInv, u
      <4>2. CASE ~ Drop(j)
        BY <4>2 DEF Handler, Load, Send, SelfDelete
      <4> QED
        BY <4>1, <4>2
    <3>2. live \ {j} \subseteq live' /\ live' \subseteq live
          /\ row \ {j} \subseteq row' /\ row' \subseteq row
      BY DEF Handler, Load, Send, SelfDelete, Drop, DeleteJob
    <3>3. j \notin OfTask(t) /\ j \notin Jobs(t)
      BY <1>2 DEF OfTask, Jobs, u
    <3>4. t \in lost' <=> t \in lost
      BY <1>2 DEF Handler, Load, Send, SelfDelete, Drop, u
    <3>5. \A i \in Jobs(t) : Skipped(i) => Skipped(i)'
      BY <1>4, <1>5, <3>3
    <3> QED
      BY <1>0, <3>1, <3>2, <3>3, <3>4, <3>5 DEF Same, OfTask
  <2> QED
    BY <1>0, <1>1, <2>1, <2>2, BesideHandler
<1>3. CASE t = u
  <2>1. ASSUME Fires(j, t)
        PROVE  /\ \A i \in JobIds : i # j => ~ Fires(i, t)
               /\ \A c \in Coroutines : ~ Schedules(c, t)
               /\ Firing(j, t)
    BY <2>1 DEF Good, Alone
  <2>2. CASE Load(j)
    <3>1. /\ j \in live /\ fire[j].pc = "none" /\ UNCHANGED <<task, row, live>>
          /\ lost' = IF j \in row /\ job[j].at > now THEN lost \union {t} ELSE lost
      BY <1>0, <1>3, <2>2 DEF Load, Due, u
    <3>2. CASE j \notin row
      <4>1. fire'[j].pc = "done"
        BY <1>0, <2>2, <3>2 DEF Load, TypeInv
      <4>2. ~ Fires(j, t) /\ ~ Fires(j, t)'
        BY <3>1, <4>1 DEF Fires
      <4>3. j \notin Jobs(t)
        BY <3>2 DEF Jobs
      <4>4. Same(t)
        BY <1>0, <1>4, <1>5, <3>1, <3>2, <4>3 DEF Same
      <4> QED
        BY <1>0, <1>1, <4>2, <4>4, BesideHandler
    <3>3. CASE j \in row
      <4>1. Touch(t) /\ Boot \in Coroutines
        BY <1>3, <2>2, <3>3 DEF Load, u, Coroutines
      <4>2. ~ Worked(t) /\ Settled(t)
        BY <4>1, TouchFree
      <4>3. j \in Jobs(t)
        BY <1>3, <3>1, <3>3 DEF Jobs, u
      <4>4. Open(t) /\ Covers(t, {})
        BY <4>2, <4>3 DEF Settled
      <4>5. fire'[j] = [pc |-> "send", ids |-> task[t].ids]
        BY <1>0, <1>3, <2>2, <3>3, <4>4 DEF Load, TypeInv, u
      <4>6. /\ Jobs(t)' = Jobs(t) /\ task'[t] = task[t] /\ Open(t)'
            /\ Planned(task[t].deadline)' = Planned(task[t].deadline)
        BY <1>0, <3>1, <4>4 DEF Jobs, Open, Planned
      <4>7. Covers(t, {j})'
        <5>1. Distinct(t)'
          BY <1>0, <4>4, <4>6 DEF Covers, Distinct
        <5>2. t \in lost => t \in lost'
          BY <3>1
        <5>3. \A i \in Jobs(t) \ {j} : Skipped(i) => Skipped(i)'
          BY <1>4, <1>5
        <5> QED
          BY <1>0, <4>4, <4>6, <5>1, <5>2, <5>3 DEF Covers
      <4>8. job[j].at <= now \/ t \in lost'
        BY <1>0, <3>1, <3>3
      <4>9. Firing(j, t)'
        BY <1>0, <4>3, <4>5, <4>6, <4>7, <4>8 DEF Firing
      <4>10. Fires(j, t)'
        BY <1>0, <1>3, <4>5 DEF Fires, u
      <4> QED
        BY <1>0, <1>1, <4>2, <4>9, <4>10, WithinHandler DEF Worked
    <3> QED
      BY <3>2, <3>3
  <2>3. CASE Send(j)
    <3>1. Same(t) /\ fire[j].pc = "send" /\ UNCHANGED lost
      <4>1. UNCHANGED <<task, row, live, lost>> /\ fire[j].pc = "send"
        BY <2>3 DEF Send
      <4>2. \A i \in Jobs(t) : Skipped(i) => Skipped(i)'
        BY <1>4, <1>5, <4>1 DEF Skipped
      <4> QED
        BY <1>0, <4>1, <4>2 DEF Same
    <3>2. fire'[j].pc = "delete" /\ fire'[j].ids = fire[j].ids
      BY <1>0, <2>3 DEF Send, TypeInv
    <3>3. Fires(j, t) /\ Fires(j, t)'
      BY <1>0, <1>3, <3>1, <3>2 DEF Fires, u
    <3>4. /\ Covers(t, {j})' /\ Open(t)' /\ task'[t] = task[t]
      BY <2>1, <3>1, <3>3, SameSettled, SameView DEF Same, Firing
    <3>5. Firing(j, t)'
      BY <1>0, <2>1, <3>1, <3>2, <3>3, <3>4 DEF Firing
    <3> QED
      BY <1>0, <1>1, <2>1, <3>3, <3>5, WithinHandler
  <2>4. CASE SelfDelete(j)
    <3>1. fire[j].pc = "delete" /\ UNCHANGED <<task, lost>>
          /\ live' = live \ {j} /\ row' = row \ {j}
      BY <2>4 DEF SelfDelete, DeleteJob
    <3>2. fire'[j].pc = "drop" /\ fire'[j].ids = fire[j].ids
      BY <1>0, <2>4 DEF SelfDelete, TypeInv
    <3>3. Fires(j, t) /\ Fires(j, t)'
      BY <1>0, <1>3, <3>1, <3>2 DEF Fires, u
    <3>4. Firing(j, t) /\ Covers(t, {j})
      BY <2>1, <3>3 DEF Firing
    <3>5. Jobs(t)' = Jobs(t) \ {j} /\ (Open(t)' <=> Open(t))
      BY <1>0, <3>1 DEF Jobs, Open
    <3>6. ASSUME t \notin lost, NEW at \in Planned(task[t].deadline)
          PROVE  \E i \in Jobs(t)' : job'[i].at = at
      <4>1. at > now /\ at \in Nat
        BY <1>0, PlannedIsAhead
      <4>2. PICK i \in Jobs(t) : job[i].at = at
        BY <3>4, <3>6 DEF Covers
      <4>3. i # j
        BY <1>0, <3>4, <3>6, <4>1, <4>2 DEF Firing
      <4> QED
        BY <1>0, <3>5, <4>2, <4>3
    <3>7. Distinct(t)'
      BY <1>0, <3>4, <3>5 DEF Covers, Distinct
    <3>8. Planned(task[t].deadline)' = Planned(task[t].deadline)
      BY <1>0, <3>1 DEF Planned
    <3>11. \A i \in Jobs(t) \ {j} : Skipped(i) => Skipped(i)'
      BY <1>4, <1>5
    <3>9. Covers(t, {j})'
      BY <1>0, <3>1, <3>4, <3>5, <3>6, <3>7, <3>8, <3>11 DEF Covers
    <3>10. Firing(j, t)'
      BY <1>0, <3>1, <3>2, <3>4, <3>5, <3>9 DEF Firing
    <3> QED
      BY <1>0, <1>1, <2>1, <3>3, <3>10, WithinHandler
  <2>5. CASE Drop(j)
    <3>1. fire[j].pc = "drop" /\ UNCHANGED <<live, row, lost>>
          /\ SetIds(t, fire[j].ids \ {j})
      BY <1>3, <2>5 DEF Drop, u
    <3>2. fire'[j].pc = "done"
      BY <1>0, <2>5 DEF Drop, TypeInv, NoFire
    <3>3. Fires(j, t) /\ ~ Fires(j, t)'
      BY <1>0, <1>3, <3>1, <3>2 DEF Fires, u
    <3>4. Firing(j, t) /\ Covers(t, {j})
      BY <2>1, <3>3 DEF Firing
    <3>5. /\ Open(t) /\ j \notin Jobs(t)
          /\ fire[j].ids \ {j} = task[t].ids \ {j}
      BY <3>1, <3>4 DEF Firing, Covers
    <3>6. /\ task'[t].ids = task[t].ids \ {j} /\ task'[t].deadline = task[t].deadline
          /\ Open(t)'
      BY <1>0, <3>1, <3>5 DEF SetIds, Open, Present, TypeInv, TaskRecord
    <3>7. Jobs(t)' = Jobs(t)
      BY <1>0, <3>1 DEF Jobs
    <3>8. Planned(task[t].deadline)' = Planned(task[t].deadline)
      BY <1>0, <3>6 DEF Planned
    <3>11. \A i \in Jobs(t) : Skipped(i) => Skipped(i)'
      BY <1>4, <1>5, <3>5
    <3>12. Distinct(t)'
      BY <1>0, <3>4, <3>7 DEF Covers, Distinct
    <3>9. Covers(t, {})'
      BY <1>0, <3>1, <3>4, <3>5, <3>6, <3>7, <3>8, <3>11, <3>12 DEF Covers
    <3>10. Settled(t)'
      BY <3>6, <3>9 DEF Settled
    <3> QED
      BY <1>0, <1>1, <2>1, <3>3, <3>10, WithinHandler
  <2> QED
    BY <2>2, <2>3, <2>4, <2>5 DEF Handler
<1> QED
  BY <1>2, <1>3

\* The clock moves when no job is due: what was planned for the next instant
\* has a job, and no other job is left behind unless its run was skipped.
LEMMA TickKeeps ==
  ASSUME Inv, Inv', NEW t \in Tasks, Good(t), Tick
  PROVE  Good(t)'
<1>0. /\ TypeInv /\ now \in Nat /\ now' = now + 1
      /\ UNCHANGED <<task, row, live, next, job, co, fire, lost>>
      /\ \A c \in Coroutines : co[c].pc = "idle"
      /\ \A j \in JobIds : ~ Due(j)
      /\ \A j \in JobIds : job[j].at \in Nat
  BY DEF Inv, TypeInv, Tick, Unused
<1>1. \A c \in Coroutines : ~ Schedules(c, t)'
  BY <1>0 DEF Schedules
<1>2. \A j \in JobIds : Fires(j, t)' <=> Fires(j, t)
  BY <1>0 DEF Fires
<1>3. Worked(t)' <=> Worked(t)
  BY <1>0, <1>2 DEF Worked, Schedules
<1>4. \A j \in Jobs(t) : j \in JobIds /\ (job[j].at = now => Fires(j, t) \/ Skipped(j))
  <2> TAKE j \in Jobs(t)
  <2>1. j \in live \intersect row /\ j \in JobIds /\ job[j].t = t
    BY <1>0 DEF Jobs, TypeInv
  <2>2. fire[j].pc \in {"none", "send", "delete"} /\ (fire[j].pc = "none" => next[j] >= now)
    BY <2>1 DEF Inv, FireInv
  <2>3. fire[j].pc = "none" => next[j] # now
    BY <1>0, <2>1 DEF Due
  <2>4. next[j] \in Nat
    BY <1>0, <2>1 DEF TypeInv
  <2> QED
    BY <1>0, <2>1, <2>2, <2>3, <2>4 DEF Fires, Skipped
<1>5. ASSUME NEW X, Covers(t, X), \A j \in Jobs(t) \ X : ~ Fires(j, t)
      PROVE  Covers(t, X)'
  <2>1. Jobs(t)' = Jobs(t) /\ Distinct(t)' /\ task'[t] = task[t]
    BY <1>0, <1>5 DEF Jobs, Distinct, Covers
  <2>2. ASSUME NEW j \in Jobs(t) \ X
        PROVE  job[j].at \in Planned(task[t].deadline)' \union {now'} \/ Skipped(j)
    <3>1. SUFFICES ASSUME ~ Skipped(j), job[j].at \in Planned(task[t].deadline)
                   PROVE  job[j].at \in Planned(task[t].deadline)' \union {now'}
      BY <1>4, <1>5, <2>2 DEF Covers
    <3>2. task'[t].deadline = task[t].deadline
      BY <1>0
    <3> DEFINE at == job[j].at
               d == task[t].deadline
    <3>3. at \in 0..MaxTime /\ at > now /\ \E l \in Leads : at + l = d
      BY <3>1 DEF Planned
    <3>4. CASE at = now + 1
      BY <1>0, <3>4
    <3>5. CASE at # now + 1
      <4>1. at > now + 1
        BY <1>0, <3>3, <3>5, V1Assumption
      <4>2. Planned(task[t].deadline)' =
              {a \in 0..MaxTime : a > now + 1 /\ \E l \in Leads : a + l = d}
        BY <1>0, <3>2 DEF Planned
      <4> HIDE DEF at, d
      <4>3. at \in Planned(task[t].deadline)'
        BY <3>3, <4>1, <4>2
      <4> QED
        BY <4>3 DEF at
    <3> QED
      BY <3>4, <3>5
  <2>3. ASSUME t \notin lost
        PROVE  \A at \in Planned(task[t].deadline)' : \E j \in Jobs(t) : job[j].at = at
    <3> TAKE at \in Planned(task[t].deadline)'
    <3>1. at \in Planned(task[t].deadline)
      BY <1>0 DEF Planned
    <3> QED
      BY <1>5, <2>3, <3>1 DEF Covers
  <2>4. \A j \in Jobs(t) : Skipped(j)' <=> Skipped(j)
    BY <1>0 DEF Skipped
  <2> QED
    BY <1>0, <1>5, <2>1, <2>2, <2>3, <2>4 DEF Covers
<1>6. ~ Worked(t) => Settled(t)'
  <2> SUFFICES ASSUME ~ Worked(t) PROVE Settled(t)'
    OBVIOUS
  <2>1. Settled(t) /\ \A j \in JobIds : ~ Fires(j, t)
    BY DEF Good, Worked
  <2>2. Jobs(t)' = Jobs(t) /\ (Open(t)' <=> Open(t))
    BY <1>0 DEF Jobs, Open
  <2>3. Open(t) => Covers(t, {})'
    BY <1>4, <1>5, <2>1 DEF Settled
  <2> QED
    BY <2>1, <2>2, <2>3 DEF Settled
<1>7. ASSUME NEW j \in JobIds, Fires(j, t) PROVE Firing(j, t)'
  <2>1. Firing(j, t) /\ \A i \in JobIds : Fires(i, t) => i = j
    BY <1>7 DEF Good
  <2>2. Covers(t, {j})'
    BY <1>4, <1>5, <2>1 DEF Firing
  <2>3. job[j].at \in Nat
    BY <1>0 DEF TypeInv, Unused
  <2>4. Jobs(t)' = Jobs(t) /\ (Open(t)' <=> Open(t))
    BY <1>0 DEF Jobs, Open
  <2> QED
    BY <1>0, <2>1, <2>2, <2>3, <2>4 DEF Firing
<1> QED
  BY <1>1, <1>2, <1>3, <1>6, <1>7 DEF Good

LEMMA GoodStep ==
  ASSUME Inv, Inv', SoundInv, Kept, GoodInv, [Next]_vars
  PROVE  GoodInv'
<1> SUFFICES ASSUME up', NEW t \in Tasks, t \notin mixed' PROVE Good(t)'
  BY DEF GoodInv
<1>1. ASSUME up, mixed \subseteq mixed' PROVE Good(t)
  BY <1>1 DEF GoodInv
<1>2. ASSUME NEW c \in Coroutines, ScheduleForTask(c) PROVE Good(t)'
  <2>1. Good(t)
    BY <1>1, <1>2 DEF ScheduleForTask, Cancel, Clear, Reset, InsertRow, Arm, Store
  <2> QED
    BY <1>2, <2>1, CancelKeeps, ClearKeeps, ResetKeeps, InsertRowKeeps, ArmKeeps,
       StoreKeeps DEF ScheduleForTask
<1>3. ASSUME NEW c \in Coroutines, ResyncAll(c) PROVE Good(t)'
  <2>1. Good(t)
    BY <1>1, <1>3 DEF ResyncAll, ListTasks, ListClosed, ListRows, Sweep, NextTask
  <2> QED
    BY <1>3, <2>1, ResyncKeeps
<1>4. ASSUME NEW c \in Coroutines, Resync(c) PROVE Good(t)'
  BY <1>4, BeginKeeps DEF Resync
<1>11. ASSUME NEW c \in Coroutines, ResyncUmo(c) PROVE Good(t)'
  <2>1. up /\ mixed \subseteq mixed'
    BY <1>11 DEF ResyncUmo, Free, Overlap
  <2> QED
    BY <1>1, <1>11, <2>1, OwnKeeps
<1>5. ASSUME NEW c \in Coroutines, Check(c) \/ Insert(c) \/ Edit(c) \/ Remove(c)
      PROVE  Good(t)'
  <2>1. up /\ mixed \subseteq mixed'
    BY <1>5 DEF Check, Insert, Edit, Remove, Free, Touch, Overlap
  <2>2. Good(t)
    BY <1>1, <2>1
  <2> QED
    BY <1>5, <2>2, RequestKeeps
<1>6. ASSUME NEW j \in JobIds, Handler(j) PROVE Good(t)'
  <2>1. up /\ mixed \subseteq mixed'
    BY <1>6 DEF Handler, SkipRun, Load, Send, SelfDelete, Drop, Touch, Overlap
  <2>2. Good(t)
    BY <1>1, <2>1
  <2> QED
    BY <1>6, <2>2, HandlerKeeps, SkipKeeps
<1>7. ~ Crash
  BY DEF Crash
<1>8. CASE Bind
  BY <1>8, BeginKeeps DEF Bind, Coroutines
<1>9. CASE Tick
  <2>1. Good(t)
    BY <1>1, <1>9 DEF Tick
  <2> QED
    BY <1>9, <2>1, TickKeeps
<1>10. CASE UNCHANGED vars
  <2>1. Good(t)
    BY <1>1, <1>10 DEF vars
  <2>2. Same(t) /\ UNCHANGED <<co, fire>> /\ Boot \in Coroutines
    BY <1>10 DEF vars, Same, Skipped, OfTask, JobIds, Coroutines
  <2>3. Schedules(Boot, t)' <=> Schedules(Boot, t)
    BY <2>2 DEF Schedules
  <2>4. Schedules(Boot, t) => AtWork(Boot, t)'
    BY <2>1, <2>2, SameWork DEF Good
  <2> QED
    BY <2>1, <2>2, <2>3, <2>4, Beside
<1> QED
  BY <1>2, <1>3, <1>4, <1>5, <1>6, <1>7, <1>8, <1>9, <1>10, <1>11 DEF Next

-----------------------------------------------------------------------------
(* What was announced                                                      *)

\* A step that announces nothing, after which a job waits that waited before
\* or whose instant is ahead.
LEMMA QuietStep ==
  ASSUME Inv, Inv', Kept, ToldInv, UNCHANGED told, ever \subseteq ever', now' \in {now, now + 1},
         \A j \in JobIds : fire'[j].pc \in {"send", "delete", "drop"} =>
           job'[j] # Unused,
         \A j \in JobIds : Waiting(j)' =>
           job[j] # Unused /\ (Waiting(j) \/ job[j].at > now)
  PROVE  ToldInv'
<1>1. now \in Nat /\ now' \in Nat /\ now <= now'
  BY DEF Inv, TypeInv
<1>2. \A t \in Tasks, at \in 0..MaxTime : told[t][at] \in Nat
  BY DEF ToldInv
<1>3. ASSUME NEW t \in Tasks, NEW at \in 0..MaxTime, told[t][at] > 0 PROVE at <= now'
  <2>1. at <= now /\ at \in Nat
    BY <1>3, V1Assumption DEF ToldInv
  <2> QED
    BY <1>1, <2>1
<1>4. ASSUME NEW t \in Tasks \ ever', NEW at \in 0..MaxTime, NEW j \in OfTask(t)',
             job'[j].at = at, Waiting(j)'
      PROVE  told[t][at] = 0
  <2>1. j \in JobIds /\ job[j] # Unused /\ (Waiting(j) \/ job[j].at > now)
    BY <1>4 DEF OfTask
  <2>2. job'[j] = job[j] /\ job[j].t = t /\ j \in OfTask(t)
    BY <1>4, <2>1 DEF Kept, OfTask
  <2>3. CASE Waiting(j)
    BY <1>4, <2>2, <2>3 DEF ToldInv
  <2>4. CASE job[j].at > now
    <3>1. ~ (told[t][at] > 0)
      BY <1>1, <1>4, <2>2, <2>4, V1Assumption DEF ToldInv
    <3> QED
      BY <1>2, <3>1
  <2> QED
    BY <2>1, <2>3, <2>4
<1>5. \A t \in Tasks \ ever', at \in 0..MaxTime : told[t][at] <= 1
  BY DEF ToldInv
<1> QED
  BY <1>3, <1>4, <1>5 DEF ToldInv

LEMMA OnceIsOne == Min({0 + 1, 2}) = 1
<1> DEFINE Least(x) == x \in {1, 2} /\ \A y \in {1, 2} : x <= y
<1>1. Min({0 + 1, 2}) = CHOOSE x \in {1, 2} : \A y \in {1, 2} : x <= y
  BY DEF Min
<1>2. \E x \in {1, 2} : \A y \in {1, 2} : x <= y
  OBVIOUS
<1>3. \A x \in {1, 2} : (\A y \in {1, 2} : x <= y) => x = 1
  OBVIOUS
<1> QED
  BY <1>1, <1>2, <1>3

LEMMA SendTold ==
  ASSUME Inv, Inv', SoundInv, Kept, GoodInv, ToldInv, NEW j \in JobIds, Send(j),
         job[j].at <= now
  PROVE  ToldInv'
<1> DEFINE t == job[j].t
           at == job[j].at
           n == Min({told[t][at] + 1, 2})
<1>1. /\ TypeInv /\ fire[j].pc = "send" /\ up /\ UNCHANGED <<now, job, live, row, ever>>
      /\ fire'[j].pc = "delete" /\ \A i \in JobIds : i # j => fire'[i] = fire[i]
      /\ told' = [told EXCEPT ![t][at] = n]
  BY DEF Inv, TypeInv, SoundInv, Send
<1>2. job[j] # Unused /\ at <= now /\ t \in Tasks /\ j \in OfTask(t) /\ Fires(j, t)
  <2>1. job[j] # Unused
    BY <1>1 DEF ToldInv
  <2> QED
    BY <1>1, <2>1 DEF TypeInv, OfTask, Fires
<1>3. told \in [Tasks -> [0..MaxTime -> Nat]]
  BY DEF ToldInv
<1>4. at \in 0..MaxTime => n \in Nat
  <2> SUFFICES ASSUME at \in 0..MaxTime PROVE n \in Nat
    OBVIOUS
  <2>1. told[t][at] \in Nat
    BY <1>2, <1>3
  <2>2. {told[t][at] + 1, 2} \subseteq Nat
    BY <2>1
  <2> QED
    BY <2>2, SmallestIsIn
<1> HIDE DEF n
<1>5. told' \in [Tasks -> [0..MaxTime -> Nat]]
  BY <1>1, <1>2, <1>3, <1>4
<1>6. \A s \in Tasks, a \in 0..MaxTime :
        told'[s][a] = IF s = t /\ a = at THEN n ELSE told[s][a]
  BY <1>1, <1>2, <1>3
<1>7. \A i \in JobIds : fire'[i].pc \in {"send", "delete", "drop"} =>
        job[i] # Unused
  BY <1>1, <1>2 DEF ToldInv
<1>8. \A i \in JobIds : Waiting(i)' => Waiting(i) /\ i # j
  BY <1>1 DEF Waiting
<1>9. ASSUME NEW s \in Tasks, NEW a \in 0..MaxTime, told'[s][a] > 0 PROVE a <= now
  <2>1. CASE s = t /\ a = at
    BY <1>2, <2>1
  <2>2. CASE ~ (s = t /\ a = at)
    BY <1>6, <1>9, <2>2 DEF ToldInv
  <2> QED
    BY <2>1, <2>2
<1>10. ASSUME NEW s \in Tasks \ ever, NEW a \in 0..MaxTime
       PROVE  /\ told'[s][a] <= 1
              /\ \A i \in OfTask(s) : job[i].at = a /\ Waiting(i)' => told'[s][a] = 0
  <2>1. CASE s = t /\ a = at
    <3>1. told[t][at] = 0
      BY <1>1, <1>2, <1>10, <2>1 DEF ToldInv, Waiting
    <3>2. told'[s][a] = 1
      BY <1>6, <1>10, <2>1, <3>1, OnceIsOne DEF n
    <3>3. Good(t)
      BY <1>1, <1>2, <1>10, <2>1 DEF GoodInv, SoundInv
    <3>4. j \in Jobs(t) /\ Distinct(t) /\ \A i \in JobIds : Fires(i, t) => i = j
      BY <1>1, <1>2, <3>3 DEF Good, Firing, Covers
    <3>5. ASSUME NEW i \in OfTask(s), job[i].at = a, Waiting(i)' PROVE FALSE
      <4>1. Waiting(i) /\ i # j /\ i \in JobIds /\ job[i].t = t
        BY <1>8, <2>1, <3>5 DEF OfTask
      <4>2. CASE fire[i].pc = "send"
        BY <3>4, <4>1, <4>2 DEF Fires
      <4>3. CASE i \in live \intersect row
        BY <2>1, <3>4, <3>5, <4>1, <4>3 DEF Jobs, Distinct
      <4> QED
        BY <4>1, <4>2, <4>3 DEF Waiting
    <3> QED
      BY <3>2, <3>5
  <2>2. CASE ~ (s = t /\ a = at)
    BY <1>6, <1>8, <1>10, <2>2 DEF ToldInv, OfTask
  <2> QED
    BY <2>1, <2>2
<1>11. OfTask(t)' = OfTask(t) /\ \A s : OfTask(s)' = OfTask(s)
  BY <1>1 DEF OfTask, JobIds
<1> HIDE DEF t, at
<1> QED
  BY <1>1, <1>5, <1>7, <1>9, <1>10, <1>11 DEF ToldInv

LEMMA ToldStep ==
  ASSUME Inv, Inv', SoundInv, Kept, GoodInv, ToldInv, [Next]_vars
  PROVE  ToldInv'
<1>0. /\ TypeInv /\ now \in Nat
      /\ \A j \in JobIds : fire[j].pc \in {"send", "delete", "drop"} =>
           job[j] # Unused
      /\ \A j \in JobIds : Waiting(j) => job[j] # Unused
  BY DEF Inv, TypeInv, ToldInv, Waiting, UnusedInv
\* A step of a coroutine, or of the process that leaves the handlers alone.
<1>1. ASSUME UNCHANGED <<told, fire>>, now' \in {now, now + 1}, ever \subseteq ever',
             \A j \in JobIds : j \in live' \intersect row' =>
               j \in live \intersect row \/ (job[j] # Unused /\ job[j].at > now)
      PROVE  ToldInv'
  <2>1. ASSUME NEW j \in JobIds, fire'[j].pc \in {"send", "delete", "drop"}
        PROVE  job'[j] # Unused
    BY <1>0, <1>1, <2>1 DEF Kept
  <2>2. ASSUME NEW j \in JobIds, Waiting(j)'
        PROVE  job[j] # Unused /\ (Waiting(j) \/ job[j].at > now)
    BY <1>0, <1>1, <2>2 DEF Waiting
  <2> QED
    BY <1>1, <2>1, <2>2, QuietStep
<1>2. ASSUME NEW c \in Coroutines, ScheduleForTask(c) PROVE ToldInv'
  <2>0. UNCHANGED <<now, told, fire, ever>>
    BY <1>2 DEF ScheduleForTask, Cancel, Clear, Reset, InsertRow, Arm, Store
  <2>1. CASE Arm(c)
    <3>1. /\ live' = live \union {co[c].job} /\ row' = row
          /\ job[co[c].job] # Unused /\ job[co[c].job].at > now
      BY <2>1 DEF Arm, Inv, ArmInv
    <3> QED
      BY <1>1, <2>0, <3>1
  <2>2. CASE InsertRow(c)
    <3>1. PICK j \in JobIds : job[j] = Unused /\ row' = row \union {j} /\ live' = live
      BY <2>2 DEF InsertRow
    <3>2. j \notin live
      BY <3>1 DEF Inv, UnusedInv
    <3> QED
      BY <1>1, <2>0, <3>1, <3>2
  <2>3. CASE Cancel(c) \/ Clear(c) \/ Reset(c) \/ Store(c)
    <3>1. live' \subseteq live /\ row' \subseteq row
      BY <2>3 DEF Cancel, Clear, Reset, Store, DeleteJob
    <3> QED
      BY <1>1, <2>0, <3>1
  <2> QED
    BY <1>2, <2>1, <2>2, <2>3 DEF ScheduleForTask
<1>3. ASSUME NEW c \in Coroutines, ResyncAll(c) PROVE ToldInv'
  <2>1. /\ UNCHANGED <<now, told, fire, ever>> /\ live' \subseteq live /\ row' \subseteq row
    BY <1>3 DEF ResyncAll, ListTasks, ListClosed, ListRows, Sweep, NextTask, DeleteJob
  <2> QED
    BY <1>1, <2>1
<1>4. ASSUME NEW c \in Coroutines,
             Resync(c) \/ ResyncUmo(c) \/ Check(c) \/ Insert(c) \/ Edit(c) \/ Remove(c)
      PROVE  ToldInv'
  <2>1. /\ UNCHANGED <<now, told, fire, live, row>> /\ ever \subseteq ever'
    BY <1>4 DEF Resync, ResyncUmo, BeginResync, Check, Insert, Edit, Remove, Touch, Overlap
  <2> QED
    BY <1>1, <2>1
<1>9. ASSUME NEW j \in JobIds, SkipRun(j) PROVE ToldInv'
  <2>1. UNCHANGED <<now, told, fire, live, row, ever>>
    BY <1>9 DEF SkipRun
  <2> QED
    BY <1>1, <2>1
<1>5. ASSUME NEW j \in JobIds, Handler(j), ~ SkipRun(j) PROVE ToldInv'
  <2>0. /\ UNCHANGED <<now, job>> /\ live' \subseteq live /\ row' \subseteq row
        /\ ever \subseteq ever' /\ \A i \in JobIds : i # j => fire'[i] = fire[i]
    BY <1>0, <1>5 DEF Handler, Load, Send, SelfDelete, Drop, DeleteJob, Touch, Overlap,
       TypeInv
  <2>1. CASE Load(j)
    <3>1. /\ j \in live /\ fire[j].pc = "none" /\ job[j] # Unused
          /\ UNCHANGED told
      BY <2>1 DEF Load, Due, Inv, UnusedInv
    <3>2. fire'[j].pc = "send" => j \in row
      BY <1>0, <2>1, <3>1 DEF Load, TypeInv
    <3>3. fire'[j].pc # "none"
      BY <1>0, <2>1, <3>1 DEF Load, TypeInv
    <3>4. \A i \in JobIds : Waiting(i)' => Waiting(i)
      BY <2>0, <3>1, <3>2, <3>3 DEF Waiting
    <3>5. \A i \in JobIds : fire'[i].pc \in {"send", "delete", "drop"} =>
            job'[i] # Unused
      BY <1>0, <2>0, <3>1
    <3> QED
      BY <1>0, <2>0, <3>1, <3>4, <3>5, QuietStep
  <2>2. CASE Send(j)
    <3>1. CASE job[j].at <= now
      BY <2>2, <3>1, SendTold
    <3>2. CASE ~ (job[j].at <= now)
      <4>1. /\ fire[j].pc = "send" /\ fire'[j].pc = "delete" /\ UNCHANGED told
        BY <1>0, <2>2, <3>2 DEF Send, TypeInv
      <4>2. \A i \in JobIds : Waiting(i)' => Waiting(i)
        BY <2>0, <4>1 DEF Waiting
      <4>3. \A i \in JobIds : fire'[i].pc \in {"send", "delete", "drop"} =>
              job'[i] # Unused
        BY <1>0, <2>0, <4>1
      <4> QED
        BY <1>0, <2>0, <4>1, <4>2, <4>3, QuietStep
    <3> QED
      BY <3>1, <3>2
  <2>3. CASE SelfDelete(j) \/ Drop(j)
    <3>1. /\ fire[j].pc \in {"delete", "drop"} /\ fire'[j].pc \in {"drop", "done"}
          /\ UNCHANGED told
      BY <1>0, <2>3 DEF SelfDelete, Drop, TypeInv, NoFire
    <3>2. \A i \in JobIds : Waiting(i)' => Waiting(i)
      BY <2>0, <3>1 DEF Waiting
    <3>3. \A i \in JobIds : fire'[i].pc \in {"send", "delete", "drop"} =>
            job'[i] # Unused
      BY <1>0, <2>0, <3>1
    <3> QED
      BY <1>0, <2>0, <3>1, <3>2, <3>3, QuietStep
  <2> QED
    BY <1>5, <2>1, <2>2, <2>3 DEF Handler
<1>6. CASE Crash
  <2>1. /\ UNCHANGED <<now, told, ever>> /\ live' = {}
        /\ \A j \in JobIds : fire'[j].pc \in {"none", "done"}
    BY <1>6 DEF Crash, NoFire
  <2>2. \A j \in JobIds : ~ Waiting(j)'
    BY <2>1 DEF Waiting
  <2> QED
    BY <2>1, <2>2, QuietStep
<1>7. CASE Bind \/ Tick
  <2>1. /\ UNCHANGED <<told, fire, live, row>> /\ now' \in {now, now + 1}
        /\ ever \subseteq ever'
    BY <1>7 DEF Bind, BeginResync, Tick
  <2> QED
    BY <1>1, <2>1
<1>8. CASE UNCHANGED vars
  <2>1. /\ UNCHANGED <<now, told, fire, live, row, ever>>
    BY <1>8 DEF vars
  <2> QED
    BY <1>1, <2>1
<1> QED
  BY <1>2, <1>3, <1>4, <1>5, <1>6, <1>7, <1>8, <1>9 DEF Next

-----------------------------------------------------------------------------
(* The theorems                                                            *)

GoodSpecInv == Inv /\ SoundInv /\ GoodInv /\ ToldInv

LEMMA InitGood == Init => GoodSpecInv
<1> SUFFICES ASSUME Init PROVE GoodSpecInv
  OBVIOUS
<1>1. Inv
  BY InitInv
<1>2. /\ ~ up /\ live = {} /\ mixed = {} /\ ever = {}
      /\ \A j \in JobIds : job[j] = Unused /\ fire[j] = NoFire
      /\ \A c \in Coroutines : co[c] = Idle
      /\ \A t \in Tasks : task[t].ids = {}
      /\ \A t \in Tasks, at \in 0..MaxTime : told[t][at] = 0
      /\ told \in [Tasks -> [0..MaxTime -> Nat]]
  BY DEF Init
<1>3. SoundInv
  BY <1>2, IdleIsSound, IdleIsRecord DEF SoundInv, OwnOf, Carried, NoFire
<1>4. GoodInv
  BY <1>2 DEF GoodInv
<1>5. ToldInv
  BY <1>2 DEF ToldInv, OfTask, NoFire
<1> QED
  BY <1>1, <1>3, <1>4, <1>5 DEF GoodSpecInv

LEMMA NextGood == GoodSpecInv /\ [Next]_vars => GoodSpecInv'
<1> SUFFICES ASSUME GoodSpecInv, [Next]_vars PROVE GoodSpecInv'
  OBVIOUS
<1>0. Inv /\ SoundInv /\ GoodInv /\ ToldInv
  BY DEF GoodSpecInv
<1>1. Inv'
  BY <1>0, NextInv
<1>2. SoundInv' /\ Kept
  <2>1. ASSUME NEW c \in Coroutines, ScheduleForTask(c) PROVE SoundInv' /\ Kept
    BY <1>0, <2>1, SoundScheduleStep
  <2>2. ASSUME NEW c \in Coroutines, ResyncAll(c) PROVE SoundInv' /\ Kept
    BY <1>0, <2>2, SoundResyncStep
  <2>3. ASSUME NEW c \in Coroutines,
               Resync(c) \/ ResyncUmo(c) \/ Check(c) \/ Insert(c) \/ Edit(c) \/ Remove(c)
        PROVE  SoundInv' /\ Kept
    BY <1>0, <2>3, SoundRequestStep
  <2>4. ASSUME NEW j \in JobIds, Handler(j) PROVE SoundInv' /\ Kept
    BY <1>0, <2>4, SoundHandlerStep
  <2>5. CASE Crash \/ Bind \/ Tick
    BY <1>0, <2>5, SoundProcessStep
  <2>6. CASE UNCHANGED vars
    BY <1>0, <2>6 DEF vars, SoundInv, OwnOf, PlaceOf, OfTask, JobIds, Kept
  <2> QED
    BY <2>1, <2>2, <2>3, <2>4, <2>5, <2>6 DEF Next
<1>3. GoodInv' /\ ToldInv'
  BY <1>0, <1>1, <1>2, GoodStep, ToldStep
<1> QED
  BY <1>1, <1>2, <1>3 DEF GoodSpecInv

\* Whatever crashed in between, at rest a task has no job but those its row
\* names, one an instant, for reminders ahead or runs that were skipped, and it
\* has one for every reminder ahead, with any number of tasks and any limit of
\* the lists: unless two coroutines worked on its schedule at once since the
\* last resync that found it unattended, or it lost its reminders to that limit
\* (store.py:161) or to a crontab without a year (reminders.py:264-271).
THEOREM AgreesTheorem == Spec => []AgreesUnlessMixed
<1>1. GoodSpecInv => AgreesUnlessMixed
  <2> SUFFICES ASSUME GoodSpecInv, NEW t \in Tasks \ mixed, AtRest(t)
               PROVE  NothingElse(t) /\ (t \notin lost => Agrees(t))
    BY DEF AgreesUnlessMixed
  <2>1. Inv /\ TypeInv /\ Settled(t)
    BY DEF GoodSpecInv, Inv, GoodInv, AtRest, Good
  <2>2. CASE Open(t)
    <3>1. Covers(t, {})
      BY <2>1, <2>2 DEF Settled
    <3>2. \A j \in Jobs(t) : job[j].at = now => Skipped(j)
      <4> TAKE j \in Jobs(t)
      <4>1. j \in live \intersect row /\ j \in JobIds /\ job[j].t = t
        BY <2>1 DEF Jobs, TypeInv
      <4>2. fire[j].pc \in {"none", "send", "delete"} /\ (fire[j].pc = "none" => next[j] >= now)
        BY <2>1, <4>1 DEF Inv, FireInv
      <4>3. fire[j].pc \notin {"send", "delete"}
        BY <4>1 DEF AtRest, Worked, Fires
      <4>4. next[j] # now
        BY <4>1, <4>2, <4>3 DEF AtRest, Due
      <4>5. next[j] \in Nat /\ now \in Nat
        BY <2>1, <4>1 DEF TypeInv
      <4> QED
        BY <4>2, <4>3, <4>4, <4>5 DEF Skipped
    <3>3. NothingElse(t)
      BY <2>2, <3>1, <3>2 DEF NothingElse, Covers, Distinct
    <3> QED
      BY <3>1, <3>3 DEF Agrees, Covers
  <2>3. CASE ~ Open(t)
    BY <2>1, <2>3 DEF Settled, NothingElse, Agrees
  <2> QED
    BY <2>2, <2>3
<1> QED
  BY <1>1, InitGood, NextGood, PTL DEF Spec

\* An instant of a task is announced once, through crashes in the middle of
\* the delivery, rebuilt schedules and skipped runs, unless two coroutines
\* worked on the task's schedule at once.
THEOREM ToldOnceTheorem == Spec => []ToldOnceUnlessMixed
<1>1. GoodSpecInv => ToldOnceUnlessMixed
  BY DEF GoodSpecInv, ToldInv, ToldOnceUnlessMixed
<1> QED
  BY <1>1, InitGood, NextGood, PTL DEF Spec

=============================================================================
