--------------------------- MODULE RemindersProofs ----------------------------
(***************************************************************************)
(* Proofs about Reminders and the properties MCReminders states of it, for *)
(* every value of their constants.                                         *)
(***************************************************************************)
EXTENDS MCReminders, WellFoundedInduction, TLAPS

USE DEF TaskIds, FactIds

\* The absent and the empty values belong to the types they stand in for.
LEMMA NullRecordTypes ==
  /\ NoTask \in TaskRows
  /\ NoFact \in FactRows
  /\ NoFacts \in FactTables
  /\ NoJobs \in JobStores
  /\ TaskRow \subseteq TaskRows
  /\ Fact \subseteq FactRows
BY DEF TaskRows, FactRows, FactTables, JobStores, NoFacts, NoJobs

\* Every planned reminder has a type of the enumeration and a natural trigger.
LEMMA PlanType ==
  ASSUME NEW status, NEW deadline \in MaybeDeadline, NEW t \in Nat
  PROVE  PlanDesiredReminders(status, deadline, t) \subseteq DesiredReminder
<1>1. \A type \in ReminderType : Offset(type) \in Nat
  BY PolicyAssumption DEF Offset, ReminderType
<1>2. Day \in Nat \ {0}
  BY PolicyAssumption DEF Day
<1>3. \A u \in Int : FoldQuietHours(u) \in Int /\ LastAllowedBeforeQuiet(u) \in Int
  BY <1>2, PolicyAssumption DEF FoldQuietHours, LastAllowedBeforeQuiet, Midnight, Day
<1>4. CASE deadline = None \/ status # "pending"
  BY <1>4 DEF PlanDesiredReminders
<1>5. CASE deadline # None /\ status = "pending"
  <2>a. deadline \in Deadlines
    BY <1>5 DEF MaybeDeadline
  <2>b. Deadlines \subseteq Nat
    BY RemindersAssumption
  <2>1. deadline \in Int
    BY <2>a, <2>b
  <2>2. \A d \in Folded(deadline) : d.type \in ReminderType /\ d.trigger \in Int
                                    /\ d = [type |-> d.type, trigger |-> d.trigger]
    BY <1>1, <1>3, <2>1 DEF Folded, Settle
  <2>3. Kept(deadline, t) \subseteq DesiredReminder
    BY <2>2, PolicyAssumption DEF Kept, DesiredReminder
  <2> QED
    BY <1>5, <2>3 DEF PlanDesiredReminders, OnePerMinute
<1> QED
  BY <1>4, <1>5

\* Setting the status of a reminder row yields a reminder row.
LEMMA StatusChange ==
  ASSUME NEW f \in FactRows, f # NoFact,
         NEW s \in {"scheduled", "fired", "cancelled"}
  PROVE  [f EXCEPT !.status = s] \in Fact
BY DEF FactRows, Fact

\* Every row that is still scheduled is a row of the table.
LEMMA ScheduledIsFact ==
  ASSUME NEW rows \in FactTables, NEW r \in Scheduled(rows)
  PROVE  rows[r] \in Fact
BY DEF Scheduled, FactTables, FactRows, NoFact

\* Cancelling a task's active reminders leaves a well-typed table.
LEMMA CancelledForType ==
  ASSUME TypeOK, NEW t
  PROVE  CancelledFor(t) \in FactTables
<1>1. ASSUME NEW r \in FactIds, r \in FactsOf(t) \cap Scheduled(fact)
      PROVE  [fact[r] EXCEPT !.status = "cancelled"] \in FactRows
  BY <1>1, StatusChange DEF TypeOK, FactTables, FactsOf, FactRows
<1>2. ASSUME NEW r \in FactIds PROVE fact[r] \in FactRows
  BY <1>2 DEF TypeOK, FactTables
<1> QED
  BY <1>1, <1>2 DEF CancelledFor, FactTables

\* A guarded status update leaves a well-typed table.
LEMMA MarkType ==
  ASSUME TypeOK, NEW r \in FactIds, fact[r] # NoFact,
         NEW s \in {"scheduled", "fired", "cancelled"}, Mark(r, s)
  PROVE  fact' \in FactTables
<1>1. fact[r] \in FactRows
  BY DEF TypeOK, FactTables
<1>2. [fact[r] EXCEPT !.status = s] \in FactRows
  BY <1>1, StatusChange DEF FactRows
<1> QED
  BY <1>2 DEF Mark, TypeOK, FactTables

\* Dropping jobs leaves a well-typed job store.
LEMMA UnscheduledType ==
  ASSUME TypeOK, NEW S
  PROVE  Unscheduled(S) \in JobStores
BY DEF Unscheduled, TypeOK, JobStores

\* Creating a reminder row leaves the table and its delivery count well-typed.
LEMMA CreateFactType ==
  ASSUME TypeOK, NEW r \in FactIds, NEW t \in TaskIds,
         NEW d, d.type \in ReminderType, d.trigger \in Nat, CreateFact(r, t, d)
  PROVE  fact' \in FactTables /\ sent' \in [FactIds -> Nat]
<1>1. [task |-> t, type |-> d.type, trigger |-> d.trigger, status |-> "scheduled"]
        \in FactRows
  BY DEF FactRows, Fact
<1> QED
  BY <1>1 DEF CreateFact, TypeOK, FactTables

\* The state before the first start is well-typed.
LEMMA InitType == ASSUME Init PROVE TypeOK
<1>1. NoOp \in OpRecords
  BY NullRecordTypes DEF NoOp, OpRecords, OpPc
<1>2. [NoSync EXCEPT !.pc = "clear"] \in SyncRecords
  BY NullRecordTypes DEF NoSync, SyncRecords, SyncPc
<1>3. NoFire \in FireRecords
  BY NullRecordTypes DEF NoFire, FireRecords, FirePc
<1>4. NoCancel \in CancelRecords
  BY DEF NoCancel, CancelRecords
<1>5. NoBackup \in Backups
  BY NullRecordTypes DEF NoBackup, Backups
<1>6. task \in [TaskIds -> TaskRows]
  BY DEF Init, TaskRows
<1>7. left \in [Left -> Nat]
  BY RemindersAssumption DEF Init, Left
<1> QED
  BY <1>1, <1>2, <1>3, <1>4, <1>5, <1>6, <1>7, NullRecordTypes
  DEF Init, TypeOK, NoOp, NoFire, NoCancel

-----------------------------------------------------------------------------
(* Type correctness, a lemma per group of actions.                         *)

\* The row write that begins a task operation keeps the types.
LEMMA MutationType == ASSUME TypeOK, Mutation PROVE TypeOK'
<1>1. ASSUME NEW t \in TaskIds, NEW row \in TaskRow, NEW pc \in OpPc,
             CanBegin, Write(t, row, pc)
      PROVE  TypeOK'
  <2>1. task' \in [TaskIds -> TaskRows]
    BY <1>1, NullRecordTypes DEF Write, TypeOK
  <2>2. op' \in OpRecords /\ (op'.pc # "idle" => op'.task \in TaskIds)
    BY <1>1, NullRecordTypes DEF Write, NoOp, OpRecords, OpPc
  <2>3. left' \in [Left -> Nat]
    BY <1>1 DEF Write, CanBegin, TypeOK, Left
  <2>4. fire' \in [FactIds -> FireRecords]
    BY <1>1 DEF Write, TypeOK, FireRecords
  <2>5. \A r \in FactIds : fire'[r].pc = "deliver" => fire'[r].row # NoFact
    BY <1>1 DEF Write, TypeOK, FireRecords
  <2> QED
    BY <1>1, <2>1, <2>2, <2>3, <2>4, <2>5 DEF Write, ghosts, TypeOK
<1>2. ASSUME NEW t \in TaskIds, task[t] \in TaskRow, NEW d \in MaybeDeadline
      PROVE  [task[t] EXCEPT !.deadline = d] \in TaskRow
  BY <1>2 DEF TaskRow
<1>3. ASSUME NEW t \in TaskIds, task[t] # NoTask
      PROVE  task[t] \in TaskRow
  BY <1>3 DEF TypeOK, TaskRows
<1>4. ASSUME NEW t \in TaskIds, task[t].status = "pending"
      PROVE  task[t] \in TaskRow
  BY <1>3, <1>4 DEF NoTask
<1>5. ASSUME NEW t \in TaskIds, NEW status \in TaskStatus, NEW d \in MaybeDeadline,
             CreateTask(t, status, d)
      PROVE  TypeOK'
  BY <1>1, <1>5 DEF CreateTask, TaskRow, OpPc
<1>6. ASSUME NEW t \in TaskIds, NEW d \in MaybeDeadline, ChangeDeadline(t, d)
      PROVE  TypeOK'
  BY <1>1, <1>2, <1>4, <1>6 DEF ChangeDeadline, OpPc
<1>7. ASSUME NEW t \in TaskIds, NEW d \in MaybeDeadline, UpdateTask(t, d)
      PROVE  TypeOK'
  BY <1>1, <1>2, <1>4, <1>7 DEF UpdateTask, OpPc
<1>8. ASSUME NEW t \in TaskIds, NEW row \in TaskRow, UpdateManualTask(t, row)
      PROVE  TypeOK'
  <2>1. AfterManualUpdate(task[t], row) \in OpPc
    BY DEF AfterManualUpdate, OpPc
  <2> QED
    BY <1>1, <1>8, <2>1 DEF UpdateManualTask
<1>9. ASSUME NEW t \in TaskIds, NEW status \in TaskStatus, CloseTask(t, status)
      PROVE  TypeOK'
  <2>1. [task[t] EXCEPT !.status = status] \in TaskRow
    BY <1>3, <1>9 DEF CloseTask, TaskRow
  <2> QED
    BY <1>1, <1>9, <2>1 DEF CloseTask, OpPc
<1>10. ASSUME NEW t \in TaskIds, DeleteTask(t)
       PROVE  TypeOK'
  <2>1. op' \in OpRecords /\ op'.task \in TaskIds
    BY <1>10, NullRecordTypes DEF DeleteTask, NoOp, OpRecords, OpPc
  <2>a. left.ops - 1 \in Nat /\ left.deletes - 1 \in Nat
    BY <1>10 DEF DeleteTask, CanBegin, TypeOK, Left
  <2>b. left' = [left EXCEPT !.ops = left.ops - 1, !.deletes = left.deletes - 1]
    BY <1>10 DEF DeleteTask
  <2>2. left' \in [Left -> Nat]
    BY <2>a, <2>b DEF TypeOK, Left
  <2> QED
    BY <1>10, <2>1, <2>2 DEF DeleteTask, tables, ghosts, TypeOK
<1> QED
  BY <1>5, <1>6, <1>7, <1>8, <1>9, <1>10 DEF Mutation

\* The idle operation record is well-typed.
LEMMA IdleOp == NoOp \in OpRecords /\ NoOp.pc = "idle"
BY NullRecordTypes DEF NoOp, OpRecords, OpPc

\* Every later step of a task operation keeps the types.
LEMMA OpStepType == ASSUME TypeOK, OpStep PROVE TypeOK'
<1> USE DEF OpUnchanged, tables, ghosts
<1>1. CASE PlanCancel
  <2>1. fact' \in FactTables
    BY <1>1, CancelledForType DEF PlanCancel
  <2>2. op.row.deadline \in MaybeDeadline
    BY DEF TypeOK, OpRecords, TaskRows, TaskRow, NoTask, MaybeDeadline
  <2>3. PlanDesiredReminders(op.row.status, op.row.deadline, now) \subseteq DesiredReminder
    BY <2>2, PlanType DEF TypeOK
  <2>4. op' \in OpRecords /\ op'.task \in TaskIds
    BY <1>1, <2>3 DEF PlanCancel, TypeOK, OpRecords, OpPc
  <2> QED
    BY <1>1, <2>1, <2>4 DEF PlanCancel, TypeOK
<1>2. CASE PlanCreate
  <2>1. PICK d \in op.todo, r \in FactIds :
          IF task[op.task] = NoTask
            THEN op' = NoOp /\ UNCHANGED <<fact, sent>>
            ELSE /\ CreateFact(r, op.task, d)
                 /\ op' = [op EXCEPT !.todo = @ \ {d}]
    BY <1>2 DEF PlanCreate
  <2>2. d.type \in ReminderType /\ d.trigger \in Nat /\ op.task \in TaskIds
    BY <1>2 DEF PlanCreate, TypeOK, OpRecords, DesiredReminder
  <2>3. fact' \in FactTables /\ sent' \in [FactIds -> Nat]
    BY <2>1, <2>2, CreateFactType DEF TypeOK
  <2>4. op' \in OpRecords /\ (op'.pc # "idle" => op'.task \in TaskIds)
    BY <1>2, <2>1, IdleOp DEF TypeOK, OpRecords
  <2> QED
    BY <1>2, <2>3, <2>4 DEF PlanCreate, TypeOK
<1>3. CASE PlanList
  <2>1. ASSUME NEW r \in FactIds, r \in Scheduled(fact)
        PROVE  fact[r].trigger \in Nat
    BY <2>1, ScheduledIsFact DEF TypeOK, Fact
  <2>2. [r \in FactIds |-> IF r \in Scheduled(fact) THEN fact[r].trigger ELSE None]
          \in JobStores
    BY <2>1 DEF JobStores
  <2>3. op' \in OpRecords /\ op'.task \in TaskIds
    BY <1>3, <2>2 DEF PlanList, TypeOK, OpRecords, OpPc
  <2> QED
    BY <1>3, <2>3 DEF PlanList, TypeOK
<1>4. CASE PlanInstall
  BY <1>4, IdleOp DEF PlanInstall, TypeOK, OpRecords
<1>5. CASE CancelFacts
  <2>1. op' \in OpRecords /\ op'.task \in TaskIds
    BY <1>5 DEF CancelFacts, TypeOK, OpRecords, OpPc
  <2> QED
    BY <1>5, <2>1, CancelledForType DEF CancelFacts, TypeOK
<1>6. CASE CancelJobs
  BY <1>6, IdleOp, UnscheduledType DEF CancelJobs, TypeOK
<1>7. CASE DeleteCancel
  <2>1. op' \in OpRecords /\ op'.task \in TaskIds
    BY <1>7 DEF DeleteCancel, TypeOK, OpRecords, OpPc
  <2> QED
    BY <1>7, <2>1, CancelledForType DEF DeleteCancel, TypeOK
<1>8. CASE DeleteJobs
  <2>1. op' \in OpRecords /\ op'.task \in TaskIds
    BY <1>8 DEF DeleteJobs, TypeOK, OpRecords, OpPc
  <2> QED
    BY <1>8, <2>1, UnscheduledType DEF DeleteJobs, TypeOK
<1>9. CASE DeleteFacts
  <2>1. op' \in OpRecords /\ op'.task \in TaskIds
    BY <1>9 DEF DeleteFacts, TypeOK, OpRecords, OpPc
  <2>2. fact' \in FactTables
    BY <1>9, NullRecordTypes DEF DeleteFacts, TypeOK, FactTables
  <2>3. fire' \in [FactIds -> FireRecords]
    BY <1>9 DEF DeleteFacts, TypeOK, FireRecords
  <2>4. \A r \in FactIds : fire'[r].pc = "deliver" => fire'[r].row # NoFact
    BY <1>9 DEF DeleteFacts, TypeOK, FireRecords
  <2> QED
    BY <1>9, <2>1, <2>2, <2>3, <2>4 DEF DeleteFacts, TypeOK
<1>10. CASE DeleteRow
  BY <1>10, IdleOp, NullRecordTypes DEF DeleteRow, TypeOK
<1> QED
  BY <1>1, <1>2, <1>3, <1>4, <1>5, <1>6, <1>7, <1>8, <1>9, <1>10 DEF OpStep

\* Every step of the cancel-one-reminder operation keeps the types.
LEMMA CancelStepType ==
  ASSUME TypeOK, (\E r \in FactIds : CancelRead(r)) \/ CancelStep
  PROVE  TypeOK'
<1> USE DEF CancelUnchanged
<1>1. ASSUME NEW r \in FactIds, CancelRead(r) PROVE TypeOK'
  <2>1. left' \in [Left -> Nat]
    BY <1>1 DEF CancelRead, TypeOK, Left
  <2>2. cancel' \in CancelRecords /\ cancel'.id \in FactIds
    BY <1>1 DEF CancelRead, CancelRecords
  <2> QED
    BY <1>1, <2>1, <2>2 DEF CancelRead, TypeOK
<1>2. CASE CancelMark
  <2>1. CASE fact[cancel.id] = NoFact
    BY <1>2, <2>1 DEF CancelMark, TypeOK, CancelRecords, NoCancel
  <2>2. CASE fact[cancel.id] # NoFact
    <3>1. fact' \in FactTables
      BY <1>2, <2>2, MarkType DEF CancelMark, TypeOK
    <3>2. fact[cancel.id].task \in TaskIds
      BY <1>2, <2>2 DEF CancelMark, TypeOK, FactTables, FactRows, Fact
    <3>3. cancel' \in CancelRecords /\ cancel'.id \in FactIds
      BY <1>2, <2>2 DEF CancelMark, TypeOK, CancelRecords
    <3> QED
      BY <1>2, <2>2, <3>1, <3>2, <3>3 DEF CancelMark, TypeOK
  <2> QED
    BY <2>1, <2>2
<1>3. CASE CancelUnschedule
  BY <1>3, UnscheduledType DEF CancelUnschedule, TypeOK, CancelRecords, NoCancel
<1> QED
  BY <1>1, <1>2, <1>3 DEF CancelStep

\* A handler record that moves on to its delivery, with the row it claimed, is
\* still a handler record.
LEMMA MarkedFireType ==
  ASSUME NEW f \in FireRecords, NEW row \in FactRows
  PROVE  /\ [f EXCEPT !.pc = "deliver", !.row = row, !.own = TRUE] \in FireRecords
         /\ [f EXCEPT !.pc = "deliver", !.row = row, !.own = TRUE].pc = "deliver"
BY DEF FireRecords, FirePc

\* A job leaving the store and every step of its handler keep the types.
LEMMA HandlerType ==
  ASSUME TypeOK, NEW r \in FactIds, JobRun(r) \/ JobMissed(r) \/ FireStep(r)
  PROVE  TypeOK'
<1> USE DEF FireUnchanged
<1>1. NoFire \in FireRecords /\ NoFire.pc = "idle"
  BY NullRecordTypes DEF NoFire, FireRecords, FirePc
<1>2. ASSUME fire' = [fire EXCEPT ![r] = NoFire]
      PROVE  /\ fire' \in [FactIds -> FireRecords]
             /\ \A q \in FactIds : fire'[q].pc = "deliver" => fire'[q].row # NoFact
  BY <1>1, <1>2 DEF TypeOK
<1>3. CASE JobRun(r)
  <2>1. job' \in JobStores
    BY <1>3 DEF JobRun, TypeOK, JobStores
  <2>2. fire' \in [FactIds -> FireRecords]
    BY <1>3, <1>1 DEF JobRun, TypeOK, FireRecords, FirePc, NoFire
  <2>3. \A q \in FactIds : fire'[q].pc = "deliver" => fire'[q].row # NoFact
    BY <1>3 DEF JobRun, TypeOK, NoFire
  <2> QED
    BY <1>3, <2>1, <2>2, <2>3 DEF JobRun, TypeOK
<1>4. CASE JobMissed(r)
  BY <1>4 DEF JobMissed, TypeOK, JobStores
<1>5. CASE FireRead(r)
  <2>1. fact[r] \in FactRows
    BY DEF TypeOK, FactTables
  <2>2. fire' \in [FactIds -> FireRecords]
    BY <1>5, <1>1, <2>1 DEF FireRead, TypeOK, FireRecords, FirePc
  <2>3. \A q \in FactIds : fire'[q].pc = "deliver" => fire'[q].row # NoFact
    BY <1>5, <1>1 DEF FireRead, TypeOK, FireRecords
  <2> QED
    BY <1>5, <2>2, <2>3 DEF FireRead, TypeOK
<1>6. CASE FireTask(r)
  <2>1. fire' \in [FactIds -> FireRecords]
    BY <1>6 DEF FireTask, TypeOK, FireRecords, FirePc
  <2>2. \A q \in FactIds : fire'[q].pc = "deliver" => fire'[q].row # NoFact
    BY <1>6 DEF FireTask, TypeOK, FireRecords
  <2> QED
    BY <1>6, <2>1, <2>2 DEF FireTask, TypeOK
<1>7. CASE FireClose(r)
  <2>1. fact' \in FactTables
    BY <1>7, MarkType DEF FireClose, TypeOK
  <2> QED
    BY <1>7, <1>2, <2>1 DEF FireClose, TypeOK
<1>8. CASE FireMark(r)
  <2>1. fact' \in FactTables
    BY <1>8, MarkType DEF FireMark, TypeOK
  <2>2. fact[r] \in FactRows
    BY DEF TypeOK, FactTables
  <2>3. fire' \in [FactIds -> FireRecords]
    <3>1. [fire[r] EXCEPT !.pc = "deliver", !.row = fact[r], !.own = TRUE]
            \in FireRecords
      <4>1. fire[r] \in FireRecords
        BY DEF TypeOK
      <4> QED
        BY <4>1, <2>2, MarkedFireType
    <3>2. \/ fire' = [fire EXCEPT ![r] = NoFire]
          \/ fire' = [fire EXCEPT ![r] =
                        [fire[r] EXCEPT !.pc = "deliver", !.row = fact[r], !.own = TRUE]]
      BY <1>8 DEF FireMark
    <3> QED
      BY <3>1, <3>2, <1>1 DEF TypeOK
  <2>4. \A q \in FactIds : fire'[q].pc = "deliver" => fire'[q].row # NoFact
    BY <1>8, <1>1 DEF FireMark, TypeOK, FireRecords
  <2> QED
    BY <1>8, <2>1, <2>3, <2>4 DEF FireMark, TypeOK
<1>9. CASE FireDeliver(r)
  <2>1. fire[r].row \in Fact
    BY <1>9 DEF FireDeliver, TypeOK, FireRecords, FactRows
  <2>2. Slot(fire[r].row) \in Slots
    BY <2>1 DEF Slot, Slots, Fact
  <2>3. told' \subseteq Slots
    BY <1>9, <2>2 DEF FireDeliver, TypeOK
  <2>4. sent' \in [FactIds -> Nat]
    BY <1>9 DEF FireDeliver, TypeOK
  <2>5. fire' \in [FactIds -> FireRecords]
    BY <1>9, <1>1 DEF FireDeliver, TypeOK, FireRecords, FirePc
  <2>6. \A q \in FactIds : fire'[q].pc = "deliver" => fire'[q].row # NoFact
    BY <1>9, <1>1 DEF FireDeliver, TypeOK, FireRecords
  <2> QED
    BY <1>9, <2>3, <2>4, <2>5, <2>6 DEF FireDeliver, TypeOK
<1>10. CASE FireError(r)
  <2>1. fact' \in FactTables
    BY <1>10, MarkType DEF FireError, TypeOK
  <2> QED
    BY <1>10, <1>2, <2>1 DEF FireError, TypeOK
<1> QED
  BY <1>3, <1>4, <1>5, <1>6, <1>7, <1>8, <1>9, <1>10 DEF FireStep

\* Every step of the scheduler's start-up synchronisation keeps the types.
LEMMA SyncStepType == ASSUME TypeOK, SyncStep PROVE TypeOK'
<1> USE DEF SyncUnchanged
<1>1. ASSUME NEW n \in Nat
      PROVE  [NoSync EXCEPT !.now = n] \in SyncRecords
  BY NullRecordTypes DEF NoSync, SyncRecords, SyncPc
<1>2. [r \in FactIds |-> IF r \in Scheduled(fact) THEN fact[r] ELSE NoFact] \in FactTables
  BY NullRecordTypes DEF TypeOK, FactTables
<1>3. sync.now \in Nat
  BY DEF TypeOK, SyncRecords
<1>4. CASE SyncClear
  <2>1. sync' \in SyncRecords
    BY <1>4, NullRecordTypes DEF SyncClear, NoSync, TypeOK, SyncRecords, SyncPc
  <2> QED
    BY <1>4, <2>1, NullRecordTypes DEF SyncClear, TypeOK
<1>5. CASE SyncFacts
  <2>1. sync' \in SyncRecords
    BY <1>5, <1>2 DEF SyncFacts, TypeOK, SyncRecords, SyncPc
  <2> QED
    BY <1>5, <2>1 DEF SyncFacts, TypeOK
<1>6. CASE SyncTasks
  <2>1. ASSUME NEW t \in Relevant
        PROVE  MissingOf(t) \subseteq DesiredReminder
    <3>1. task[t].deadline \in MaybeDeadline
      BY DEF Relevant, TypeOK, TaskRows, TaskRow, NoTask, MaybeDeadline
    <3> QED
      BY <3>1, <1>3, PlanType DEF MissingOf, DesiredOf
  <2>2. UNION {{[task |-> t, type |-> d.type, trigger |-> d.trigger] :
                  d \in MissingOf(t)} : t \in Relevant} \subseteq Slots
    BY <2>1 DEF Relevant, Slots, DesiredReminder
  <2>3. UNION {ActiveOf(t) \ KeptOf(t) : t \in Relevant} \subseteq FactIds
    BY DEF ActiveOf, Scheduled
  <2>4. sync' \in SyncRecords
    BY <1>6, <2>2, <2>3 DEF SyncTasks, TypeOK, SyncRecords, SyncPc
  <2> QED
    BY <1>6, <2>4 DEF SyncTasks, TypeOK
<1>7. CASE SyncCreate
  <2>1. PICK m \in sync.make, r \in FactIds :
          IF task[m.task] = NoTask
            THEN sync' = [NoSync EXCEPT !.now = sync.now] /\ UNCHANGED <<fact, sent>>
            ELSE /\ CreateFact(r, m.task, m)
                 /\ sync' = [sync EXCEPT !.make = @ \ {m}]
    BY <1>7 DEF SyncCreate
  <2>2. m.type \in ReminderType /\ m.trigger \in Nat /\ m.task \in TaskIds
    BY DEF TypeOK, SyncRecords, Slots
  <2>3. fact' \in FactTables /\ sent' \in [FactIds -> Nat]
    BY <2>1, <2>2, CreateFactType DEF TypeOK
  <2>4. sync' \in SyncRecords
    BY <1>1, <1>3, <2>1 DEF TypeOK, SyncRecords
  <2> QED
    BY <1>7, <2>3, <2>4 DEF SyncCreate, TypeOK
<1>8. CASE SyncDrop
  <2>1. PICK r \in sync.drop :
          IF fact[r] = NoFact
            THEN sync' = [NoSync EXCEPT !.now = sync.now] /\ UNCHANGED fact
            ELSE /\ Mark(r, "cancelled")
                 /\ sync' = [sync EXCEPT !.drop = @ \ {r}]
    BY <1>8 DEF SyncDrop
  <2>2. r \in FactIds
    BY DEF TypeOK, SyncRecords
  <2>3. fact' \in FactTables
    BY <2>1, <2>2, MarkType DEF TypeOK
  <2>4. sync' \in SyncRecords
    BY <1>1, <1>3, <2>1 DEF TypeOK, SyncRecords
  <2> QED
    BY <1>8, <2>3, <2>4 DEF SyncDrop, TypeOK
<1>9. ASSUME NEW t \in TaskIds, SyncOdd(t) PROVE TypeOK'
  <2>1. sync' \in SyncRecords
    BY <1>9 DEF SyncOdd, TypeOK, SyncRecords, ActiveOf, Scheduled
  <2> QED
    BY <1>9, <2>1 DEF SyncOdd, TypeOK
<1>10. CASE SyncSurvivors
  <2>1. sync' \in SyncRecords
    BY <1>10, <1>2 DEF SyncSurvivors, TypeOK, SyncRecords, SyncPc
  <2> QED
    BY <1>10, <2>1 DEF SyncSurvivors, TypeOK
<1>11. CASE SyncPast
  <2>1. PICK r \in FactIds :
          IF fact[r] = NoFact
            THEN sync' = [NoSync EXCEPT !.now = sync.now] /\ UNCHANGED fact
            ELSE /\ Mark(r, "cancelled")
                 /\ sync' = [sync EXCEPT !.rows[r] = NoFact]
    BY <1>11 DEF SyncPast
  <2>2. fact' \in FactTables
    BY <2>1, MarkType DEF TypeOK
  <2>3. [sync.rows EXCEPT ![r] = NoFact] \in FactTables
    BY NullRecordTypes DEF TypeOK, SyncRecords, FactTables
  <2>4. sync' \in SyncRecords
    BY <1>1, <1>3, <2>1, <2>3 DEF TypeOK, SyncRecords
  <2> QED
    BY <1>11, <2>2, <2>4 DEF SyncPast, TypeOK
<1>12. CASE SyncInstall
  <2>1. ASSUME NEW r \in FactIds, sync.rows[r] # NoFact
        PROVE  sync.rows[r].trigger \in Nat
    BY <2>1 DEF TypeOK, SyncRecords, FactTables, FactRows, Fact
  <2>2. job' \in JobStores
    BY <1>12, <2>1 DEF SyncInstall, TypeOK, JobStores
  <2> QED
    BY <1>12, <1>1, <1>3, <2>2 DEF SyncInstall, TypeOK
<1> QED
  BY <1>4, <1>5, <1>6, <1>7, <1>8, <1>9, <1>10, <1>11, <1>12 DEF SyncStep

\* Backups, restores, crashes, starts and the clock keep the types.
LEMMA SystemType ==
  ASSUME TypeOK, AbortOp \/ Backup \/ Restore \/ Crash \/ Start \/ Tick
  PROVE  TypeOK'
<1> USE DEF tables, ghosts
<1>1. NoFire \in FireRecords /\ NoFire.pc = "idle"
  BY NullRecordTypes DEF NoFire, FireRecords, FirePc
<1>2. NoSync \in SyncRecords /\ [NoSync EXCEPT !.pc = "clear"] \in SyncRecords
  BY NullRecordTypes DEF NoSync, SyncRecords, SyncPc
<1>3. CASE AbortOp
  BY <1>3, IdleOp DEF AbortOp, TypeOK, Left
<1>4. CASE Backup
  BY <1>4 DEF Backup, TypeOK, Backups
<1>5. CASE Restore
  <2>1. left' \in [Left -> Nat]
    BY <1>5 DEF Restore, TypeOK, Left
  <2>2. fire' \in [FactIds -> FireRecords]
    BY <1>5 DEF Restore, TypeOK, FireRecords
  <2>3. \A r \in FactIds : fire'[r].pc = "deliver" => fire'[r].row # NoFact
    BY <1>5 DEF Restore, TypeOK, FireRecords
  <2>4. task' \in [TaskIds -> TaskRows] /\ fact' \in FactTables
    BY <1>5 DEF Restore, TypeOK, Backups
  <2> QED
    BY <1>5, <1>2, <2>1, <2>2, <2>3, <2>4 DEF Restore, TypeOK
<1>6. CASE Crash
  <2>1. left' \in [Left -> Nat]
    BY <1>6 DEF Crash, TypeOK, Left
  <2> QED
    BY <1>6, <1>1, <1>2, <2>1, IdleOp, NullRecordTypes
    DEF Crash, TypeOK, CancelRecords, NoCancel
<1>7. CASE Start
  BY <1>7, <1>2 DEF Start, TypeOK
<1>8. CASE Tick
  BY <1>8 DEF Tick, TypeOK
<1> QED
  BY <1>3, <1>4, <1>5, <1>6, <1>7, <1>8

\* Whatever the values of the constants, every variable keeps its type: no
\* handler, mutation or recovery writes a malformed row, job or record.
THEOREM TypeCorrect == Spec => []TypeOK
<1>1. Init => TypeOK
  BY InitType
<1>2. TypeOK /\ [Next]_vars => TypeOK'
  <2> SUFFICES ASSUME TypeOK, [Next]_vars PROVE TypeOK'
    OBVIOUS
  <2>1. CASE UNCHANGED vars
    BY <2>1 DEF vars, TypeOK
  <2>2. CASE Next
    BY <2>2, MutationType, OpStepType, CancelStepType, HandlerType, SyncStepType,
       SystemType DEF Next
  <2> QED
    BY <2>1, <2>2
<1> QED
  BY <1>1, <1>2, PTL DEF Spec

-----------------------------------------------------------------------------
(* No row is sent twice.                                                   *)

Closed == {"fired", "cancelled"}

\* The strengthening: an active row was never sent; neither was the row of a
\* handler that has passed the status check and not yet claimed; and a claimed
\* row is closed until it is deleted or replaced, when the claim is no longer
\* its own.
ClaimInv ==
  \A r \in FactIds :
    /\ sent[r] <= 1
    /\ fact[r].status = "scheduled" => sent[r] = 0
    /\ fire[r].pc \in {"task", "mark"} => sent[r] = 0
    /\ fire[r].own => fact[r].status \in Closed
    /\ fire[r].own /\ fire[r].pc = "deliver" => sent[r] = 0

\* A step that creates no row and reopens none.
OnlyCloses ==
  \A r \in FactIds :
    /\ fact'[r].status = "scheduled" => fact[r].status = "scheduled"
    /\ fact[r].status \in Closed => fact'[r].status \in Closed

\* Cancelling a task's reminders only ever closes active rows.
LEMMA CancelledForCloses ==
  ASSUME TypeOK, NEW t, fact' = CancelledFor(t)
  PROVE  OnlyCloses
<1>1. \A r \in FactIds : fact[r] \in FactRows
  BY DEF TypeOK, FactTables
<1>2. \A r \in FactIds : fact'[r] = [fact[r] EXCEPT !.status = "cancelled"]
                         \/ fact'[r] = fact[r]
  BY DEF CancelledFor
<1>3. \A f \in FactRows : [f EXCEPT !.status = "cancelled"].status = "cancelled"
  BY DEF FactRows, Fact, NoFact
<1> QED
  BY <1>1, <1>2, <1>3 DEF OnlyCloses, Closed

\* Marking a row with a closed status closes it and no other change is made.
LEMMA MarkCloses ==
  ASSUME TypeOK, NEW r \in FactIds, NEW s \in Closed, Mark(r, s)
  PROVE  OnlyCloses /\ fact'[r].status = s
<1>1. fact[r] \in FactRows
  BY DEF TypeOK, FactTables
<1>2. fact' = [fact EXCEPT ![r] = [fact[r] EXCEPT !.status = s]]
  BY DEF Mark
<1>3. [fact[r] EXCEPT !.status = s].status = s
  BY <1>1 DEF FactRows, Fact, NoFact
<1> QED
  BY <1>2, <1>3 DEF OnlyCloses, Closed, TypeOK, FactTables

\* What leaves the handlers and the deliveries alone keeps the invariant when
\* it closes rows or creates them.
LEMMA CloseKeepsClaims ==
  ASSUME ClaimInv, OnlyCloses, UNCHANGED <<fire, sent>>
  PROVE  ClaimInv'
BY DEF ClaimInv, OnlyCloses

\* Creating a row disturbs no handler's claim.
LEMMA CreateKeepsClaims ==
  ASSUME TypeOK, ClaimInv, NEW r \in FactIds, NEW t, NEW d, CreateFact(r, t, d),
         UNCHANGED fire
  PROVE  ClaimInv'
<1>1. fact[r] = NoFact
  BY DEF CreateFact, IsNextFactId
<1>2. ~ fire[r].own
  BY <1>1 DEF ClaimInv, NoFact, Closed
<1>3. sent' = [sent EXCEPT ![r] = 0] /\ \A q \in FactIds \ {r} : fact'[q] = fact[q]
  BY DEF CreateFact, TypeOK, FactTables
<1> QED
  BY <1>2, <1>3 DEF ClaimInv, TypeOK

\* Every step keeps the claims: a closed row is delivered by its claimer only.
LEMMA ClaimStep ==
  ASSUME TypeOK, ClaimInv, [Next]_vars
  PROVE  ClaimInv'
<1> USE DEF tables, ghosts
<1>1. CASE UNCHANGED vars
  BY <1>1 DEF vars, ClaimInv
<1>2. CASE Mutation
  <2>1. ASSUME NEW t \in TaskIds, NEW row, NEW pc, Write(t, row, pc)
        PROVE  ClaimInv'
    <3>1. \A r \in FactIds : fire'[r].pc = fire[r].pc /\ fire'[r].own = fire[r].own
      BY <2>1 DEF Write, TypeOK, FireRecords
    <3> QED
      BY <2>1, <3>1 DEF Write, ClaimInv
  <2>2. ASSUME NEW t \in TaskIds, DeleteTask(t) PROVE ClaimInv'
    BY <2>2 DEF DeleteTask, ClaimInv
  <2> QED
    BY <1>2, <2>1, <2>2 DEF Mutation, CreateTask, ChangeDeadline, UpdateTask,
       UpdateManualTask, CloseTask
<1>3. CASE OpStep
  <2> USE DEF OpUnchanged
  <2>1. CASE PlanCancel \/ CancelFacts \/ DeleteCancel
    BY <2>1, CancelledForCloses, CloseKeepsClaims
    DEF PlanCancel, CancelFacts, DeleteCancel
  <2>2. CASE PlanCreate
    <3>1. PICK d \in op.todo, r \in FactIds :
            CreateFact(r, op.task, d) \/ UNCHANGED <<fact, sent>>
      BY <2>2 DEF PlanCreate
    <3>2. UNCHANGED fire
      BY <2>2 DEF PlanCreate
    <3> QED
      BY <3>1, <3>2, CreateKeepsClaims DEF ClaimInv
  <2>3. CASE PlanList \/ PlanInstall \/ CancelJobs \/ DeleteJobs \/ DeleteRow
    BY <2>3 DEF PlanList, PlanInstall, CancelJobs, DeleteJobs, DeleteRow, ClaimInv
  <2>4. CASE DeleteFacts
    <3>1. \A r \in FactIds : /\ fire'[r].pc = fire[r].pc
                             /\ fire'[r].own => fire[r].own /\ fact'[r] = fact[r]
                             /\ fact'[r] # fact[r] => fact'[r].status = "absent"
      BY <2>4 DEF DeleteFacts, TypeOK, FireRecords, NoFact
    <3>2. UNCHANGED sent
      BY <2>4 DEF DeleteFacts
    <3> QED
      BY <3>1, <3>2 DEF ClaimInv
  <2> QED
    BY <1>3, <2>1, <2>2, <2>3, <2>4 DEF OpStep
<1>4. CASE AbortOp
  BY <1>4 DEF AbortOp, ClaimInv
<1>5. CASE \E r \in FactIds : CancelRead(r)
  BY <1>5 DEF CancelRead, CancelUnchanged, ClaimInv
<1>6. CASE CancelStep
  <2>1. cancel.pc # "idle" => cancel.id \in FactIds
    BY DEF TypeOK
  <2>2. CASE CancelMark
    <3>1. (Mark(cancel.id, "cancelled") \/ UNCHANGED fact) /\ UNCHANGED <<fire, sent>>
      BY <2>2 DEF CancelMark, CancelUnchanged
    <3>2. cancel.id \in FactIds
      BY <2>1, <2>2 DEF CancelMark
    <3> QED
      BY <3>1, <3>2, MarkCloses, CloseKeepsClaims DEF Closed, ClaimInv
  <2>3. CASE CancelUnschedule
    BY <2>3 DEF CancelUnschedule, CancelUnchanged, ClaimInv
  <2> QED
    BY <1>6, <2>2, <2>3 DEF CancelStep
<1>7. ASSUME NEW r \in FactIds, JobRun(r) \/ JobMissed(r) \/ FireStep(r)
      PROVE  ClaimInv'
  <2> USE DEF FireUnchanged
  <2>1. CASE JobRun(r)
    BY <2>1 DEF JobRun, NoFire, TypeOK, ClaimInv
  <2>2. CASE JobMissed(r)
    BY <2>2 DEF JobMissed, ClaimInv
  <2>3. CASE FireRead(r)
    <3>1. \A q \in FactIds \ {r} : fire'[q] = fire[q]
      BY <2>3 DEF FireRead, TypeOK
    <3>2. \/ fire'[r] = NoFire
          \/ /\ fact[r].status = "scheduled"
             /\ fire'[r].pc = "task" /\ fire'[r].own = fire[r].own
      BY <2>3 DEF FireRead, TypeOK, FireRecords
    <3>3. UNCHANGED <<fact, sent>>
      BY <2>3 DEF FireRead
    <3> QED
      BY <3>1, <3>2, <3>3 DEF ClaimInv, NoFire
  <2>4. CASE FireTask(r)
    <3>1. \A q \in FactIds \ {r} : fire'[q] = fire[q]
      BY <2>4 DEF FireTask, TypeOK
    <3>2. /\ fire[r].pc = "task" /\ fire'[r].pc \in {"mark", "close"}
          /\ fire'[r].own = fire[r].own
      BY <2>4 DEF FireTask, TypeOK, FireRecords
    <3>3. UNCHANGED <<fact, sent>>
      BY <2>4 DEF FireTask
    <3> QED
      BY <3>1, <3>2, <3>3 DEF ClaimInv
  <2>5. CASE FireClose(r) \/ FireError(r)
    <3>1. Mark(r, "cancelled") \/ Mark(r, "fired") \/ UNCHANGED fact
      BY <2>5 DEF FireClose, FireError
    <3>2. OnlyCloses
      BY <3>1, MarkCloses DEF Closed, OnlyCloses
    <3>3. UNCHANGED sent /\ fire' = [fire EXCEPT ![r] = NoFire]
      BY <2>5 DEF FireClose, FireError
    <3> QED
      BY <3>2, <3>3 DEF ClaimInv, OnlyCloses, NoFire, TypeOK
  <2>6. CASE FireMark(r)
    <3>1. CASE fact[r] = NoFact
      <4>1. UNCHANGED <<fact, sent>> /\ fire' = [fire EXCEPT ![r] = NoFire]
        BY <2>6, <3>1 DEF FireMark
      <4> QED
        BY <4>1 DEF ClaimInv, NoFire, TypeOK
    <3>2. CASE fact[r] # NoFact
      <4>1. OnlyCloses /\ fact'[r].status = "fired"
        BY <2>6, <3>2, MarkCloses DEF FireMark, Closed
      <4>2. sent[r] = 0 /\ UNCHANGED sent
        BY <2>6, <3>2 DEF FireMark, ClaimInv
      <4>3. \A q \in FactIds \ {r} : fire'[q] = fire[q]
        BY <2>6, <3>2 DEF FireMark, TypeOK
      <4>4. fire'[r].pc = "deliver"
        <5>1. /\ fire[r] \in FireRecords /\ fire \in [FactIds -> FireRecords]
              /\ fact[r] \in FactRows
          BY DEF TypeOK, FactTables
        <5>2. fire' = [fire EXCEPT ![r] =
                         [fire[r] EXCEPT !.pc = "deliver", !.row = fact[r],
                                         !.own = TRUE]]
          BY <2>6, <3>2 DEF FireMark
        <5>3. fire'[r] = [fire[r] EXCEPT !.pc = "deliver", !.row = fact[r],
                                         !.own = TRUE]
          BY <5>1, <5>2
        <5> QED
          BY <5>1, <5>3, MarkedFireType
      <4> QED
        BY <4>1, <4>2, <4>3, <4>4 DEF ClaimInv, OnlyCloses, Closed
    <3> QED
      BY <3>1, <3>2
  <2>7. CASE FireDeliver(r)
    <3>1. \A q \in FactIds \ {r} : fire'[q] = fire[q] /\ sent'[q] = sent[q]
      BY <2>7 DEF FireDeliver, TypeOK
    <3>2. fire'[r].pc \in {"error", "idle"} /\ (fire'[r].own => fire[r].own)
      BY <2>7 DEF FireDeliver, TypeOK, FireRecords, NoFire
    <3>3. sent'[r] = sent[r] \/ (fire[r].own /\ sent'[r] = sent[r] + 1)
      BY <2>7 DEF FireDeliver, TypeOK
    <3>4. fire[r].pc = "deliver" /\ UNCHANGED fact
      BY <2>7 DEF FireDeliver
    <3> QED
      BY <3>1, <3>2, <3>3, <3>4 DEF ClaimInv, TypeOK, Closed
  <2> QED
    BY <1>7, <2>1, <2>2, <2>3, <2>4, <2>5, <2>6, <2>7 DEF FireStep
<1>8. CASE SyncStep
  <2> USE DEF SyncUnchanged
  <2>1. CASE SyncCreate
    <3>1. PICK m \in sync.make, r \in FactIds :
            CreateFact(r, m.task, m) \/ UNCHANGED <<fact, sent>>
      BY <2>1 DEF SyncCreate
    <3>2. UNCHANGED fire
      BY <2>1 DEF SyncCreate
    <3> QED
      BY <3>1, <3>2, CreateKeepsClaims DEF ClaimInv
  <2>2. CASE SyncDrop \/ SyncPast
    <3>1. \E r \in FactIds : Mark(r, "cancelled") \/ UNCHANGED fact
      BY <2>2 DEF SyncDrop, SyncPast, TypeOK, SyncRecords
    <3>2. UNCHANGED <<fire, sent>>
      BY <2>2 DEF SyncDrop, SyncPast
    <3> QED
      BY <3>1, <3>2, MarkCloses, CloseKeepsClaims DEF Closed, ClaimInv
  <2>3. CASE \/ SyncClear \/ SyncFacts \/ SyncTasks \/ SyncSurvivors
             \/ SyncInstall \/ \E t \in TaskIds : SyncOdd(t)
    BY <2>3 DEF SyncClear, SyncFacts, SyncTasks, SyncSurvivors, SyncInstall,
       SyncOdd, ClaimInv
  <2> QED
    BY <1>8, <2>1, <2>2, <2>3 DEF SyncStep
<1>9. CASE Backup \/ Start \/ Tick
  BY <1>9 DEF Backup, Start, Tick, ClaimInv
<1>10. CASE Restore
  <2>1. \A r \in FactIds : /\ sent'[r] = 0 /\ ~ fire'[r].own
                           /\ fire'[r].pc = fire[r].pc
    BY <1>10 DEF Restore, TypeOK, FireRecords
  <2> QED
    BY <2>1 DEF ClaimInv
<1>11. CASE Crash
  BY <1>11 DEF Crash, NoFire, ClaimInv
<1> QED
  BY <1>1, <1>2, <1>3, <1>4, <1>5, <1>6, <1>7, <1>8, <1>9, <1>10, <1>11 DEF Next

\* No interleaving of mutations, cancels, crashes, restores and handlers hands
\* one reminder row to the delivery twice.  (A restored row is a new one: it may
\* be delivered again, as the backup knew it.)
THEOREM NeverSentTwice == Spec => []RowSentAtMostOnce
<1>1. Init => ClaimInv
  BY DEF Init, ClaimInv, NoFacts, NoFact, NoFire
<1>2. TypeOK /\ ClaimInv /\ [Next]_vars => ClaimInv'
  BY ClaimStep
<1>3. ClaimInv => RowSentAtMostOnce
  BY DEF ClaimInv, RowSentAtMostOnce
<1> QED
  BY <1>1, <1>2, <1>3, TypeCorrect, PTL DEF Spec

-----------------------------------------------------------------------------
(* Jobs stand for present rows, until a restore.                           *)

\* A job, or a reading of a row, agrees with the present rows.
AgreesWith(rows, jobs) ==
  \A r \in FactIds : jobs[r] # None => rows[r] # NoFact /\ jobs[r] = rows[r].trigger

\* The strengthening: what a plan or the resync is about to install agrees
\* with the rows too; a mutation about to delete rows has dropped their jobs;
\* and mutations run only when no resync does.
JobInv ==
  /\ AgreesWith(fact, job)
  /\ op.pc = "install" => AgreesWith(fact, op.snap)
  /\ op.pc = "delete_facts" => \A r \in FactsOf(op.task) : job[r] = None
  /\ sync.pc # "idle" => up = "starting"
  /\ up # "running" => op.pc = "idle"
  /\ sync.pc = "install" =>
       \A r \in FactIds : sync.rows[r] # NoFact =>
          fact[r] # NoFact /\ sync.rows[r].trigger = fact[r].trigger

NoRestore == left.restores = MaxRestores

\* No row disappears, and none changes its task, its type or its time.
RowsKept ==
  \A r \in FactIds : fact[r] # NoFact =>
     /\ fact'[r] # NoFact
     /\ fact'[r].task = fact[r].task
     /\ fact'[r].type = fact[r].type
     /\ fact'[r].trigger = fact[r].trigger

\* Cancelling a task's reminders neither adds nor moves a row.
LEMMA CancelledForKeeps ==
  ASSUME TypeOK, NEW t, fact' = CancelledFor(t)
  PROVE  RowsKept /\ \A r \in FactIds : fact[r] = NoFact => fact'[r] = NoFact
<1>1. ASSUME NEW r \in FactIds, fact[r] # NoFact PROVE fact[r] \in Fact
  BY <1>1 DEF TypeOK, FactTables, FactRows
<1>2. \A f \in Fact : LET g == [f EXCEPT !.status = "cancelled"]
                      IN  /\ g # NoFact /\ g.task = f.task
                          /\ g.type = f.type /\ g.trigger = f.trigger
  BY DEF Fact, NoFact
<1>3. \A r \in FactIds : \/ fact'[r] = fact[r]
                         \/ fact[r] # NoFact
                            /\ fact'[r] = [fact[r] EXCEPT !.status = "cancelled"]
  BY DEF CancelledFor, FactsOf
<1> QED
  BY <1>1, <1>2, <1>3 DEF RowsKept

\* A status update neither adds nor moves a row.
LEMMA MarkKeeps ==
  ASSUME TypeOK, NEW r \in FactIds, fact[r] # NoFact, NEW s \in Closed, Mark(r, s)
  PROVE  RowsKept /\ \A q \in FactIds : fact[q] = NoFact => fact'[q] = NoFact
<1>1. fact[r] \in Fact
  BY DEF TypeOK, FactTables, FactRows
<1>2. LET g == [fact[r] EXCEPT !.status = s]
      IN  /\ g # NoFact /\ g.task = fact[r].task
          /\ g.type = fact[r].type /\ g.trigger = fact[r].trigger
  BY <1>1 DEF Fact, NoFact, Closed
<1>3. /\ fact'[r] = [fact[r] EXCEPT !.status = s]
      /\ \A q \in FactIds \ {r} : fact'[q] = fact[q]
  BY DEF Mark, TypeOK, FactTables
<1> QED
  BY <1>2, <1>3 DEF RowsKept

\* Creating a row leaves every other row as it was.
LEMMA CreateKeeps ==
  ASSUME TypeOK, NEW r \in FactIds, NEW t, NEW d, CreateFact(r, t, d)
  PROVE  /\ RowsKept
         /\ \A q \in FactIds \ {r} : fact'[q] = fact[q]
         /\ fact[r] = NoFact
<1>1. fact[r] = NoFact
  BY DEF CreateFact, IsNextFactId
<1>2. \A q \in FactIds \ {r} : fact'[q] = fact[q]
  BY DEF CreateFact, TypeOK, FactTables
<1> QED
  BY <1>1, <1>2 DEF RowsKept

\* Jobs that agree with the rows still do once the rows are kept.
LEMMA AgreementKept ==
  ASSUME RowsKept, NEW jobs, AgreesWith(fact, jobs)
  PROVE  AgreesWith(fact', jobs)
BY DEF RowsKept, AgreesWith

\* Closing a row that is there, while the rest stands still, keeps JobInv.
LEMMA ClosingKeepsJobs ==
  ASSUME JobInv, RowsKept, UNCHANGED <<job, up, op, sync>>,
         \A r \in FactIds : fact[r] = NoFact => fact'[r] = NoFact
  PROVE  JobInv'
<1>1. FactsOf(op.task)' = FactsOf(op.task)
  BY DEF FactsOf, RowsKept
<1> QED
  BY <1>1, AgreementKept DEF JobInv, RowsKept

\* So does dropping jobs.
LEMMA DroppingKeepsJobs ==
  ASSUME JobInv, UNCHANGED <<fact, up, op, sync>>,
         \A r \in FactIds : job'[r] = None \/ job'[r] = job[r]
  PROVE  JobInv'
<1>1. FactsOf(op.task)' = FactsOf(op.task)
  BY DEF FactsOf
<1>2. AgreesWith(fact', job')
  BY DEF JobInv, AgreesWith
<1>3. op.pc = "install" => AgreesWith(fact', op'.snap)
  BY DEF JobInv, AgreesWith
<1>4. op.pc = "delete_facts" => \A r \in FactsOf(op.task)' : job'[r] = None
  <2>1. \A r \in FactsOf(op.task) : r \in FactIds
    BY DEF FactsOf
  <2> QED
    BY <1>1, <2>1 DEF JobInv
<1> QED
  BY <1>2, <1>3, <1>4 DEF JobInv

\* A step that touches neither rows, jobs nor the scheduler keeps JobInv.
LEMMA StillKeepsJobs ==
  ASSUME JobInv, UNCHANGED <<fact, job, up, op, sync>>
  PROVE  JobInv'
BY DEF JobInv, AgreesWith, FactsOf

\* Every step other than a restore keeps JobInv.
LEMMA JobStep ==
  ASSUME TypeOK, JobInv, [Next]_vars, ~ Restore
  PROVE  JobInv'
<1> USE DEF tables, ghosts
<1>1. CASE UNCHANGED vars
  BY <1>1, StillKeepsJobs DEF vars
<1>2. CASE Mutation
  <2>1. /\ up = "running" /\ sync.pc = "idle"
        /\ UNCHANGED <<fact, job, up, sync>>
        /\ op'.pc \notin {"install", "delete_facts"}
    <3>1. CanBegin /\ UNCHANGED <<fact, job, up, sync>>
      BY <1>2 DEF Mutation, CreateTask, ChangeDeadline, UpdateTask, UpdateManualTask,
         CloseTask, DeleteTask, Write
    <3>2. ASSUME NEW t, NEW row, NEW pc, Write(t, row, pc),
                 pc \in {"plan", "cancel", "idle"}
          PROVE  op'.pc \notin {"install", "delete_facts"}
      BY <3>2 DEF Write, NoOp
    <3>3. op'.pc \notin {"install", "delete_facts"}
      BY <1>2, <3>2 DEF Mutation, CreateTask, ChangeDeadline, UpdateTask,
         UpdateManualTask, AfterManualUpdate, CloseTask, DeleteTask, NoOp
    <3> QED
      BY <3>1, <3>3 DEF CanBegin, JobInv, TypeOK
  <2> QED
    BY <2>1 DEF JobInv, AgreesWith
<1>3. CASE OpStep
  <2> USE DEF OpUnchanged
  <2>1. up = "running" /\ sync.pc = "idle"
    BY <1>3 DEF OpStep, PlanCancel, PlanCreate, PlanList, PlanInstall, CancelFacts,
       CancelJobs, DeleteCancel, DeleteJobs, DeleteFacts, DeleteRow, JobInv, TypeOK
  <2>2. CASE PlanCancel \/ CancelFacts \/ DeleteCancel
    <3>1. RowsKept
      BY <2>2, CancelledForKeeps DEF PlanCancel, CancelFacts, DeleteCancel
    <3>2. /\ UNCHANGED <<job, up, sync>>
          /\ op'.pc \in {"create", "unschedule", "delete_jobs"}
      BY <2>2 DEF PlanCancel, CancelFacts, DeleteCancel, TypeOK, OpRecords
    <3> QED
      BY <2>1, <3>1, <3>2, AgreementKept DEF JobInv
  <2>3. CASE PlanCreate
    <3>1. PICK d \in op.todo, r \in FactIds :
            CreateFact(r, op.task, d) \/ UNCHANGED fact
      BY <2>3 DEF PlanCreate
    <3>2. RowsKept
      BY <3>1, CreateKeeps DEF RowsKept
    <3>3. UNCHANGED <<job, up, sync>> /\ op'.pc \in {"create", "idle"}
      BY <2>3 DEF PlanCreate, NoOp, TypeOK, OpRecords
    <3> QED
      BY <2>1, <3>2, <3>3, AgreementKept DEF JobInv
  <2>4. CASE PlanList
    <3>1. /\ op'.pc = "install"
          /\ op'.snap = [r \in FactIds |-> IF r \in Scheduled(fact) THEN fact[r].trigger
                                                                    ELSE None]
      BY <2>4 DEF PlanList, TypeOK, OpRecords
    <3>2. AgreesWith(fact, op'.snap)
      BY <3>1 DEF AgreesWith, Scheduled, NoFact
    <3>3. UNCHANGED <<fact, job, up, sync>>
      BY <2>4 DEF PlanList
    <3> QED
      BY <2>1, <3>1, <3>2, <3>3 DEF JobInv, AgreesWith
  <2>5. CASE PlanInstall
    BY <2>1, <2>5 DEF PlanInstall, NoOp, JobInv, AgreesWith
  <2>6. CASE CancelJobs
    <3>1. AgreesWith(fact, job')
      BY <2>6 DEF CancelJobs, Unscheduled, JobInv, AgreesWith
    <3> QED
      BY <2>1, <2>6, <3>1 DEF CancelJobs, NoOp, JobInv, AgreesWith
  <2>7. CASE DeleteJobs
    <3>1. AgreesWith(fact, job') /\ \A r \in FactsOf(op.task) : job'[r] = None
      BY <2>7 DEF DeleteJobs, Unscheduled, JobInv, AgreesWith, FactsOf
    <3>2. op'.pc = "delete_facts" /\ op'.task = op.task
      BY <2>7 DEF DeleteJobs, TypeOK, OpRecords
    <3>3. FactsOf(op.task)' = FactsOf(op.task)
      BY <2>7, <3>2 DEF DeleteJobs, FactsOf
    <3> QED
      BY <2>1, <2>7, <3>1, <3>2, <3>3 DEF DeleteJobs, JobInv, AgreesWith
  <2>8. CASE DeleteFacts
    <3>1. op'.pc = "delete_task"
      BY <2>8 DEF DeleteFacts, TypeOK, OpRecords
    <3>2. AgreesWith(fact', job)
      BY <2>8 DEF DeleteFacts, JobInv, AgreesWith
    <3> QED
      BY <2>1, <2>8, <3>1, <3>2 DEF DeleteFacts, JobInv, AgreesWith
  <2>9. CASE DeleteRow
    BY <2>1, <2>9 DEF DeleteRow, NoOp, JobInv, AgreesWith
  <2> QED
    BY <1>3, <2>2, <2>3, <2>4, <2>5, <2>6, <2>7, <2>8, <2>9 DEF OpStep
<1>4. CASE AbortOp
  BY <1>4 DEF AbortOp, NoOp, JobInv, AgreesWith
<1>5. CASE \E r \in FactIds : CancelRead(r)
  BY <1>5, StillKeepsJobs DEF CancelRead, CancelUnchanged
<1>6. CASE CancelStep
  <2>1. CASE CancelMark
    <3>1. cancel.id \in FactIds
      BY <2>1 DEF CancelMark, TypeOK
    <3>2. UNCHANGED <<job, up, op, sync>>
      BY <2>1 DEF CancelMark, CancelUnchanged
    <3>3. CASE fact[cancel.id] = NoFact
      BY <2>1, <3>2, <3>3, StillKeepsJobs DEF CancelMark
    <3>4. CASE fact[cancel.id] # NoFact
      BY <2>1, <3>1, <3>2, <3>4, MarkKeeps, ClosingKeepsJobs DEF CancelMark, Closed
    <3> QED
      BY <3>3, <3>4
  <2>2. CASE CancelUnschedule
    BY <2>2, DroppingKeepsJobs DEF CancelUnschedule, CancelUnchanged, Unscheduled
  <2> QED
    BY <1>6, <2>1, <2>2 DEF CancelStep
<1>7. ASSUME NEW r \in FactIds, JobRun(r) \/ JobMissed(r) \/ FireStep(r)
      PROVE  JobInv'
  <2> USE DEF FireUnchanged
  <2>1. CASE JobRun(r) \/ JobMissed(r)
    <3>1. \A q \in FactIds : job'[q] = None \/ job'[q] = job[q]
      BY <2>1 DEF JobRun, JobMissed, TypeOK, JobStores
    <3>2. UNCHANGED <<fact, up, op, sync>>
      BY <2>1 DEF JobRun, JobMissed
    <3> QED
      BY <3>1, <3>2, DroppingKeepsJobs
  <2>2. CASE FireRead(r) \/ FireTask(r) \/ FireDeliver(r)
    BY <2>2, StillKeepsJobs DEF FireRead, FireTask, FireDeliver
  <2>3. CASE FireClose(r) \/ FireMark(r) \/ FireError(r)
    <3>1. UNCHANGED <<job, up, op, sync>>
      BY <2>3 DEF FireClose, FireMark, FireError
    <3>2. CASE fact[r] = NoFact
      BY <2>3, <3>1, <3>2, StillKeepsJobs DEF FireClose, FireMark, FireError
    <3>3. CASE fact[r] # NoFact
      <4>1. Mark(r, "cancelled") \/ Mark(r, "fired")
        BY <2>3, <3>3 DEF FireClose, FireMark, FireError
      <4> QED
        BY <3>1, <3>3, <4>1, MarkKeeps, ClosingKeepsJobs DEF Closed
    <3> QED
      BY <3>2, <3>3
  <2> QED
    BY <1>7, <2>1, <2>2, <2>3 DEF FireStep
<1>8. CASE SyncStep
  <2> USE DEF SyncUnchanged
  <2>1. up = "starting" /\ op.pc = "idle" /\ UNCHANGED op
    BY <1>8 DEF SyncStep, SyncClear, SyncFacts, SyncTasks, SyncCreate, SyncDrop,
       SyncOdd, SyncSurvivors, SyncPast, SyncInstall, JobInv, TypeOK
  <2>2. CASE SyncClear
    BY <2>1, <2>2 DEF SyncClear, NoSync, NoJobs, JobInv, AgreesWith
  <2>3. CASE \/ SyncFacts \/ SyncTasks \/ \E t \in TaskIds : SyncOdd(t)
    BY <2>1, <2>3 DEF SyncFacts, SyncTasks, SyncOdd, JobInv, AgreesWith, TypeOK, SyncRecords
  <2>4. CASE SyncCreate
    <3>1. PICK m \in sync.make, r \in FactIds :
            CreateFact(r, m.task, m) \/ UNCHANGED fact
      BY <2>4 DEF SyncCreate
    <3>2. RowsKept
      BY <3>1, CreateKeeps DEF RowsKept
    <3>3. UNCHANGED <<job, up>> /\ sync'.pc # "install"
      BY <2>4 DEF SyncCreate, NoSync, TypeOK, SyncRecords
    <3> QED
      BY <2>1, <3>2, <3>3, AgreementKept DEF JobInv
  <2>5. CASE SyncDrop
    <3>1. PICK r \in FactIds : \/ fact[r] # NoFact /\ Mark(r, "cancelled")
                               \/ UNCHANGED fact
      BY <2>5 DEF SyncDrop, TypeOK, SyncRecords
    <3>2. RowsKept
      BY <3>1, MarkKeeps DEF RowsKept, Closed
    <3>3. UNCHANGED <<job, up>> /\ sync'.pc # "install"
      BY <2>5 DEF SyncDrop, NoSync, TypeOK, SyncRecords
    <3> QED
      BY <2>1, <3>2, <3>3, AgreementKept DEF JobInv
  <2>6. CASE SyncSurvivors
    <3>1. /\ UNCHANGED <<fact, job, up>>
          /\ sync'.rows = [r \in FactIds |-> IF r \in Scheduled(fact) THEN fact[r]
                                                                      ELSE NoFact]
      BY <2>6 DEF SyncSurvivors, TypeOK, SyncRecords
    <3>2. \A r \in FactIds : sync'.rows[r] # NoFact =>
            fact[r] # NoFact /\ sync'.rows[r].trigger = fact[r].trigger
      BY <3>1
    <3> QED
      BY <2>1, <3>1, <3>2 DEF JobInv, AgreesWith
  <2>7. CASE SyncPast
    <3>1. PICK r \in FactIds :
            \/ fact[r] = NoFact /\ UNCHANGED fact
               /\ sync' = [NoSync EXCEPT !.now = sync.now]
            \/ fact[r] # NoFact /\ Mark(r, "cancelled")
               /\ sync' = [sync EXCEPT !.rows[r] = NoFact]
      BY <2>7 DEF SyncPast
    <3>2. RowsKept
      BY <3>1, MarkKeeps DEF RowsKept, Closed
    <3>3. sync.pc = "install" /\ UNCHANGED <<job, up>>
      BY <2>7 DEF SyncPast
    <3>4. sync'.pc = "install" =>
            \A q \in FactIds : sync'.rows[q] = NoFact \/ sync'.rows[q] = sync.rows[q]
      BY <3>1 DEF NoSync, TypeOK, SyncRecords, FactTables
    <3> QED
      BY <2>1, <3>2, <3>3, <3>4, AgreementKept DEF JobInv, RowsKept
  <2>8. CASE SyncInstall
    <3>1. AgreesWith(fact, job')
      BY <2>8 DEF SyncInstall, JobInv, AgreesWith
    <3> QED
      BY <2>1, <2>8, <3>1 DEF SyncInstall, NoSync, JobInv, AgreesWith
  <2> QED
    BY <1>8, <2>2, <2>3, <2>4, <2>5, <2>6, <2>7, <2>8 DEF SyncStep
<1>9. CASE Backup \/ Tick
  BY <1>9, StillKeepsJobs DEF Backup, Tick
<1>10. CASE Start
  BY <1>10 DEF Start, NoSync, JobInv, AgreesWith
<1>11. CASE Crash
  BY <1>11 DEF Crash, NoOp, NoSync, NoJobs, JobInv, AgreesWith
<1> QED
  BY <1>1, <1>2, <1>3, <1>4, <1>5, <1>6, <1>7, <1>8, <1>9, <1>10, <1>11 DEF Next

\* Restores are never given back.
LEMMA RestoresSpent ==
  ASSUME TypeOK, left.restores <= MaxRestores, [Next]_vars
  PROVE  /\ left'.restores <= MaxRestores
         /\ NoRestore' => NoRestore /\ ~ Restore
<1>1. left.restores \in Nat /\ MaxRestores \in Nat
  BY RemindersAssumption DEF TypeOK, Left
<1>2. CASE Restore
  BY <1>1, <1>2 DEF Restore, NoRestore, TypeOK, Left
<1>3. CASE ~ Restore
  <2>1. left'.restores = left.restores
    BY <1>3 DEF Next, vars, Mutation, CreateTask, ChangeDeadline, UpdateTask,
       UpdateManualTask, CloseTask, DeleteTask, Write, OpStep, PlanCancel, PlanCreate,
       PlanList, PlanInstall, CancelFacts, CancelJobs, DeleteCancel, DeleteJobs,
       DeleteFacts, DeleteRow, OpUnchanged, AbortOp, CancelRead, CancelStep, CancelMark,
       CancelUnschedule, JobRun, JobMissed, FireStep, FireRead, FireTask, FireClose,
       FireMark, FireDeliver, FireError, FireUnchanged, SyncStep, SyncClear, SyncFacts,
       SyncTasks, SyncCreate, SyncDrop, SyncOdd, SyncSurvivors, SyncPast, SyncInstall,
       SyncUnchanged, Backup, Crash, Start, Tick, TypeOK, Left
  <2> QED
    BY <1>3, <2>1 DEF NoRestore
<1> QED
  BY <1>2, <1>3

\* Until a restore, no step leaves a job for a row that is gone, or with a time
\* that is not its row's, whatever mutation, cancel, abort, crash or resync it
\* belongs to.
THEOREM JobsAreDerived == Spec => []JobsMatchRows
<1> DEFINE IInv == left.restores <= MaxRestores /\ (NoRestore => JobInv)
<1>1. Init => IInv
  BY RemindersAssumption
  DEF Init, NoOp, NoSync, NoJobs, NoRestore, JobInv, AgreesWith
<1>2. TypeOK /\ IInv /\ [Next]_vars => IInv'
  BY JobStep, RestoresSpent
<1>3. IInv => JobsMatchRows
  BY DEF JobInv, AgreesWith, NoRestore, JobsMatchRows
<1> QED
  BY <1>1, <1>2, <1>3, TypeCorrect, PTL DEF Spec

-----------------------------------------------------------------------------
(* No slot has two active rows, until a restore.                           *)

SlotOf(t, d) == [task |-> t, type |-> d.type, trigger |-> d.trigger]

Unique == \A r, q \in Scheduled(fact) : Slot(fact[r]) = Slot(fact[q]) => r = q

\* The strengthening: what a plan or the resync still has to create is not
\* active yet; for the resync, because what it read is what is there.
SlotInv ==
  /\ Unique
  /\ op.pc = "create" => \A d \in op.todo, r \in Scheduled(fact) :
                            Slot(fact[r]) # SlotOf(op.task, d)
  /\ sync.pc = "tasks" => \A r \in Scheduled(fact) : sync.rows[r] = fact[r]
  /\ sync.pc = "repair" => \A m \in sync.make, r \in Scheduled(fact) : Slot(fact[r]) # m

\* A step after which every active row is one that was active before.
Shrinks == \A r \in FactIds : fact'[r].status = "scheduled" => fact'[r] = fact[r]

\* Cancelling a task's reminders shrinks the active rows and empties the task's.
LEMMA CancelledForShrinks ==
  ASSUME TypeOK, NEW t, fact' = CancelledFor(t)
  PROVE  /\ Shrinks
         /\ \A r \in Scheduled(fact') : fact'[r].task # t
<1>1. ASSUME NEW r \in FactIds PROVE fact[r] \in FactRows
  BY <1>1 DEF TypeOK, FactTables
<1>2. \A f \in FactRows : [f EXCEPT !.status = "cancelled"].status = "cancelled"
  BY DEF FactRows, Fact, NoFact
<1>3. \A r \in FactIds : fact'[r] = IF r \in FactsOf(t) \cap Scheduled(fact)
                                      THEN [fact[r] EXCEPT !.status = "cancelled"]
                                      ELSE fact[r]
  BY DEF CancelledFor
<1>4. Shrinks
  BY <1>1, <1>2, <1>3 DEF Shrinks
<1>5. ASSUME NEW r \in Scheduled(fact'), fact'[r].task = t PROVE FALSE
  <2>1. r \in FactIds /\ fact'[r].status = "scheduled" /\ fact'[r] = fact[r]
    BY <1>4, <1>5 DEF Scheduled, Shrinks
  <2>2. r \in FactsOf(t) \cap Scheduled(fact)
    BY <2>1, <1>5 DEF FactsOf, Scheduled, NoFact
  <2> QED
    BY <1>1, <1>2, <1>3, <2>1, <2>2
<1> QED
  BY <1>4, <1>5

\* Closing a row shrinks the active rows.
LEMMA MarkShrinks ==
  ASSUME TypeOK, NEW r \in FactIds, NEW s \in Closed, Mark(r, s)
  PROVE  Shrinks
<1>1. fact'[r].status = s
  BY MarkCloses
<1>2. \A q \in FactIds \ {r} : fact'[q] = fact[q]
  BY DEF Mark, TypeOK, FactTables
<1> QED
  BY <1>1, <1>2 DEF Shrinks, Closed

\* A step that only shrinks the active rows keeps the slots unique.
LEMMA ShrinkingKeepsSlots ==
  ASSUME SlotInv, Shrinks,
         op'.pc = "create" => op' = op,
         sync'.pc \in {"tasks", "repair"} => sync' = sync
  PROVE  SlotInv'
<1>1. \A r \in Scheduled(fact') : r \in Scheduled(fact) /\ fact'[r] = fact[r]
  BY DEF Shrinks, Scheduled
<1>2. Scheduled(fact)' = Scheduled(fact')
  BY DEF Scheduled
<1> QED
  BY <1>1, <1>2 DEF SlotInv, Unique

\* A step that leaves the rows alone shrinks them trivially.
LEMMA UnchangedShrinks == ASSUME UNCHANGED fact PROVE Shrinks
BY DEF Shrinks

\* Creating a row for a slot that has no active one.
LEMMA CreateKeepsUnique ==
  ASSUME TypeOK, Unique, NEW r \in FactIds, NEW t, NEW d, CreateFact(r, t, d),
         \A q \in Scheduled(fact) : Slot(fact[q]) # SlotOf(t, d)
  PROVE  /\ Unique'
         /\ Slot(fact'[r]) = SlotOf(t, d)
         /\ \A q \in Scheduled(fact') : q # r => q \in Scheduled(fact) /\ fact'[q] = fact[q]
<1>1. /\ fact'[r] = [task |-> t, type |-> d.type, trigger |-> d.trigger,
                     status |-> "scheduled"]
      /\ \A q \in FactIds \ {r} : fact'[q] = fact[q]
  BY DEF CreateFact, TypeOK, FactTables
<1>2. Slot(fact'[r]) = SlotOf(t, d)
  BY <1>1 DEF Slot, SlotOf
<1>3. \A q \in Scheduled(fact') : q # r => q \in Scheduled(fact) /\ fact'[q] = fact[q]
  BY <1>1 DEF Scheduled
<1>4. Scheduled(fact)' = Scheduled(fact')
  BY DEF Scheduled
<1> QED
  BY <1>2, <1>3, <1>4 DEF Unique

\* Every step other than a restore keeps the slots unique.
LEMMA SlotStep ==
  ASSUME TypeOK, JobInv, SlotInv, [Next]_vars, ~ Restore
  PROVE  SlotInv'
<1> USE DEF tables, ghosts
<1>1. CASE UNCHANGED vars
  BY <1>1, ShrinkingKeepsSlots, UnchangedShrinks DEF vars
<1>2. CASE Mutation
  <2>1. UNCHANGED <<fact, sync>>
    BY <1>2 DEF Mutation, CreateTask, ChangeDeadline, UpdateTask, UpdateManualTask,
       CloseTask, DeleteTask, Write
  <2>2. ASSUME NEW t, NEW row, NEW pc, Write(t, row, pc), pc \in {"plan", "cancel", "idle"}
        PROVE  op'.pc # "create"
    BY <2>2 DEF Write, NoOp
  <2>3. op'.pc # "create"
    BY <1>2, <2>2 DEF Mutation, CreateTask, ChangeDeadline, UpdateTask,
       UpdateManualTask, AfterManualUpdate, CloseTask, DeleteTask, NoOp
  <2> QED
    BY <2>1, <2>3, ShrinkingKeepsSlots, UnchangedShrinks
<1>3. CASE OpStep
  <2> USE DEF OpUnchanged
  <2>1. sync.pc = "idle" /\ UNCHANGED sync
    BY <1>3 DEF OpStep, PlanCancel, PlanCreate, PlanList, PlanInstall, CancelFacts,
       CancelJobs, DeleteCancel, DeleteJobs, DeleteFacts, DeleteRow, JobInv, TypeOK
  <2>2. CASE PlanCancel
    <3>1. Shrinks /\ \A r \in Scheduled(fact') : fact'[r].task # op.task
      BY <2>2, CancelledForShrinks DEF PlanCancel
    <3>2. op'.task = op.task
      BY <2>2 DEF PlanCancel, TypeOK, OpRecords
    <3>3. \A r \in Scheduled(fact') : r \in Scheduled(fact) /\ fact'[r] = fact[r]
      BY <3>1 DEF Shrinks, Scheduled
    <3>4. Scheduled(fact)' = Scheduled(fact')
      BY DEF Scheduled
    <3>5. \A d \in op'.todo, r \in Scheduled(fact') : Slot(fact'[r]) # SlotOf(op'.task, d)
      BY <3>1, <3>2 DEF Slot, SlotOf
    <3> QED
      BY <2>1, <3>3, <3>4, <3>5 DEF SlotInv, Unique
  <2>3. CASE CancelFacts \/ DeleteCancel
    <3>1. Shrinks
      BY <2>3, CancelledForShrinks DEF CancelFacts, DeleteCancel
    <3>2. op'.pc # "create"
      BY <2>3 DEF CancelFacts, DeleteCancel, TypeOK, OpRecords
    <3> QED
      BY <2>1, <3>1, <3>2, ShrinkingKeepsSlots
  <2>4. CASE PlanCreate
    <3>1. op.pc = "create"
      BY <2>4 DEF PlanCreate
    <3>2. PICK d \in op.todo, r \in FactIds :
            \/ CreateFact(r, op.task, d) /\ op' = [op EXCEPT !.todo = @ \ {d}]
            \/ op' = NoOp /\ UNCHANGED fact
      BY <2>4 DEF PlanCreate
    <3>3. CASE op' = NoOp /\ UNCHANGED fact
      BY <2>1, <3>3, ShrinkingKeepsSlots, UnchangedShrinks DEF NoOp
    <3>4. CASE CreateFact(r, op.task, d) /\ op' = [op EXCEPT !.todo = @ \ {d}]
      <4>1. \A q \in Scheduled(fact) : Slot(fact[q]) # SlotOf(op.task, d)
        BY <3>1 DEF SlotInv
      <4>2. /\ Unique' /\ Slot(fact'[r]) = SlotOf(op.task, d)
            /\ \A q \in Scheduled(fact') : q # r => q \in Scheduled(fact) /\ fact'[q] = fact[q]
        BY <3>4, <4>1, CreateKeepsUnique DEF SlotInv
      <4>3. op'.task = op.task /\ op'.todo = op.todo \ {d}
        BY <3>4 DEF TypeOK, OpRecords
      <4>4. \A e \in op.todo \ {d} : SlotOf(op.task, e) # SlotOf(op.task, d)
        <5>1. \A e \in op.todo : e = [type |-> e.type, trigger |-> e.trigger]
          BY DEF TypeOK, OpRecords, DesiredReminder
        <5> QED
          BY <5>1 DEF SlotOf
      <4>5. \A e \in op'.todo, q \in Scheduled(fact') : Slot(fact'[q]) # SlotOf(op'.task, e)
        BY <3>1, <4>2, <4>3, <4>4 DEF SlotInv
      <4>6. Scheduled(fact)' = Scheduled(fact')
        BY DEF Scheduled
      <4> QED
        BY <2>1, <4>2, <4>5, <4>6 DEF SlotInv
    <3> QED
      BY <3>2, <3>3, <3>4
  <2>5. CASE PlanList \/ PlanInstall \/ CancelJobs \/ DeleteJobs \/ DeleteRow
    <3>1. UNCHANGED fact
      BY <2>5 DEF PlanList, PlanInstall, CancelJobs, DeleteJobs, DeleteRow
    <3>2. CASE PlanList
      BY <2>1, <3>1, <3>2, ShrinkingKeepsSlots, UnchangedShrinks
      DEF PlanList, TypeOK, OpRecords
    <3>3. CASE DeleteJobs
      BY <2>1, <3>1, <3>3, ShrinkingKeepsSlots, UnchangedShrinks
      DEF DeleteJobs, TypeOK, OpRecords
    <3>4. CASE PlanInstall \/ CancelJobs \/ DeleteRow
      BY <2>1, <3>1, <3>4, ShrinkingKeepsSlots, UnchangedShrinks
      DEF PlanInstall, CancelJobs, DeleteRow, NoOp
    <3> QED
      BY <2>5, <3>2, <3>3, <3>4
  <2>6. CASE DeleteFacts
    <3>1. Shrinks
      BY <2>6 DEF DeleteFacts, Shrinks, NoFact
    <3>2. op'.pc # "create"
      BY <2>6 DEF DeleteFacts, TypeOK, OpRecords
    <3> QED
      BY <2>1, <3>1, <3>2, ShrinkingKeepsSlots
  <2> QED
    BY <1>3, <2>2, <2>3, <2>4, <2>5, <2>6 DEF OpStep
<1>4. CASE AbortOp
  BY <1>4, ShrinkingKeepsSlots, UnchangedShrinks DEF AbortOp, NoOp
<1>5. CASE \E r \in FactIds : CancelRead(r)
  BY <1>5, ShrinkingKeepsSlots, UnchangedShrinks DEF CancelRead, CancelUnchanged
<1>6. CASE CancelStep
  <2>1. UNCHANGED <<op, sync>>
    BY <1>6 DEF CancelStep, CancelMark, CancelUnschedule, CancelUnchanged
  <2>2. Shrinks
    BY <1>6, MarkShrinks, UnchangedShrinks
    DEF CancelStep, CancelMark, CancelUnschedule, TypeOK, Closed
  <2> QED
    BY <2>1, <2>2, ShrinkingKeepsSlots
<1>7. ASSUME NEW r \in FactIds, JobRun(r) \/ JobMissed(r) \/ FireStep(r)
      PROVE  SlotInv'
  <2>1. UNCHANGED <<op, sync>>
    BY <1>7 DEF JobRun, JobMissed, FireStep, FireRead, FireTask, FireClose, FireMark,
       FireDeliver, FireError, FireUnchanged
  <2>2. \/ UNCHANGED fact \/ Mark(r, "cancelled") \/ Mark(r, "fired")
    BY <1>7 DEF JobRun, JobMissed, FireStep, FireRead, FireTask, FireClose, FireMark,
       FireDeliver, FireError, FireUnchanged
  <2> QED
    BY <2>1, <2>2, MarkShrinks, UnchangedShrinks, ShrinkingKeepsSlots DEF Closed
<1>8. CASE SyncStep
  <2> USE DEF SyncUnchanged
  <2>1. op.pc = "idle" /\ UNCHANGED op
    BY <1>8 DEF SyncStep, SyncClear, SyncFacts, SyncTasks, SyncCreate, SyncDrop,
       SyncOdd, SyncSurvivors, SyncPast, SyncInstall, JobInv, TypeOK
  <2>2. CASE SyncFacts
    <3>1. /\ sync'.pc = "tasks" /\ UNCHANGED fact
          /\ \A r \in FactIds : r \in Scheduled(fact) => sync'.rows[r] = fact[r]
      BY <2>2 DEF SyncFacts, TypeOK, SyncRecords
    <3> QED
      BY <2>1, <3>1 DEF SlotInv, Unique, Scheduled
  <2>3. CASE SyncTasks
    <3>1. /\ sync.pc = "tasks" /\ sync'.pc = "repair" /\ UNCHANGED fact
          /\ sync'.make = UNION {{[task |-> t, type |-> d.type, trigger |-> d.trigger] :
                                    d \in MissingOf(t)} : t \in Relevant}
      BY <2>3 DEF SyncTasks, TypeOK, SyncRecords
    <3>2. ASSUME NEW m \in sync'.make, NEW r \in Scheduled(fact), Slot(fact[r]) = m
          PROVE  FALSE
      <4> PICK t \in Relevant :
            \E d \in MissingOf(t) : m = [task |-> t, type |-> d.type, trigger |-> d.trigger]
        BY <3>1, <3>2
      <4>1. PICK d \in MissingOf(t) :
              m = [task |-> t, type |-> d.type, trigger |-> d.trigger]
        OBVIOUS
      <4>2. fact[r].task = t /\ fact[r].type = d.type /\ fact[r].trigger = d.trigger
        BY <3>2, <4>1 DEF Slot
      <4>3. sync.rows[r] = fact[r] /\ r \in FactIds /\ fact[r].status = "scheduled"
        BY <3>1, <3>2 DEF SlotInv, Scheduled
      <4>4. r \in ActiveOf(t) /\ Matches(r, d)
        BY <4>2, <4>3 DEF ActiveOf, Matches, Scheduled
      <4> QED
        BY <4>1, <4>4 DEF MissingOf
    <3> QED
      BY <2>1, <3>1, <3>2 DEF SlotInv, Unique, Scheduled
  <2>4. CASE SyncCreate
    <3>1. sync.pc = "repair"
      BY <2>4 DEF SyncCreate
    <3>2. PICK m \in sync.make, r \in FactIds :
            \/ CreateFact(r, m.task, m) /\ sync' = [sync EXCEPT !.make = @ \ {m}]
            \/ sync'.pc = "idle" /\ UNCHANGED fact
      BY <2>4 DEF SyncCreate, NoSync
    <3>3. CASE sync'.pc = "idle" /\ UNCHANGED fact
      BY <2>1, <3>3, ShrinkingKeepsSlots, UnchangedShrinks
    <3>4. CASE CreateFact(r, m.task, m) /\ sync' = [sync EXCEPT !.make = @ \ {m}]
      <4>1. \A n \in sync.make : SlotOf(n.task, n) = n
        BY DEF SlotOf, TypeOK, SyncRecords, Slots
      <4>2. \A q \in Scheduled(fact) : Slot(fact[q]) # SlotOf(m.task, m)
        BY <3>1, <4>1 DEF SlotInv
      <4>3. /\ Unique' /\ Slot(fact'[r]) = SlotOf(m.task, m)
            /\ \A q \in Scheduled(fact') : q # r => q \in Scheduled(fact) /\ fact'[q] = fact[q]
        BY <3>4, <4>2, CreateKeepsUnique DEF SlotInv
      <4>4. sync'.pc = "repair" /\ sync'.make = sync.make \ {m}
        BY <3>1, <3>4 DEF TypeOK, SyncRecords
      <4>5. \A n \in sync'.make, q \in Scheduled(fact') : Slot(fact'[q]) # n
        BY <3>1, <4>1, <4>3, <4>4 DEF SlotInv
      <4>6. Scheduled(fact)' = Scheduled(fact')
        BY DEF Scheduled
      <4> QED
        BY <2>1, <4>3, <4>4, <4>5, <4>6 DEF SlotInv
    <3> QED
      BY <3>2, <3>3, <3>4
  <2>5. CASE SyncDrop
    <3>1. sync.pc = "repair" /\ (UNCHANGED fact \/ \E r \in FactIds : Mark(r, "cancelled"))
      BY <2>5 DEF SyncDrop, TypeOK, SyncRecords
    <3>2. Shrinks
      BY <3>1, MarkShrinks, UnchangedShrinks DEF Closed
    <3>3. sync'.pc = "idle" \/ (sync'.pc = "repair" /\ sync'.make = sync.make)
      BY <2>5 DEF SyncDrop, NoSync, TypeOK, SyncRecords
    <3>4. \A r \in Scheduled(fact') : r \in Scheduled(fact) /\ fact'[r] = fact[r]
      BY <3>2 DEF Shrinks, Scheduled
    <3>5. Scheduled(fact)' = Scheduled(fact')
      BY DEF Scheduled
    <3> QED
      BY <2>1, <3>1, <3>3, <3>4, <3>5 DEF SlotInv, Unique
  <2>6. CASE \E t \in TaskIds : SyncOdd(t)
    <3>1. /\ UNCHANGED fact /\ sync.pc = "repair" /\ sync'.pc = "repair"
          /\ sync'.make = sync.make
      BY <2>6 DEF SyncOdd, TypeOK, SyncRecords
    <3> QED
      BY <2>1, <3>1 DEF SlotInv, Unique, Scheduled
  <2>7. CASE SyncPast
    <3>1. sync'.pc \in {"idle", "install"}
          /\ (UNCHANGED fact \/ \E r \in FactIds : Mark(r, "cancelled"))
      BY <2>7 DEF SyncPast, NoSync, TypeOK, SyncRecords
    <3>2. Shrinks
      BY <3>1, MarkShrinks, UnchangedShrinks DEF Closed
    <3> QED
      BY <2>1, <3>1, <3>2, ShrinkingKeepsSlots
  <2>8. CASE SyncClear \/ SyncSurvivors \/ SyncInstall
    <3>1. UNCHANGED fact /\ sync'.pc \notin {"tasks", "repair"}
      BY <2>8 DEF SyncClear, SyncSurvivors, SyncInstall, NoSync, TypeOK, SyncRecords
    <3> QED
      BY <2>1, <3>1, ShrinkingKeepsSlots, UnchangedShrinks
  <2> QED
    BY <1>8, <2>2, <2>3, <2>4, <2>5, <2>6, <2>7, <2>8 DEF SyncStep
<1>9. CASE Backup \/ Start \/ Tick \/ Crash
  <2>1. /\ UNCHANGED fact
        /\ op' = op \/ op' = NoOp
        /\ sync' = sync \/ sync'.pc \in {"idle", "clear"}
    BY <1>9 DEF Backup, Start, Tick, Crash, NoSync
  <2> QED
    BY <2>1, ShrinkingKeepsSlots, UnchangedShrinks DEF NoOp
<1> QED
  BY <1>1, <1>2, <1>3, <1>4, <1>5, <1>6, <1>7, <1>8, <1>9 DEF Next

\* However plans are cut short, replayed or raced by cancels and handlers, and
\* whatever a crash leaves for the resync to repair, no slot of a task has two
\* active rows, so that no reminder is due twice.
THEOREM SlotsAreUnique == Spec => []NoDuplicateActive
<1> DEFINE IInv == /\ left.restores <= MaxRestores
                   /\ NoRestore => JobInv /\ SlotInv
<1>1. Init => IInv
  BY RemindersAssumption
  DEF Init, NoOp, NoSync, NoJobs, NoFacts, NoFact, NoRestore, JobInv, AgreesWith,
      SlotInv, Unique, Scheduled
<1>2. TypeOK /\ IInv /\ [Next]_vars => IInv'
  BY JobStep, SlotStep, RestoresSpent
<1>3. IInv => NoDuplicateActive
  BY DEF SlotInv, Unique, NoRestore, NoDuplicateActive
<1> QED
  BY <1>1, <1>2, <1>3, TypeCorrect, PTL DEF Spec

-----------------------------------------------------------------------------
(* What a handler knows when it delivers, until a deletion or a restore.   *)

\* No row disappears, and none that is closed becomes active again.
KeepsRows ==
  /\ RowsKept
  /\ \A r \in FactIds : fact[r] # NoFact =>
       /\ fact'[r].status = "scheduled" => fact[r].status = "scheduled"
       /\ fact[r].status \in Closed => fact'[r].status \in Closed

\* Only a deletion and a restore take rows away, and no step reopens one.
LEMMA RowsStay ==
  ASSUME TypeOK, [Next]_vars, ~ Restore, ~ DeleteFacts
  PROVE  KeepsRows
<1> USE DEF tables, ghosts
<1>1. ASSUME UNCHANGED fact PROVE KeepsRows
  BY <1>1 DEF KeepsRows, RowsKept
<1>2. ASSUME NEW r \in FactIds, NEW t, NEW d, CreateFact(r, t, d) PROVE KeepsRows
  BY <1>2, CreateKeeps DEF KeepsRows
<1>3. ASSUME NEW r \in FactIds, fact[r] # NoFact, NEW s \in Closed, Mark(r, s)
      PROVE  KeepsRows
  BY <1>3, MarkKeeps, MarkCloses DEF KeepsRows, OnlyCloses
<1>4. ASSUME NEW t, fact' = CancelledFor(t) PROVE KeepsRows
  BY <1>4, CancelledForKeeps, CancelledForCloses DEF KeepsRows, OnlyCloses
<1>5. CASE UNCHANGED vars
  BY <1>1, <1>5 DEF vars
<1>6. CASE Mutation
  BY <1>1, <1>6 DEF Mutation, CreateTask, ChangeDeadline, UpdateTask, UpdateManualTask,
     CloseTask, DeleteTask, Write
<1>7. CASE OpStep
  <2>1. CASE PlanCancel \/ CancelFacts \/ DeleteCancel
    BY <1>4, <2>1 DEF PlanCancel, CancelFacts, DeleteCancel
  <2>2. CASE PlanCreate
    BY <1>1, <1>2, <2>2 DEF PlanCreate
  <2>3. CASE PlanList \/ PlanInstall \/ CancelJobs \/ DeleteJobs \/ DeleteRow
    BY <1>1, <2>3 DEF PlanList, PlanInstall, CancelJobs, DeleteJobs, DeleteRow
  <2> QED
    BY <1>7, <2>1, <2>2, <2>3 DEF OpStep
<1>8. CASE AbortOp \/ Backup \/ Crash \/ Start \/ Tick
  BY <1>1, <1>8 DEF AbortOp, Backup, Crash, Start, Tick
<1>9. CASE (\E r \in FactIds : CancelRead(r)) \/ CancelStep
  BY <1>1, <1>3, <1>9 DEF CancelRead, CancelStep, CancelMark, CancelUnschedule, TypeOK,
     Closed
<1>10. ASSUME NEW r \in FactIds, JobRun(r) \/ JobMissed(r) \/ FireStep(r)
       PROVE  KeepsRows
  <2>1. CASE JobRun(r) \/ JobMissed(r) \/ FireRead(r) \/ FireTask(r) \/ FireDeliver(r)
    BY <1>1, <2>1 DEF JobRun, JobMissed, FireRead, FireTask, FireDeliver
  <2>2. CASE FireClose(r) \/ FireMark(r) \/ FireError(r)
    <3>1. \/ UNCHANGED fact
          \/ fact[r] # NoFact /\ (Mark(r, "cancelled") \/ Mark(r, "fired"))
      BY <2>2 DEF FireClose, FireMark, FireError
    <3> QED
      BY <1>1, <1>3, <3>1 DEF Closed
  <2> QED
    BY <1>10, <2>1, <2>2 DEF FireStep
<1>11. CASE SyncStep
  <2>1. CASE SyncCreate
    BY <1>1, <1>2, <2>1 DEF SyncCreate
  <2>2. CASE SyncDrop
    <3>1. PICK r \in sync.drop : \/ UNCHANGED fact
                                 \/ fact[r] # NoFact /\ Mark(r, "cancelled")
      BY <2>2 DEF SyncDrop
    <3>2. r \in FactIds
      BY DEF TypeOK, SyncRecords
    <3> QED
      BY <1>1, <1>3, <3>1, <3>2 DEF Closed
  <2>3. CASE SyncPast
    BY <1>1, <1>3, <2>3 DEF SyncPast, Closed
  <2>4. CASE \/ SyncClear \/ SyncFacts \/ SyncTasks \/ SyncSurvivors \/ SyncInstall
             \/ \E t \in TaskIds : SyncOdd(t)
    BY <1>1, <2>4 DEF SyncClear, SyncFacts, SyncTasks, SyncSurvivors, SyncInstall, SyncOdd
  <2> QED
    BY <1>11, <2>1, <2>2, <2>3, <2>4 DEF SyncStep
<1> QED
  BY <1>5, <1>6, <1>7, <1>8, <1>9, <1>10, <1>11 DEF Next

\* Deletions are never given back, and each one is counted when it begins.
LEMMA DeletesSpent ==
  ASSUME TypeOK, left.deletes <= MaxDeletes, [Next]_vars
  PROVE  /\ left'.deletes <= MaxDeletes
         /\ left'.deletes = MaxDeletes =>
              left.deletes = MaxDeletes /\ \A t \in TaskIds : ~ DeleteTask(t)
<1>1. left \in [Left -> Nat] /\ left.deletes \in Nat /\ left.ops \in Nat /\ MaxDeletes \in Nat
  BY RemindersAssumption DEF TypeOK, Left
<1>2. CASE \E t \in TaskIds : DeleteTask(t)
  <2>1. left' = [left EXCEPT !.ops = left.ops - 1, !.deletes = left.deletes - 1]
    BY <1>2 DEF DeleteTask
  <2>2. left'.deletes = left.deletes - 1
    BY <1>1, <2>1 DEF Left
  <2> QED
    BY <1>1, <2>2
<1>3. CASE \A t \in TaskIds : ~ DeleteTask(t)
  <2>1. left'.deletes = left.deletes
    BY <1>1, <1>3 DEF Next, vars, Mutation, CreateTask, ChangeDeadline, UpdateTask,
       UpdateManualTask, CloseTask, Write, OpStep, PlanCancel, PlanCreate,
       PlanList, PlanInstall, CancelFacts, CancelJobs, DeleteCancel, DeleteJobs,
       DeleteFacts, DeleteRow, OpUnchanged, AbortOp, CancelRead, CancelStep, CancelMark,
       CancelUnschedule, JobRun, JobMissed, FireStep, FireRead, FireTask, FireClose,
       FireMark, FireDeliver, FireError, FireUnchanged, SyncStep, SyncClear, SyncFacts,
       SyncTasks, SyncCreate, SyncDrop, SyncOdd, SyncSurvivors, SyncPast, SyncInstall,
       SyncUnchanged, Backup, Restore, Crash, Start, Tick, Left
  <2> QED
    BY <1>1, <1>3, <2>1
<1> QED
  BY <1>2, <1>3

Deleting == {"delete_cancel", "delete_jobs", "delete_facts", "delete_task"}

\* A handler that has passed the status check and has not delivered yet.
Acting == {"task", "mark", "deliver"}

\* The strengthening of ClosedIsSilent: handlers run one at a time past the
\* lock, each for a row that is still there and due; one that started too late
\* finds its row or its task closed; and none that did is past the two checks.
HandlerInv ==
  /\ op.pc \notin Deleting
  /\ up # "running" => \A r \in FactIds : fire[r].pc = "idle"
  /\ \A r, q \in FactIds : fire[r].pc \notin {"idle", "wait"}
                             /\ fire[q].pc \notin {"idle", "wait"} => r = q
  /\ \A r \in FactIds :
       /\ fire[r].pc # "idle" => fact[r] # NoFact /\ fact[r].trigger <= now
       /\ fire[r].pc \in Acting => Slot(fire[r].row) = Slot(fact[r])
       /\ fire[r].pc = "deliver" => fact[r].status \in Closed
       /\ fire[r].pc = "wait" /\ fire[r].stale =>
            fact[r].status \in Closed \/ task[fact[r].task].status # "pending"
       /\ fire[r].pc = "task" /\ fire[r].stale => task[fact[r].task].status # "pending"
       /\ fire[r].pc \in {"mark", "deliver"} => ~ fire[r].stale

\* Rows kept in place keep their slots.
LEMMA SlotKept ==
  ASSUME RowsKept, NEW r \in FactIds, fact[r] # NoFact
  PROVE  Slot(fact'[r]) = Slot(fact[r])
BY DEF RowsKept, Slot

\* A row of the table has a task of the other table and a natural time.
LEMMA FactFields ==
  ASSUME TypeOK, NEW r \in FactIds, fact[r] # NoFact
  PROVE  /\ fact[r] \in Fact /\ fact[r].task \in TaskIds
         /\ fact[r].type \in ReminderType /\ fact[r].trigger \in Nat
         /\ fact[r].status \in Closed \/ fact[r].status = "scheduled"
BY DEF TypeOK, FactTables, FactRows, Fact, Closed

\* What leaves the handlers and the tasks alone, and takes no row away, keeps
\* HandlerInv: the clock only goes on.
LEMMA HandlersStay ==
  ASSUME TypeOK, HandlerInv, KeepsRows, UNCHANGED <<task, fire>>,
         now' = now \/ now' = now + 1, op'.pc \notin Deleting,
         up' # "running" => up # "running"
  PROVE  HandlerInv'
<1>1. now \in Nat
  BY DEF TypeOK
<1>2. ASSUME NEW r \in FactIds, fact[r] # NoFact
      PROVE  /\ fact'[r] # NoFact /\ Slot(fact'[r]) = Slot(fact[r])
             /\ fact'[r].task = fact[r].task /\ fact'[r].trigger = fact[r].trigger
             /\ fact[r].status \in Closed => fact'[r].status \in Closed
             /\ fact[r].trigger \in Nat
  BY <1>2, SlotKept, FactFields DEF KeepsRows, RowsKept
<1>3. ASSUME NEW r \in FactIds, fire[r].pc # "idle"
      PROVE  fact'[r] # NoFact /\ fact'[r].trigger <= now'
  BY <1>1, <1>2, <1>3 DEF HandlerInv
<1>4. ASSUME NEW r \in FactIds
      PROVE  /\ fire[r].pc \in Acting => Slot(fire[r].row) = Slot(fact'[r])
             /\ fire[r].pc = "deliver" => fact'[r].status \in Closed
             /\ fire[r].pc = "wait" /\ fire[r].stale =>
                  fact'[r].status \in Closed \/ task[fact'[r].task].status # "pending"
             /\ fire[r].pc = "task" /\ fire[r].stale =>
                  task[fact'[r].task].status # "pending"
  BY <1>2, <1>4 DEF HandlerInv, Acting
<1> QED
  BY <1>3, <1>4 DEF HandlerInv

\* A mutation's write silences no handler and lets none speak that should not.
LEMMA WriteKeepsHandlers ==
  ASSUME TypeOK, HandlerInv, up = "running", NEW t \in TaskIds, NEW row \in TaskRow,
         NEW pc \in {"plan", "cancel", "idle"}, Write(t, row, pc)
  PROVE  HandlerInv'
<1>1. /\ task' = [task EXCEPT ![t] = row] /\ UNCHANGED <<fact, now, up>>
      /\ fire' = [r \in FactIds |->
                    IF row.status = "pending" /\ fact[r].task = t
                      THEN [fire[r] EXCEPT !.stale = FALSE]
                      ELSE fire[r]]
  BY DEF Write
<1>2. op'.pc \notin Deleting
  BY DEF Write, NoOp, Deleting
<1>3. ASSUME NEW r \in FactIds
      PROVE  /\ fire'[r].pc = fire[r].pc /\ fire'[r].row = fire[r].row
             /\ fire'[r].stale => fire[r].stale
             /\ fire'[r].stale => ~ (row.status = "pending" /\ fact[r].task = t)
  <2>1. fire[r] \in FireRecords
    BY DEF TypeOK
  <2> QED
    BY <1>1, <2>1 DEF FireRecords
<1>4. ASSUME NEW r \in FactIds, fire'[r].stale, fire'[r].pc # "idle",
             task[fact[r].task].status # "pending"
      PROVE  task'[fact[r].task].status # "pending"
  <2>1. fact[r].task \in TaskIds
    BY <1>3, <1>4, FactFields DEF HandlerInv
  <2> QED
    BY <1>1, <1>3, <1>4, <2>1 DEF TypeOK
<1> QED
  BY <1>1, <1>2, <1>3, <1>4 DEF HandlerInv

\* A step of one handler, given what it does to its record and to the rows.
LEMMA HandlerMoves ==
  ASSUME TypeOK, HandlerInv, KeepsRows, UNCHANGED <<task, now, up, op>>,
         NEW r \in FactIds, up = "running",
         \A q \in FactIds \ {r} : fire'[q] = fire[q],
         fire'[r].pc \notin {"idle", "wait"} =>
           \A q \in FactIds \ {r} : fire[q].pc \in {"idle", "wait"},
         fire'[r].pc # "idle" => fact[r] # NoFact /\ fact[r].trigger <= now,
         fire'[r].pc \in Acting => Slot(fire'[r].row) = Slot(fact[r]),
         fire'[r].pc = "deliver" => fact'[r].status \in Closed,
         fire'[r].pc = "wait" /\ fire'[r].stale =>
           fact[r].status \in Closed \/ task[fact[r].task].status # "pending",
         fire'[r].pc = "task" /\ fire'[r].stale => task[fact[r].task].status # "pending",
         fire'[r].pc \in {"mark", "deliver"} => ~ fire'[r].stale
  PROVE  HandlerInv'
<1>1. ASSUME NEW q \in FactIds, fact[q] # NoFact
      PROVE  /\ fact'[q] # NoFact /\ Slot(fact'[q]) = Slot(fact[q])
             /\ fact'[q].task = fact[q].task /\ fact'[q].trigger = fact[q].trigger
             /\ fact[q].status \in Closed => fact'[q].status \in Closed
  BY <1>1, SlotKept DEF KeepsRows, RowsKept
<1>2. \A q, p \in FactIds : fire'[q].pc \notin {"idle", "wait"}
                              /\ fire'[p].pc \notin {"idle", "wait"} => q = p
  BY DEF HandlerInv
<1>3. ASSUME NEW q \in FactIds \ {r}
      PROVE  /\ fire'[q].pc # "idle" => fact'[q] # NoFact /\ fact'[q].trigger <= now
             /\ fire'[q].pc \in Acting => Slot(fire'[q].row) = Slot(fact'[q])
             /\ fire'[q].pc = "deliver" => fact'[q].status \in Closed
             /\ fire'[q].pc = "wait" /\ fire'[q].stale =>
                  fact'[q].status \in Closed \/ task[fact'[q].task].status # "pending"
             /\ fire'[q].pc = "task" /\ fire'[q].stale =>
                  task[fact'[q].task].status # "pending"
             /\ fire'[q].pc \in {"mark", "deliver"} => ~ fire'[q].stale
  BY <1>1 DEF HandlerInv, Acting
<1>4. /\ fire'[r].pc # "idle" => fact'[r] # NoFact /\ fact'[r].trigger <= now
      /\ fire'[r].pc \in Acting => Slot(fire'[r].row) = Slot(fact'[r])
      /\ fire'[r].pc = "wait" /\ fire'[r].stale =>
           fact'[r].status \in Closed \/ task[fact'[r].task].status # "pending"
      /\ fire'[r].pc = "task" /\ fire'[r].stale => task[fact'[r].task].status # "pending"
  BY <1>1 DEF Acting
<1> QED
  BY <1>2, <1>3, <1>4 DEF HandlerInv

\* A handler's record after a step that only moves its program counter.
LEMMA FireMoved ==
  ASSUME TypeOK, NEW r \in FactIds, NEW pc, fire' = [fire EXCEPT ![r].pc = pc]
  PROVE  /\ fire'[r].pc = pc /\ fire'[r].row = fire[r].row
         /\ fire'[r].stale = fire[r].stale
         /\ \A q \in FactIds \ {r} : fire'[q] = fire[q]
<1>1. fire[r] \in FireRecords /\ fire \in [FactIds -> FireRecords]
  BY DEF TypeOK
<1> QED
  BY <1>1 DEF FireRecords

\* Every step of a handler keeps HandlerInv.
LEMMA HandlerStep ==
  ASSUME TypeOK, JobInv, HandlerInv, NEW r \in FactIds,
         JobRun(r) \/ JobMissed(r) \/ FireStep(r)
  PROVE  HandlerInv'
<1> USE DEF FireUnchanged
<1>1. KeepsRows
  <2>1. /\ [Next]_vars
        /\ UNCHANGED left
    BY DEF Next, JobRun, JobMissed, FireStep, FireRead, FireTask, FireClose, FireMark,
       FireDeliver, FireError
  <2>2. ~ Restore
    BY <2>1 DEF Restore, TypeOK, Left
  <2>3. ~ DeleteFacts
    <3>1. UNCHANGED op
      BY DEF JobRun, JobMissed, FireStep, FireRead, FireTask, FireClose, FireMark,
         FireDeliver, FireError
    <3> QED
      BY <3>1 DEF DeleteFacts, TypeOK, OpRecords
  <2> QED
    BY <2>1, <2>2, <2>3, RowsStay
<1>2. fire[r].pc # "idle" => up = "running"
  BY DEF HandlerInv
<1>3. UNCHANGED <<task, now, up, op>>
  BY DEF JobRun, JobMissed, FireStep, FireRead, FireTask, FireClose, FireMark,
     FireDeliver, FireError
<1>4. ASSUME up = "running", fire' = [fire EXCEPT ![r] = NoFire]
      PROVE  HandlerInv'
  <2>1. fire'[r].pc = "idle" /\ \A q \in FactIds \ {r} : fire'[q] = fire[q]
    BY <1>4 DEF NoFire, TypeOK
  <2> QED
    BY <1>1, <1>3, <1>4, <2>1, HandlerMoves DEF Acting
<1>5. CASE JobRun(r)
  <2>1. up = "running" /\ job[r] # None /\ job[r] <= now
    BY <1>5 DEF JobRun
  <2>2. fact[r] # NoFact /\ fact[r].trigger <= now
    BY <2>1 DEF JobInv, AgreesWith
  <2>3. /\ fire'[r].pc = "wait"
        /\ fire'[r].stale = ~ ( /\ fact[r].status = "scheduled"
                                /\ task[fact[r].task].status = "pending")
        /\ \A q \in FactIds \ {r} : fire'[q] = fire[q]
    BY <1>5 DEF JobRun, NoFire, TypeOK
  <2>4. fire'[r].stale =>
          fact[r].status \in Closed \/ task[fact[r].task].status # "pending"
    BY <2>2, <2>3, FactFields
  <2> QED
    BY <1>1, <1>3, <2>1, <2>2, <2>3, <2>4, HandlerMoves DEF Acting
<1>6. CASE JobMissed(r)
  <2>1. UNCHANGED fire
    BY <1>6 DEF JobMissed
  <2>2. op.pc \notin Deleting
    BY DEF HandlerInv
  <2> QED
    BY <1>1, <1>3, <2>1, <2>2, HandlersStay
<1>7. CASE FireRead(r)
  <2>1. fire[r].pc = "wait" /\ up = "running"
    BY <1>2, <1>7 DEF FireRead
  <2>2. \A q \in FactIds : fire[q].pc \in {"idle", "wait"}
    BY <1>7 DEF FireRead, FireLockFree
  <2>3. CASE fact[r].status = "scheduled"
    <3>1. fire' = [fire EXCEPT ![r] = [fire[r] EXCEPT !.pc = "task", !.row = fact[r]]]
      BY <1>7, <2>3 DEF FireRead
    <3>2. fire[r] \in FireRecords
      BY DEF TypeOK
    <3>3. /\ fire'[r].pc = "task" /\ fire'[r].row = fact[r]
          /\ fire'[r].stale = fire[r].stale
          /\ \A q \in FactIds \ {r} : fire'[q] = fire[q]
      <4>1. fire'[r] = [fire[r] EXCEPT !.pc = "task", !.row = fact[r]]
            /\ \A q \in FactIds \ {r} : fire'[q] = fire[q]
        BY <3>1 DEF TypeOK
      <4> QED
        BY <3>2, <4>1 DEF FireRecords
    <3>4. fire[r].stale => task[fact[r].task].status # "pending"
      BY <2>1, <2>3 DEF HandlerInv, Closed
    <3>5. fact[r] # NoFact /\ fact[r].trigger <= now
      BY <2>1 DEF HandlerInv
    <3> QED
      BY <1>1, <1>3, <2>1, <2>2, <3>3, <3>4, <3>5, HandlerMoves DEF Acting
  <2>4. CASE fact[r].status # "scheduled"
    BY <1>4, <1>7, <2>1, <2>4 DEF FireRead
  <2> QED
    BY <2>3, <2>4
<1>8. ASSUME fire[r].pc \notin {"idle", "wait"}
      PROVE  /\ up = "running" /\ fact[r] # NoFact /\ fact[r].trigger <= now
             /\ \A q \in FactIds \ {r} : fire[q].pc \in {"idle", "wait"}
  BY <1>2, <1>8 DEF HandlerInv
<1>9. CASE FireTask(r)
  <2>1. fire[r].pc = "task"
    BY <1>9 DEF FireTask
  <2>2. /\ fire'[r].pc = IF task[fire[r].row.task].status = "pending" THEN "mark"
                                                                     ELSE "close"
        /\ fire'[r].row = fire[r].row /\ fire'[r].stale = fire[r].stale
        /\ \A q \in FactIds \ {r} : fire'[q] = fire[q]
    BY <1>9, FireMoved DEF FireTask
  <2>3. Slot(fire[r].row) = Slot(fact[r])
    BY <2>1 DEF HandlerInv, Acting
  <2>4. fire[r].row.task = fact[r].task
    BY <2>3 DEF Slot
  <2>5. fire[r].stale => fire'[r].pc = "close"
    BY <2>1, <2>2, <2>4 DEF HandlerInv
  <2> QED
    BY <1>1, <1>3, <1>8, <2>1, <2>2, <2>3, <2>5, HandlerMoves DEF Acting
<1>10. CASE FireClose(r) \/ FireError(r)
  <2>1. fire' = [fire EXCEPT ![r] = NoFire] /\ fire[r].pc \in {"close", "error"}
    BY <1>10 DEF FireClose, FireError
  <2> QED
    BY <1>2, <1>4, <2>1
<1>11. CASE FireMark(r)
  <2>1. fire[r].pc = "mark" /\ ~ fire[r].stale
    BY <1>11 DEF FireMark, HandlerInv
  <2>2. fact[r] # NoFact
    BY <1>8, <2>1
  <2>3. Mark(r, "fired") /\ fire' = [fire EXCEPT ![r] =
          [fire[r] EXCEPT !.pc = "deliver", !.row = fact[r], !.own = TRUE]]
    BY <1>11, <2>2 DEF FireMark
  <2>4. fire[r] \in FireRecords
    BY DEF TypeOK
  <2>5. /\ fire'[r].pc = "deliver" /\ fire'[r].row = fact[r]
        /\ fire'[r].stale = fire[r].stale
        /\ \A q \in FactIds \ {r} : fire'[q] = fire[q]
    <3>1. fire'[r] = [fire[r] EXCEPT !.pc = "deliver", !.row = fact[r], !.own = TRUE]
          /\ \A q \in FactIds \ {r} : fire'[q] = fire[q]
      BY <2>3 DEF TypeOK
    <3> QED
      BY <2>4, <3>1 DEF FireRecords
  <2>6. fact'[r].status \in Closed
    BY <2>3, MarkCloses DEF Closed
  <2> QED
    BY <1>1, <1>3, <1>8, <2>1, <2>5, <2>6, HandlerMoves DEF Acting
<1>12. CASE FireDeliver(r)
  <2>1. fire[r].pc = "deliver"
    BY <1>12 DEF FireDeliver
  <2>2. CASE fire' = [fire EXCEPT ![r] = NoFire]
    BY <1>2, <1>4, <2>1, <2>2
  <2>3. CASE fire' = [fire EXCEPT ![r].pc = "error"]
    <3>1. fire'[r].pc = "error" /\ \A q \in FactIds \ {r} : fire'[q] = fire[q]
      BY <2>3, FireMoved
    <3> QED
      BY <1>1, <1>3, <1>8, <2>1, <3>1, HandlerMoves DEF Acting
  <2> QED
    BY <1>12, <2>2, <2>3 DEF FireDeliver
<1> QED
  BY <1>5, <1>6, <1>7, <1>9, <1>10, <1>11, <1>12 DEF FireStep

\* Every step other than a deletion and a restore keeps HandlerInv.
LEMMA HandlersStep ==
  ASSUME TypeOK, JobInv, HandlerInv, [Next]_vars, ~ Restore,
         \A t \in TaskIds : ~ DeleteTask(t)
  PROVE  HandlerInv'
<1> USE DEF tables, ghosts
<1>1. op.pc \notin Deleting
  BY DEF HandlerInv
<1>2. KeepsRows
  BY <1>1, RowsStay DEF DeleteFacts, Deleting
<1>3. CASE UNCHANGED vars
  BY <1>1, <1>2, <1>3, HandlersStay DEF vars
<1>4. CASE Mutation
  <2>1. ASSUME NEW t \in TaskIds, task[t] # NoTask
        PROVE  task[t] \in TaskRow
    BY <2>1 DEF TypeOK, TaskRows
  <2>2. ASSUME NEW t \in TaskIds, task[t].status = "pending"
        PROVE  task[t] \in TaskRow
    BY <2>1, <2>2 DEF NoTask
  <2>3. \A row \in TaskRow : /\ \A d \in MaybeDeadline : [row EXCEPT !.deadline = d] \in TaskRow
                             /\ \A s \in TaskStatus : [row EXCEPT !.status = s] \in TaskRow
    BY DEF TaskRow
  <2>4. \E t \in TaskIds, row \in TaskRow, pc \in {"plan", "cancel", "idle"} :
          CanBegin /\ Write(t, row, pc)
    <3>1. CASE \E t \in TaskIds, d \in MaybeDeadline, s \in TaskStatus : CreateTask(t, s, d)
      BY <3>1 DEF CreateTask, TaskRow
    <3>2. CASE \E t \in TaskIds, d \in MaybeDeadline : ChangeDeadline(t, d)
      BY <2>2, <2>3, <3>2 DEF ChangeDeadline
    <3>3. CASE \E t \in TaskIds, d \in MaybeDeadline : UpdateTask(t, d)
      BY <2>2, <2>3, <3>3 DEF UpdateTask
    <3>4. CASE \E t \in TaskIds, row \in TaskRow : UpdateManualTask(t, row)
      <4>1. \A old, new : AfterManualUpdate(old, new) \in {"plan", "cancel", "idle"}
        BY DEF AfterManualUpdate
      <4> QED
        BY <3>4, <4>1 DEF UpdateManualTask
    <3>5. CASE \E t \in TaskIds, s \in TaskStatus : CloseTask(t, s)
      BY <2>1, <2>3, <3>5 DEF CloseTask
    <3> QED
      BY <1>4, <3>1, <3>2, <3>3, <3>4, <3>5 DEF Mutation
  <2> QED
    BY <2>4, WriteKeepsHandlers DEF CanBegin
<1>5. CASE OpStep
  <2> USE DEF OpUnchanged
  <2>1. op'.pc \notin Deleting
    <3>1. op \in OpRecords
      BY DEF TypeOK
    <3>2. CASE PlanCancel \/ PlanList \/ CancelFacts
      BY <3>1, <3>2 DEF PlanCancel, PlanList, CancelFacts, OpRecords, Deleting
    <3>3. CASE PlanCreate
      BY <3>1, <3>3 DEF PlanCreate, NoOp, OpRecords, Deleting
    <3>4. CASE PlanInstall \/ CancelJobs
      BY <3>4 DEF PlanInstall, CancelJobs, NoOp, Deleting
    <3> QED
      BY <1>1, <1>5, <3>2, <3>3, <3>4 DEF OpStep, DeleteCancel, DeleteJobs, DeleteFacts,
         DeleteRow, Deleting
  <2>2. UNCHANGED <<task, fire, now, up>>
    BY <1>1, <1>5 DEF OpStep, PlanCancel, PlanCreate, PlanList, PlanInstall, CancelFacts,
       CancelJobs, DeleteCancel, DeleteJobs, DeleteFacts, DeleteRow, Deleting
  <2> QED
    BY <1>2, <2>1, <2>2, HandlersStay
<1>6. CASE AbortOp
  BY <1>2, <1>6, HandlersStay DEF AbortOp, NoOp, Deleting
<1>7. CASE (\E r \in FactIds : CancelRead(r)) \/ CancelStep
  <2>1. UNCHANGED <<task, fire, now, up, op>>
    BY <1>7 DEF CancelRead, CancelStep, CancelMark, CancelUnschedule, CancelUnchanged
  <2> QED
    BY <1>1, <1>2, <2>1, HandlersStay
<1>8. CASE SyncStep
  <2>1. UNCHANGED <<task, fire, now, op>> /\ (up' = up \/ up' = "running")
    BY <1>8 DEF SyncStep, SyncClear, SyncFacts, SyncTasks, SyncCreate, SyncDrop, SyncOdd,
       SyncSurvivors, SyncPast, SyncInstall, SyncUnchanged
  <2> QED
    BY <1>1, <1>2, <2>1, HandlersStay
<1>9. CASE Backup \/ Start \/ Tick
  <2>1. /\ UNCHANGED <<task, fire, op>>
        /\ now' = now \/ now' = now + 1
        /\ up' # "running" => up # "running"
    BY <1>9 DEF Backup, Start, Tick
  <2> QED
    BY <1>1, <1>2, <2>1, HandlersStay
<1>10. CASE Crash
  <2>1. /\ op'.pc = "idle" /\ \A r \in FactIds : fire'[r].pc = "idle"
    BY <1>10 DEF Crash, NoOp, NoFire
  <2> QED
    BY <2>1 DEF HandlerInv, Deleting, Acting
<1> QED
  BY <1>3, <1>4, <1>5, <1>6, <1>7, <1>8, <1>9, <1>10, HandlerStep DEF Next

\* The invariant of the runs up to their first deletion or restore.
IdsInv ==
  /\ left.restores <= MaxRestores
  /\ left.deletes <= MaxDeletes
  /\ NoRestore => JobInv /\ SlotInv
  /\ IdsLast => HandlerInv

\* While ids last no deletion and no restore begins.
LEMMA IdsLastStep ==
  ASSUME TypeOK, IdsInv, [Next]_vars, IdsLast'
  PROVE  /\ IdsLast /\ NoRestore /\ ~ Restore
         /\ \A t \in TaskIds : ~ DeleteTask(t)
         /\ JobInv /\ SlotInv /\ HandlerInv
<1>1. NoRestore' /\ left'.deletes = MaxDeletes
  BY DEF IdsLast, NoRestore
<1>2. NoRestore /\ ~ Restore
  BY <1>1, RestoresSpent DEF IdsInv
<1>3. left.deletes = MaxDeletes /\ \A t \in TaskIds : ~ DeleteTask(t)
  BY <1>1, DeletesSpent DEF IdsInv
<1> QED
  BY <1>2, <1>3 DEF IdsInv, IdsLast, NoRestore

\* Until the first deletion or restore, every handler is what HandlerInv says.
LEMMA IdsTheorem == Spec => []IdsInv
<1>1. Init => IdsInv
  <2>1. ASSUME Init PROVE NoRestore => JobInv /\ SlotInv
    BY <2>1 DEF Init, NoOp, NoSync, NoJobs, NoFacts, NoFact, JobInv, AgreesWith,
       SlotInv, Unique, Scheduled
  <2>2. ASSUME Init PROVE HandlerInv
    BY <2>2 DEF Init, NoOp, NoFire, HandlerInv, Deleting, Acting
  <2>3. ASSUME Init PROVE left.restores <= MaxRestores /\ left.deletes <= MaxDeletes
    BY <2>3, RemindersAssumption DEF Init
  <2> QED
    BY <2>1, <2>2, <2>3 DEF IdsInv
<1>2. TypeOK /\ IdsInv /\ [Next]_vars => IdsInv'
  <2> SUFFICES ASSUME TypeOK, IdsInv, [Next]_vars PROVE IdsInv'
    OBVIOUS
  <2>1. left'.restores <= MaxRestores /\ left'.deletes <= MaxDeletes
    BY RestoresSpent, DeletesSpent DEF IdsInv
  <2>2. NoRestore' => JobInv' /\ SlotInv'
    BY RestoresSpent, JobStep, SlotStep DEF IdsInv
  <2>3. IdsLast' => HandlerInv'
    BY IdsLastStep, HandlersStep
  <2> QED
    BY <2>1, <2>2, <2>3 DEF IdsInv
<1> QED
  BY <1>1, <1>2, TypeCorrect, PTL DEF Spec

\* Only the end of a delivery adds to what was sent.
LEMMA OnlyDeliverySends ==
  ASSUME TypeOK, [Next]_vars, NEW r \in FactIds, Delivers(r)
  PROVE  FireDeliver(r)
<1> USE DEF tables, ghosts
<1>2. sent \in [FactIds -> Nat] /\ sent[r] \in Nat
  BY DEF TypeOK
<1>3. ~ (sent'[r] = 0) /\ ~ (sent'[r] = sent[r])
  BY <1>2 DEF Delivers
<1>4. \A q \in FactIds : \A t, d : ~ CreateFact(q, t, d)
  BY <1>2, <1>3 DEF CreateFact
<1>5. ~ UNCHANGED sent
  BY <1>3
<1>6. ~ UNCHANGED vars /\ ~ Mutation /\ ~ OpStep /\ ~ AbortOp /\ ~ CancelStep
      /\ ~ (\E q \in FactIds : CancelRead(q))
  BY <1>4, <1>5 DEF vars, Mutation, CreateTask, ChangeDeadline, UpdateTask,
     UpdateManualTask, CloseTask, DeleteTask, Write, OpStep, PlanCancel, PlanCreate,
     PlanList, PlanInstall, CancelFacts, CancelJobs, DeleteCancel, DeleteJobs,
     DeleteFacts, DeleteRow, AbortOp, CancelStep, CancelMark, CancelUnschedule,
     CancelRead, CancelUnchanged
<1>7. ~ SyncStep /\ ~ Backup /\ ~ Crash /\ ~ Start /\ ~ Tick
  BY <1>4, <1>5 DEF SyncStep, SyncClear, SyncFacts, SyncTasks, SyncCreate, SyncDrop,
     SyncOdd, SyncSurvivors, SyncPast, SyncInstall, Backup, Crash, Start, Tick
<1>8. ~ Restore
  BY <1>3 DEF Restore
<1>9. ASSUME NEW q \in FactIds, JobRun(q) \/ JobMissed(q) \/ FireStep(q)
      PROVE  FireDeliver(r)
  <2>1. FireDeliver(q)
    BY <1>5, <1>9 DEF JobRun, JobMissed, FireStep, FireRead, FireTask, FireClose,
       FireMark, FireError
  <2>2. q = r
    BY <1>2, <1>3, <2>1 DEF FireDeliver
  <2> QED
    BY <2>1, <2>2
<1> QED
  BY <1>6, <1>7, <1>8, <1>9 DEF Next

\* A handler that waited for the lock while its reminder or its task was closed
\* says nothing: the status of the row and that of the task are both read again
\* under the lock, and nothing closed opens between them and the claim.
THEOREM ClosedTheorem == Spec => ClosedIsSilent
<1>1. TypeOK /\ IdsInv /\ [Next]_vars =>
        (IdsLast => \A r \in FactIds : Delivers(r) => ~ fire[r].stale)
  <2> SUFFICES ASSUME TypeOK, IdsInv, [Next]_vars, IdsLast,
                      NEW r \in FactIds, Delivers(r)
               PROVE  ~ fire[r].stale
    OBVIOUS
  <2>1. fire[r].pc = "deliver"
    BY OnlyDeliverySends DEF FireDeliver
  <2> QED
    BY <2>1 DEF IdsInv, HandlerInv
<1> QED
  BY <1>1, TypeCorrect, IdsTheorem, PTL DEF Spec, ClosedIsSilent

-----------------------------------------------------------------------------
(* A slot is told once, until a deletion or a restore.                     *)

\* What is planned at an instant lies after it.
LEMMA PlannedAhead ==
  ASSUME NEW status, NEW deadline \in MaybeDeadline, NEW t \in Nat,
         NEW d \in PlanDesiredReminders(status, deadline, t)
  PROVE  d \in DesiredReminder /\ d.trigger \in Nat /\ d.trigger > t
<1>1. d \in DesiredReminder /\ d.trigger \in Nat
  BY PlanType DEF DesiredReminder
<1>2. deadline # None /\ d \in Kept(deadline, t)
  BY DEF PlanDesiredReminders, OnePerMinute
<1>3. d.trigger - t >= MinLead
  BY <1>2 DEF Kept
<1>4. MinLead \in Nat /\ MinLead > 0
  BY PolicyAssumption, RemindersAssumption
<1> QED
  BY <1>1, <1>3, <1>4

\* The strengthening of SlotToldOnce: a slot that was told lies in the past, no
\* row stands for it, and neither a plan nor the resync is about to create one;
\* the same holds of the slot a handler is about to tell, but for its own row.
ToldInv ==
  /\ \A S \in told : S.trigger <= now
  /\ \A S \in told, r \in Scheduled(fact) : Slot(fact[r]) # S
  /\ op.pc = "create" => \A d \in op.todo : SlotOf(op.task, d) \notin told
  /\ sync.pc \in {"facts", "tasks", "repair"} => \A S \in told : S.trigger <= sync.now
  /\ sync.pc = "repair" => \A S \in told : S \notin sync.make
  /\ \A r \in FactIds : fire[r].pc \in Acting =>
       /\ Slot(fact[r]) \notin told
       /\ \A q \in Scheduled(fact) : q # r => Slot(fact[q]) # Slot(fact[r])
       /\ op.pc = "create" => \A d \in op.todo : SlotOf(op.task, d) # Slot(fact[r])

\* A step that tells nothing, only closes rows and plans nothing keeps ToldInv.
LEMMA ToldStays ==
  ASSUME TypeOK, ToldInv, Shrinks, UNCHANGED told, now' = now \/ now' = now + 1,
         op'.pc = "create" => op' = op,
         sync'.pc \in {"facts", "tasks", "repair"} =>
           sync.pc \in {"facts", "tasks", "repair"} /\ sync'.now = sync.now,
         sync'.pc = "repair" => sync.pc = "repair" /\ sync'.make = sync.make,
         \A r \in FactIds : fire'[r].pc \in Acting =>
           fire[r].pc \in Acting /\ Slot(fact'[r]) = Slot(fact[r])
  PROVE  ToldInv'
<1>1. Scheduled(fact)' = Scheduled(fact')
  BY DEF Scheduled
<1>2. \A r \in Scheduled(fact') : r \in Scheduled(fact) /\ fact'[r] = fact[r]
  BY DEF Shrinks, Scheduled
<1>3. \A S \in told : S.trigger <= now'
  <2>1. now \in Nat /\ \A S \in told : S.trigger \in Nat
    BY DEF TypeOK, Slots
  <2> QED
    BY <2>1 DEF ToldInv
<1>4. \A S \in told, r \in Scheduled(fact') : Slot(fact'[r]) # S
  BY <1>2 DEF ToldInv
<1>5. op'.pc = "create" => \A d \in op'.todo : SlotOf(op'.task, d) \notin told
  BY DEF ToldInv
<1>6. ASSUME NEW r \in FactIds, fire'[r].pc \in Acting
      PROVE  /\ Slot(fact'[r]) \notin told
             /\ \A q \in Scheduled(fact') : q # r => Slot(fact'[q]) # Slot(fact'[r])
             /\ op'.pc = "create" => \A d \in op'.todo : SlotOf(op'.task, d) # Slot(fact'[r])
  <2>1. fire[r].pc \in Acting /\ Slot(fact'[r]) = Slot(fact[r])
    BY <1>6
  <2> QED
    BY <1>2, <2>1 DEF ToldInv
<1>7. /\ sync'.pc \in {"facts", "tasks", "repair"} => \A S \in told : S.trigger <= sync'.now
      /\ sync'.pc = "repair" => \A S \in told : S \notin sync'.make
  BY DEF ToldInv
<1> QED
  BY <1>1, <1>3, <1>4, <1>5, <1>6, <1>7 DEF ToldInv

\* Creating a row for a slot nobody has told or is about to tell.
LEMMA CreateKeepsTold ==
  ASSUME TypeOK, HandlerInv, ToldInv, NEW r \in FactIds, NEW t, NEW d,
         CreateFact(r, t, d), SlotOf(t, d) \notin told,
         \A q \in FactIds : fire[q].pc \in Acting => Slot(fact[q]) # SlotOf(t, d)
  PROVE  /\ \A S \in told, q \in Scheduled(fact') : Slot(fact'[q]) # S
         /\ \A p \in FactIds : fire[p].pc \in Acting =>
              /\ Slot(fact'[p]) = Slot(fact[p])
              /\ \A q \in Scheduled(fact') : q # p => Slot(fact'[q]) # Slot(fact'[p])
<1>1. /\ fact[r] = NoFact
      /\ fact'[r] = [task |-> t, type |-> d.type, trigger |-> d.trigger,
                     status |-> "scheduled"]
      /\ \A q \in FactIds \ {r} : fact'[q] = fact[q]
  BY CreateKeeps DEF CreateFact, TypeOK, FactTables
<1>2. Slot(fact'[r]) = SlotOf(t, d)
  BY <1>1 DEF Slot, SlotOf
<1>3. \A q \in Scheduled(fact') : q # r => q \in Scheduled(fact) /\ fact'[q] = fact[q]
  BY <1>1 DEF Scheduled
<1>4. ASSUME NEW p \in FactIds, fire[p].pc \in Acting
      PROVE  p # r /\ fact'[p] = fact[p]
  BY <1>1, <1>4 DEF HandlerInv, Acting
<1> QED
  BY <1>2, <1>3, <1>4 DEF ToldInv

\* Every step of a task operation keeps ToldInv: a plan lies ahead of the clock,
\* and what was told or is being told lies behind it.
LEMMA ToldOpStep ==
  ASSUME TypeOK, JobInv, SlotInv, HandlerInv, ToldInv, OpStep
  PROVE  ToldInv'
<1> USE DEF OpUnchanged, tables
<1>1. sync.pc = "idle" /\ UNCHANGED <<now, told, sync>>
  BY DEF OpStep, PlanCancel, PlanCreate, PlanList, PlanInstall, CancelFacts,
     CancelJobs, DeleteCancel, DeleteJobs, DeleteFacts, DeleteRow, JobInv, TypeOK, ghosts
<1>2. op.pc \notin Deleting /\ UNCHANGED fire
  BY DEF OpStep, PlanCancel, PlanCreate, PlanList, PlanInstall, CancelFacts,
     CancelJobs, DeleteCancel, DeleteJobs, DeleteFacts, DeleteRow, HandlerInv, Deleting
<1>3. KeepsRows
  <2>1. ~ Restore
    BY <1>1 DEF Restore, NoSync
  <2>2. ~ DeleteFacts
    BY <1>2 DEF DeleteFacts, Deleting
  <2>3. [Next]_vars
    BY DEF Next
  <2> QED
    BY <2>1, <2>2, <2>3, RowsStay
<1>4. \A r \in FactIds : fire[r].pc \in Acting =>
        fact[r] # NoFact /\ fact[r].trigger <= now /\ Slot(fact'[r]) = Slot(fact[r])
  BY <1>3, SlotKept DEF HandlerInv, Acting, KeepsRows
<1>5. now \in Nat /\ \A S \in told : S.trigger \in Nat
  BY DEF TypeOK, Slots
<1>6. CASE PlanCancel
  <2>1. Shrinks
    BY <1>6, CancelledForShrinks DEF PlanCancel
  <2>2. op'.todo = PlanDesiredReminders(op.row.status, op.row.deadline, now)
        /\ op'.task = op.task
    BY <1>6 DEF PlanCancel, TypeOK, OpRecords
  <2>3. op.row.deadline \in MaybeDeadline
    BY DEF TypeOK, OpRecords, TaskRows, TaskRow, NoTask, MaybeDeadline
  <2>4. \A d \in op'.todo : d.trigger \in Nat /\ d.trigger > now
    BY <1>5, <2>2, <2>3, PlannedAhead
  <2>5. \A d \in op'.todo : SlotOf(op'.task, d).trigger = d.trigger
    BY DEF SlotOf
  <2>6. \A d \in op'.todo : SlotOf(op'.task, d) \notin told
    BY <1>5, <2>4, <2>5 DEF ToldInv
  <2>7. ASSUME NEW r \in FactIds, fire[r].pc \in Acting, NEW d \in op'.todo
        PROVE  SlotOf(op'.task, d) # Slot(fact'[r])
    <3>1. Slot(fact[r]).trigger = fact[r].trigger /\ fact[r].trigger \in Nat
      BY <1>4, <2>7, FactFields DEF Slot
    <3> QED
      BY <1>4, <1>5, <2>4, <2>5, <2>7, <3>1
  <2>8. \A q \in Scheduled(fact') : q \in Scheduled(fact) /\ fact'[q] = fact[q]
    BY <2>1 DEF Shrinks, Scheduled
  <2>9. Scheduled(fact)' = Scheduled(fact')
    BY DEF Scheduled
  <2> QED
    BY <1>1, <1>2, <1>4, <2>6, <2>7, <2>8, <2>9 DEF ToldInv
<1>7. CASE PlanCreate
  <2>1. op.pc = "create"
    BY <1>7 DEF PlanCreate
  <2>2. PICK d \in op.todo, r \in FactIds :
          \/ CreateFact(r, op.task, d) /\ op' = [op EXCEPT !.todo = @ \ {d}]
          \/ op' = NoOp /\ UNCHANGED fact
    BY <1>7 DEF PlanCreate
  <2>3. CASE op' = NoOp /\ UNCHANGED fact
    BY <1>1, <1>2, <2>3, ToldStays, UnchangedShrinks DEF NoOp
  <2>4. CASE CreateFact(r, op.task, d) /\ op' = [op EXCEPT !.todo = @ \ {d}]
    <3>1. op'.pc = "create" /\ op'.task = op.task /\ op'.todo = op.todo \ {d}
      BY <2>1, <2>4 DEF TypeOK, OpRecords
    <3>2. /\ SlotOf(op.task, d) \notin told
          /\ \A q \in FactIds : fire[q].pc \in Acting => Slot(fact[q]) # SlotOf(op.task, d)
      BY <2>1 DEF ToldInv
    <3>3. /\ \A S \in told, q \in Scheduled(fact') : Slot(fact'[q]) # S
          /\ \A p \in FactIds : fire[p].pc \in Acting =>
               /\ Slot(fact'[p]) = Slot(fact[p])
               /\ \A q \in Scheduled(fact') : q # p => Slot(fact'[q]) # Slot(fact'[p])
      BY <2>4, <3>2, CreateKeepsTold
    <3>4. Scheduled(fact)' = Scheduled(fact')
      BY DEF Scheduled
    <3>5. \A e \in op'.todo : e \in op.todo /\ SlotOf(op'.task, e) = SlotOf(op.task, e)
      BY <3>1
    <3> QED
      BY <1>1, <1>2, <2>1, <3>3, <3>4, <3>5 DEF ToldInv
  <2> QED
    BY <2>2, <2>3, <2>4
<1>8. CASE PlanList \/ PlanInstall \/ CancelJobs \/ CancelFacts
  <2>1. CASE CancelFacts
    <3>1. Shrinks /\ op'.pc # "create"
      BY <2>1, CancelledForShrinks DEF CancelFacts, TypeOK, OpRecords
    <3> QED
      BY <1>1, <1>2, <1>4, <3>1, ToldStays
  <2>2. CASE PlanList
    <3>1. Shrinks /\ op'.pc # "create"
      BY <2>2, UnchangedShrinks DEF PlanList, TypeOK, OpRecords
    <3> QED
      BY <1>1, <1>2, <1>4, <3>1, ToldStays
  <2>3. CASE PlanInstall \/ CancelJobs
    <3>1. Shrinks /\ op'.pc # "create"
      BY <2>3, UnchangedShrinks DEF PlanInstall, CancelJobs, NoOp
    <3> QED
      BY <1>1, <1>2, <1>4, <3>1, ToldStays
  <2> QED
    BY <1>8, <2>1, <2>2, <2>3
<1> QED
  BY <1>2, <1>6, <1>7, <1>8 DEF OpStep, DeleteCancel, DeleteJobs, DeleteFacts, DeleteRow,
     Deleting

\* Every step of a handler keeps ToldInv: the slot it tells is its row's, and
\* no other row or handler has it.
LEMMA ToldHandlerStep ==
  ASSUME TypeOK, JobInv, SlotInv, HandlerInv, ToldInv, NEW r \in FactIds,
         JobRun(r) \/ JobMissed(r) \/ FireStep(r)
  PROVE  ToldInv'
<1> USE DEF FireUnchanged
<1>1. UNCHANGED <<now, op, sync>> /\ now \in Nat
  BY DEF JobRun, JobMissed, FireStep, FireRead, FireTask, FireClose, FireMark,
     FireDeliver, FireError, TypeOK
<1>2. Shrinks
  <2>1. \/ UNCHANGED fact \/ Mark(r, "cancelled") \/ Mark(r, "fired")
    BY DEF JobRun, JobMissed, FireStep, FireRead, FireTask, FireClose, FireMark,
       FireDeliver, FireError
  <2> QED
    BY <2>1, MarkShrinks, UnchangedShrinks DEF Closed
<1>3. RowsKept
  <2>1. CASE UNCHANGED fact
    BY <2>1 DEF RowsKept
  <2>2. CASE ~ UNCHANGED fact
    <3>1. fact[r] # NoFact /\ (Mark(r, "cancelled") \/ Mark(r, "fired"))
      BY <2>2 DEF JobRun, JobMissed, FireStep, FireRead, FireTask, FireClose, FireMark,
         FireDeliver, FireError
    <3> QED
      BY <3>1, MarkKeeps DEF Closed
  <2> QED
    BY <2>1, <2>2
<1>4. \A q \in FactIds : fire[q].pc \in Acting =>
        fact[q] # NoFact /\ fact[q].trigger <= now /\ Slot(fact'[q]) = Slot(fact[q])
  BY <1>3, SlotKept DEF HandlerInv, Acting
<1>5. Scheduled(fact)' = Scheduled(fact')
  BY DEF Scheduled
<1>6. \A q \in Scheduled(fact') : q \in Scheduled(fact) /\ fact'[q] = fact[q]
  BY <1>2 DEF Shrinks, Scheduled
<1>7. CASE \A q \in FactIds : fire'[q].pc \in Acting => fire[q].pc \in Acting
  <2>1. CASE UNCHANGED told
    BY <1>1, <1>2, <1>4, <1>7, <2>1, ToldStays
  <2>2. CASE ~ UNCHANGED told
    <3>1. /\ fire[r].pc = "deliver" /\ UNCHANGED fact
          /\ told' = told \cup {Slot(fire[r].row)}
      BY <2>2 DEF JobRun, JobMissed, FireStep, FireRead, FireTask, FireClose, FireMark,
         FireDeliver, FireError
    <3>2. Slot(fire[r].row) = Slot(fact[r]) /\ fact[r].trigger <= now
          /\ fact[r].status \in Closed /\ up = "running"
      BY <3>1 DEF HandlerInv, Acting
    <3>3. told' = told \cup {Slot(fact[r])}
      BY <3>1, <3>2
    <3>4. sync.pc = "idle"
      BY <3>2 DEF JobInv
    <3>5. Slot(fact[r]).trigger <= now
      BY <3>2 DEF Slot
    <3>6. \A q \in Scheduled(fact) : Slot(fact[q]) # Slot(fact[r])
      BY <3>1, <3>2 DEF ToldInv, Acting, Scheduled, Closed
    <3>7. op.pc = "create" => \A d \in op.todo : SlotOf(op.task, d) # Slot(fact[r])
      BY <3>1 DEF ToldInv, Acting
    <3>8. \A q \in FactIds : fire'[q].pc \in Acting => q # r /\ fire[q].pc \in Acting
      <4>1. fire'[r].pc \in {"error", "idle"}
        <5>1. FireDeliver(r)
          BY <2>2 DEF JobRun, JobMissed, FireStep, FireRead, FireTask, FireClose,
             FireMark, FireError
        <5> QED
          BY <5>1 DEF FireDeliver, TypeOK, FireRecords, NoFire
      <4> QED
        BY <1>7, <4>1 DEF Acting
    <3>9. \A q \in FactIds : ~ fire'[q].pc \in Acting
      BY <3>1, <3>8 DEF HandlerInv, Acting
    <3> QED
      BY <1>1, <3>1, <3>3, <3>4, <3>5, <3>6, <3>7, <3>9 DEF ToldInv, Scheduled
  <2> QED
    BY <2>1, <2>2
<1>8. CASE FireRead(r) /\ fact[r].status = "scheduled"
  <2>1. UNCHANGED <<fact, told>>
    BY <1>8 DEF FireRead
  <2>2. \A q \in FactIds \ {r} : fire'[q] = fire[q]
    BY <1>8 DEF FireRead, TypeOK
  <2>3. r \in Scheduled(fact)
    BY <1>8 DEF Scheduled
  <2>4. /\ Slot(fact[r]) \notin told
        /\ \A q \in Scheduled(fact) : q # r => Slot(fact[q]) # Slot(fact[r])
        /\ op.pc = "create" => \A d \in op.todo : SlotOf(op.task, d) # Slot(fact[r])
    BY <2>3 DEF ToldInv, SlotInv, Unique
  <2>5. \A q \in FactIds : fire'[q].pc \in Acting =>
          /\ Slot(fact[q]) \notin told
          /\ \A p \in Scheduled(fact) : p # q => Slot(fact[p]) # Slot(fact[q])
          /\ op.pc = "create" => \A d \in op.todo : SlotOf(op.task, d) # Slot(fact[q])
    BY <2>2, <2>4 DEF ToldInv
  <2> QED
    BY <1>1, <2>1, <2>5 DEF ToldInv, Scheduled
<1>9. CASE ~ (FireRead(r) /\ fact[r].status = "scheduled")
  <2>1. \A q \in FactIds \ {r} : fire'[q] = fire[q]
    BY DEF JobRun, JobMissed, FireStep, FireRead, FireTask, FireClose, FireMark,
       FireDeliver, FireError, TypeOK
  <2>2. fire'[r].pc \in Acting => fire[r].pc \in Acting
    <3>1. fire \in [FactIds -> FireRecords] /\ fire[r] \in FireRecords
      BY DEF TypeOK
    <3>2. CASE FireTask(r) \/ FireMark(r) \/ FireDeliver(r)
      BY <3>2 DEF FireTask, FireMark, FireDeliver, Acting
    <3>3. CASE JobMissed(r)
      BY <3>3 DEF JobMissed
    <3>4. CASE JobRun(r)
      BY <3>1, <3>4 DEF JobRun, NoFire, Acting
    <3>5. CASE FireClose(r) \/ FireError(r)
      <4>1. fire' = [fire EXCEPT ![r] = NoFire]
        BY <3>5 DEF FireClose, FireError
      <4> QED
        BY <3>1, <4>1 DEF NoFire, Acting
    <3>6. CASE FireRead(r)
      BY <1>9, <3>1, <3>6 DEF FireRead, NoFire, Acting
    <3> QED
      BY <3>2, <3>3, <3>4, <3>5, <3>6 DEF FireStep
  <2> QED
    BY <1>7, <2>1, <2>2
<1> QED
  BY <1>8, <1>9

\* Every step of the resync keeps ToldInv: it plans from the instant it began
\* at, and nothing is told while it runs.
LEMMA ToldSyncStep ==
  ASSUME TypeOK, JobInv, SlotInv, HandlerInv, ToldInv, SyncStep
  PROVE  ToldInv'
<1> USE DEF SyncUnchanged
<1>1. up = "starting" /\ op.pc = "idle"
  BY DEF SyncStep, SyncClear, SyncFacts, SyncTasks, SyncCreate, SyncDrop, SyncOdd,
     SyncSurvivors, SyncPast, SyncInstall, JobInv, TypeOK
<1>2. UNCHANGED <<now, op, fire, told, task>> /\ now \in Nat
  BY DEF SyncStep, SyncClear, SyncFacts, SyncTasks, SyncCreate, SyncDrop, SyncOdd,
     SyncSurvivors, SyncPast, SyncInstall, TypeOK
<1>3. \A r \in FactIds : ~ fire[r].pc \in Acting
  BY <1>1 DEF HandlerInv, Acting
<1>4. \A S \in told : S.trigger \in Nat /\ S \in Slots
  BY DEF TypeOK, Slots
<1>5. CASE SyncClear
  <2>1. sync'.pc = "facts" /\ sync'.now = now /\ UNCHANGED fact
    BY <1>5 DEF SyncClear, NoSync
  <2> QED
    BY <1>1, <1>2, <1>3, <2>1 DEF ToldInv, Scheduled
<1>6. CASE SyncTasks
  <2>1. /\ sync.pc = "tasks" /\ sync'.pc = "repair" /\ sync'.now = sync.now
        /\ UNCHANGED fact
        /\ sync'.make = UNION {{[task |-> t, type |-> d.type, trigger |-> d.trigger] :
                                  d \in MissingOf(t)} : t \in Relevant}
    BY <1>6 DEF SyncTasks, TypeOK, SyncRecords
  <2>2. ASSUME NEW S \in told, S \in sync'.make PROVE FALSE
    <3>1. PICK t \in Relevant : \E d \in MissingOf(t) :
            S = [task |-> t, type |-> d.type, trigger |-> d.trigger]
      BY <2>1, <2>2
    <3>2. PICK d \in MissingOf(t) : S = [task |-> t, type |-> d.type, trigger |-> d.trigger]
      BY <3>1
    <3>3. task[t].deadline \in MaybeDeadline
      BY DEF Relevant, TypeOK, TaskRows, TaskRow, NoTask, MaybeDeadline
    <3>4. d.trigger \in Nat /\ d.trigger > sync.now /\ sync.now \in Nat
      BY <3>3, PlannedAhead DEF MissingOf, DesiredOf, TypeOK, SyncRecords
    <3>5. S.trigger <= sync.now
      BY <2>1 DEF ToldInv
    <3> QED
      BY <3>2, <3>4, <3>5
  <2> QED
    BY <1>1, <1>2, <1>3, <2>1, <2>2 DEF ToldInv, Scheduled
<1>7. CASE SyncCreate
  <2>1. sync.pc = "repair"
    BY <1>7 DEF SyncCreate
  <2>2. PICK m \in sync.make, r \in FactIds :
          \/ CreateFact(r, m.task, m) /\ sync' = [sync EXCEPT !.make = @ \ {m}]
          \/ sync'.pc = "idle" /\ UNCHANGED fact
    BY <1>7 DEF SyncCreate, NoSync
  <2>3. CASE sync'.pc = "idle" /\ UNCHANGED fact
    BY <1>1, <1>2, <1>3, <2>3, ToldStays, UnchangedShrinks
  <2>4. CASE CreateFact(r, m.task, m) /\ sync' = [sync EXCEPT !.make = @ \ {m}]
    <3>1. SlotOf(m.task, m) = m
      BY DEF SlotOf, TypeOK, SyncRecords, Slots
    <3>2. m \notin told
      BY <2>1 DEF ToldInv
    <3>3. \A S \in told, q \in Scheduled(fact') : Slot(fact'[q]) # S
      BY <1>3, <2>4, <3>1, <3>2, CreateKeepsTold
    <3>4. /\ sync'.pc = "repair" /\ sync'.make = sync.make \ {m} /\ sync'.now = sync.now
      BY <2>1, <2>4 DEF TypeOK, SyncRecords
    <3>5. Scheduled(fact)' = Scheduled(fact')
      BY DEF Scheduled
    <3> QED
      BY <1>1, <1>2, <1>3, <2>1, <3>3, <3>4, <3>5 DEF ToldInv
  <2> QED
    BY <2>2, <2>3, <2>4
<1>8. CASE \/ SyncFacts \/ SyncDrop \/ (\E t \in TaskIds : SyncOdd(t))
           \/ SyncSurvivors \/ SyncPast \/ SyncInstall
  <2>1. Shrinks
    <3>1. UNCHANGED fact \/ \E r \in FactIds : Mark(r, "cancelled")
      BY <1>8 DEF SyncFacts, SyncDrop, SyncOdd, SyncSurvivors, SyncPast, SyncInstall,
         TypeOK, SyncRecords
    <3> QED
      BY <3>1, MarkShrinks, UnchangedShrinks DEF Closed
  <2>2. sync \in SyncRecords
    BY DEF TypeOK
  <2>3. CASE SyncFacts
    <3>1. sync.pc = "facts" /\ sync'.pc = "tasks" /\ sync'.now = sync.now
      BY <2>2, <2>3 DEF SyncFacts, SyncRecords
    <3> QED
      BY <1>1, <1>2, <1>3, <2>1, <3>1, ToldStays
  <2>4. CASE SyncDrop \/ \E t \in TaskIds : SyncOdd(t)
    <3>1. \/ sync'.pc = "idle"
          \/ /\ sync.pc = "repair" /\ sync'.pc = "repair" /\ sync'.now = sync.now
             /\ sync'.make = sync.make
      BY <2>2, <2>4 DEF SyncDrop, SyncOdd, SyncRecords, NoSync
    <3> QED
      BY <1>1, <1>2, <1>3, <2>1, <3>1, ToldStays
  <2>5. CASE SyncSurvivors \/ SyncPast \/ SyncInstall
    <3>1. sync'.pc \in {"install", "idle"}
      BY <2>2, <2>5 DEF SyncSurvivors, SyncPast, SyncInstall, SyncRecords, NoSync
    <3> QED
      BY <1>1, <1>2, <1>3, <2>1, <3>1, ToldStays
  <2> QED
    BY <1>8, <2>3, <2>4, <2>5
<1> QED
  BY <1>5, <1>6, <1>7, <1>8 DEF SyncStep

\* Every step other than a deletion and a restore keeps ToldInv.
LEMMA ToldStep ==
  ASSUME TypeOK, JobInv, SlotInv, HandlerInv, ToldInv, [Next]_vars, ~ Restore,
         \A t \in TaskIds : ~ DeleteTask(t)
  PROVE  ToldInv'
<1> USE DEF tables, ghosts
<1>1. CASE UNCHANGED vars
  BY <1>1, ToldStays, UnchangedShrinks DEF vars
<1>2. CASE Mutation
  <2>1. ASSUME NEW t \in TaskIds, NEW row, NEW pc \in {"plan", "cancel", "idle"},
               Write(t, row, pc)
        PROVE  ToldInv'
    <3>1. op'.pc # "create" /\ UNCHANGED <<fact, sync, told, now>>
      BY <2>1 DEF Write, NoOp
    <3>2. \A r \in FactIds : fire'[r].pc = fire[r].pc
      BY <2>1 DEF Write, TypeOK, FireRecords
    <3> QED
      BY <3>1, <3>2, ToldStays, UnchangedShrinks
  <2>2. \A old, new : AfterManualUpdate(old, new) \in {"plan", "cancel", "idle"}
    BY DEF AfterManualUpdate
  <2> QED
    BY <1>2, <2>1, <2>2 DEF Mutation, CreateTask, ChangeDeadline, UpdateTask,
       UpdateManualTask, CloseTask
<1>3. CASE AbortOp \/ (\E r \in FactIds : CancelRead(r)) \/ CancelStep
  <2>1. /\ UNCHANGED <<fire, now, sync, told>>
        /\ op' = op \/ op' = NoOp
    BY <1>3 DEF AbortOp, CancelRead, CancelStep, CancelMark, CancelUnschedule,
       CancelUnchanged
  <2>2. Shrinks /\ \A r \in FactIds : fire[r].pc \in Acting => Slot(fact'[r]) = Slot(fact[r])
    <3>1. CASE UNCHANGED fact
      BY <3>1, UnchangedShrinks
    <3>2. CASE ~ UNCHANGED fact
      <4>1. /\ cancel.id \in FactIds /\ fact[cancel.id] # NoFact
            /\ Mark(cancel.id, "cancelled")
        BY <1>3, <3>2 DEF AbortOp, CancelRead, CancelStep, CancelMark, CancelUnschedule,
           CancelUnchanged, TypeOK
      <4>2. Shrinks /\ RowsKept
        BY <4>1, MarkShrinks, MarkKeeps DEF Closed
      <4> QED
        BY <4>2, SlotKept DEF HandlerInv, Acting
    <3> QED
      BY <3>1, <3>2
  <2> QED
    BY <2>1, <2>2, ToldStays DEF NoOp
<1>4. CASE Backup \/ Start \/ Tick
  <2>1. /\ UNCHANGED <<fire, fact, op, told>>
        /\ now' = now \/ now' = now + 1
        /\ sync' = sync \/ sync'.pc = "clear"
    BY <1>4 DEF Backup, Start, Tick, NoSync
  <2> QED
    BY <2>1, ToldStays, UnchangedShrinks
<1>5. CASE Crash
  <2>1. /\ UNCHANGED <<fact, told, now>> /\ op'.pc = "idle" /\ sync'.pc = "idle"
        /\ \A r \in FactIds : fire'[r].pc = "idle"
    BY <1>5 DEF Crash, NoOp, NoSync, NoFire
  <2> QED
    BY <2>1, ToldStays, UnchangedShrinks DEF Acting
<1> QED
  BY <1>1, <1>2, <1>3, <1>4, <1>5, ToldOpStep, ToldHandlerStep, ToldSyncStep DEF Next

\* A restart plans from a later clock and a replan replaces rows, but neither
\* brings back what was announced: every plan lies ahead of the clock, every
\* slot told or about to be told behind it, and no two rows share one.
THEOREM ToldTheorem == Spec => SlotToldOnce
<1> DEFINE IInv == IdsLast => ToldInv
<1>1. Init => IInv
  BY DEF Init, NoOp, NoSync, NoFire, ToldInv, Acting
<1>2. TypeOK /\ IdsInv /\ IInv /\ [Next]_vars => IInv'
  BY IdsLastStep, ToldStep
<1>3. TypeOK /\ IdsInv /\ IInv /\ [Next]_vars =>
        (IdsLast => \A r \in FactIds : Delivers(r) => Slot(fire[r].row) \notin told)
  <2> SUFFICES ASSUME TypeOK, IdsInv, ToldInv, [Next]_vars, IdsLast,
                      NEW r \in FactIds, Delivers(r)
               PROVE  Slot(fire[r].row) \notin told
    OBVIOUS
  <2>1. fire[r].pc = "deliver"
    BY OnlyDeliverySends DEF FireDeliver
  <2> QED
    BY <2>1 DEF IdsInv, HandlerInv, ToldInv, Acting
<1> HIDE DEF IInv
<1> QED
  BY <1>1, <1>2, <1>3, TypeCorrect, IdsTheorem, PTL DEF Spec, SlotToldOnce

-----------------------------------------------------------------------------
(* The startup resync leaves exactly the plans, whatever the crash left.   *)

\* A set of numbers that is not empty has a least one.
LEMMA LeastExists ==
  ASSUME NEW S, S \subseteq Nat, S # {}
  PROVE  \E x \in S : \A y \in S : x <= y
<1> DEFINE R == {ss \in Nat \X Nat : ss[1] < ss[2]}
<1>1. OpToRel(<, Nat) = R
  BY Zenon DEF OpToRel
<1>2. IsWellFoundedOn(R, Nat)
  BY <1>1, NatLessThanWellFounded, Zenon
<1>3. \A x, y \in Nat : <<y, x>> \in R <=> y < x
  OBVIOUS
<1> HIDE DEF R
<1>4. PICK x \in S : \A y \in S : ~(<<y, x>> \in R)
  BY <1>2, WFMin
<1>5. ASSUME NEW y \in S PROVE x <= y
  <2>1. x \in Nat /\ y \in Nat /\ ~(y < x)
    BY <1>3, <1>4
  <2> QED
    BY <2>1
<1> QED
  BY <1>5

\* What list_scheduled reads.
Reading == [r \in FactIds |-> IF r \in Scheduled(fact) THEN fact[r] ELSE NoFact]

Quiet == /\ op.pc = "idle" /\ cancel.pc = "idle"
         /\ \A r \in FactIds : fire[r].pc = "idle"

\* In the middle of the repair: an active row is one that was read or one that
\* was created; it stands for a plan, or is about to be cancelled, now or with
\* the tasks that have none; and every planned slot has its row or gets one.
RepairInv ==
  /\ \A r \in FactIds : sync.rows[r] # NoFact => fact[r] # NoFact
  /\ \A r \in sync.drop : sync.rows[r] # NoFact
  /\ \A r \in Scheduled(fact) :
       sync.rows[r] = fact[r] \/ (sync.rows[r] = NoFact /\ Slot(fact[r]) \in PlannedSlots)
  /\ \A r \in Scheduled(fact) \ sync.drop :
       Slot(fact[r]) \in PlannedSlots \/ fact[r].task \in sync.odd
  /\ \A S \in PlannedSlots :
       S \in sync.make \/ \E r \in Scheduled(fact) \ sync.drop : Slot(fact[r]) = S
  /\ sync.make \subseteq PlannedSlots
  /\ sync.odd \cap Relevant = {}

\* Nothing else runs while the process starts, and the resync gets from what
\* it finds to what the policy plans.
StartInv ==
  /\ up # "running" => Quiet
  /\ up = "starting" =>
       /\ sync.pc # "idle"
       /\ sync.pc # "clear" => job = NoJobs /\ sync.now <= now
       /\ sync.pc \in {"tasks", "install"} => sync.rows = Reading
       /\ sync.pc = "repair" => RepairInv
       /\ sync.pc = "install" => ActiveSlots(fact) = PlannedSlots

\* Only a pending task with a deadline has plans.
LEMMA PlansAreRelevant ==
  ASSUME TypeOK, NEW S \in PlannedSlots
  PROVE  \E t \in Relevant : \E d \in DesiredOf(t) :
           S = SlotOf(t, d) /\ d \in DesiredReminder /\ d.trigger > sync.now
<1>1. PICK t \in TaskIds : \E d \in DesiredOf(t) :
        S = [task |-> t, type |-> d.type, trigger |-> d.trigger]
  BY DEF PlannedSlots
<1>2. PICK d \in DesiredOf(t) : S = [task |-> t, type |-> d.type, trigger |-> d.trigger]
  BY <1>1
<1>3. t \in Relevant
  BY <1>2 DEF DesiredOf, PlanDesiredReminders, Relevant
<1>4. task[t].deadline \in MaybeDeadline
  BY DEF TypeOK, TaskRows, TaskRow, NoTask, MaybeDeadline
<1>5. sync.now \in Nat
  BY DEF TypeOK, SyncRecords
<1>6. d \in DesiredReminder /\ d.trigger > sync.now
  BY <1>2, <1>4, <1>5, PlannedAhead DEF DesiredOf
<1> QED
  BY <1>2, <1>3, <1>6 DEF SlotOf

\* The reading of the tasks begins the repair.
LEMMA TasksBeginRepair ==
  ASSUME TypeOK, sync.pc = "tasks", sync.rows = Reading, SyncTasks
  PROVE  RepairInv'
<1> USE DEF SyncUnchanged
<1>1. /\ UNCHANGED <<fact, task>>
      /\ sync'.rows = sync.rows /\ sync'.now = sync.now
      /\ sync'.make = UNION {{[task |-> t, type |-> d.type, trigger |-> d.trigger] :
                                d \in MissingOf(t)} : t \in Relevant}
      /\ sync'.drop = UNION {ActiveOf(t) \ KeptOf(t) : t \in Relevant}
      /\ sync'.odd = {t \in TaskIds \ Relevant : ActiveOf(t) # {}}
  BY DEF SyncTasks, TypeOK, SyncRecords
<1>2. PlannedSlots' = PlannedSlots /\ Relevant' = Relevant /\ Scheduled(fact)' = Scheduled(fact)
  BY <1>1 DEF PlannedSlots, DesiredOf, Relevant, Scheduled
<1>3. \A r \in FactIds : sync.rows[r] = IF r \in Scheduled(fact) THEN fact[r] ELSE NoFact
  BY DEF Reading
<1>4. \A r \in Scheduled(fact) : /\ r \in FactIds /\ fact[r] \in Fact /\ fact[r] # NoFact
                                 /\ fact[r].task \in TaskIds /\ fact[r].status = "scheduled"
  BY FactFields DEF Scheduled, NoFact
<1>5. \A t : ActiveOf(t) = {r \in Scheduled(fact) : fact[r].task = t}
  BY <1>3, <1>4 DEF ActiveOf, Scheduled, NoFact
<1>6. \A S \in PlannedSlots : \E t \in Relevant : \E d \in DesiredOf(t) :
        S = SlotOf(t, d) /\ d \in DesiredReminder /\ d.trigger > sync.now
  BY PlansAreRelevant
<1>7. \A r \in FactIds : sync.rows[r] # NoFact => fact[r] # NoFact
  BY <1>3, <1>4
<1>8. ASSUME NEW r \in sync'.drop PROVE sync.rows[r] # NoFact
  <2>1. PICK t \in Relevant : r \in ActiveOf(t)
    BY <1>1, <1>8
  <2> QED
    BY <1>3, <1>4, <1>5, <2>1
<1>9. ASSUME NEW r \in Scheduled(fact), r \notin sync'.drop
      PROVE  Slot(fact[r]) \in PlannedSlots \/ fact[r].task \in sync'.odd
  <2>1. r \in ActiveOf(fact[r].task) /\ fact[r].task \in TaskIds
    BY <1>4, <1>5
  <2>2. CASE fact[r].task \in Relevant
    <3>1. r \in KeptOf(fact[r].task)
      BY <1>1, <1>9, <2>1, <2>2
    <3>2. PICK d \in DesiredOf(fact[r].task) : Matches(r, d)
      BY <3>1 DEF KeptOf
    <3>3. Slot(fact[r]) = [task |-> fact[r].task, type |-> d.type, trigger |-> d.trigger]
      BY <1>3, <1>4, <3>2 DEF Matches, Slot
    <3> QED
      BY <2>1, <3>3 DEF PlannedSlots
  <2>3. CASE fact[r].task \notin Relevant
    BY <1>1, <2>1, <2>3
  <2> QED
    BY <2>2, <2>3
<1>10. ASSUME NEW S \in PlannedSlots, S \notin sync'.make
       PROVE  \E r \in Scheduled(fact) \ sync'.drop : Slot(fact[r]) = S
  <2>1. PICK t \in Relevant : \E d \in DesiredOf(t) : S = SlotOf(t, d)
    BY <1>6
  <2>2. PICK d \in DesiredOf(t) : S = SlotOf(t, d)
    BY <2>1
  <2>3. d \notin MissingOf(t)
    BY <1>1, <1>10, <2>2 DEF SlotOf
  <2>4. \E r \in ActiveOf(t) : Matches(r, d)
    BY <2>3 DEF MissingOf
  <2> DEFINE M == {r \in ActiveOf(t) : Matches(r, d)}
  <2>5. M \subseteq Nat /\ M # {}
    BY <2>4 DEF ActiveOf, Scheduled
  <2>6. PICK r \in M : \A q \in M : r <= q
    BY <2>5, LeastExists
  <2>7. r \in KeptOf(t)
    BY <2>2, <2>6 DEF KeptOf
  <2>8. r \in Scheduled(fact) /\ fact[r].task = t /\ Matches(r, d)
    BY <1>5, <2>6
  <2>9. Slot(fact[r]) = S
    BY <1>3, <1>4, <2>2, <2>8 DEF Matches, Slot, SlotOf
  <2>10. ASSUME r \in sync'.drop PROVE FALSE
    <3>1. PICK u \in Relevant : r \in ActiveOf(u) /\ r \notin KeptOf(u)
      BY <1>1, <2>10
    <3>2. u = t
      BY <1>5, <2>8, <3>1
    <3> QED
      BY <2>7, <3>1, <3>2
  <2> QED
    BY <2>8, <2>9, <2>10
<1>11. sync'.make \subseteq PlannedSlots
  <2>1. ASSUME NEW m \in sync'.make PROVE m \in PlannedSlots
    <3>1. PICK t \in Relevant : \E d \in MissingOf(t) :
            m = [task |-> t, type |-> d.type, trigger |-> d.trigger]
      BY <1>1
    <3>2. t \in TaskIds /\ MissingOf(t) \subseteq DesiredOf(t)
      BY DEF Relevant, MissingOf
    <3> QED
      BY <3>1, <3>2 DEF PlannedSlots
  <2> QED
    BY <2>1
<1>12. sync'.odd \cap Relevant = {}
  BY <1>1
<1>13. /\ \A r \in FactIds : sync'.rows[r] # NoFact => fact'[r] # NoFact
       /\ \A r \in sync'.drop : sync'.rows[r] # NoFact
       /\ \A r \in Scheduled(fact) : sync'.rows[r] = fact'[r]
  BY <1>1, <1>3, <1>7, <1>8, <1>4
<1>14. \A r \in Scheduled(fact) \ sync'.drop :
         Slot(fact'[r]) \in PlannedSlots \/ fact'[r].task \in sync'.odd
  BY <1>1, <1>9
<1>15. \A S \in PlannedSlots :
         S \in sync'.make \/ \E r \in Scheduled(fact) \ sync'.drop : Slot(fact'[r]) = S
  BY <1>1, <1>10
<1> QED
  BY <1>2, <1>11, <1>12, <1>13, <1>14, <1>15 DEF RepairInv

\* Every step of the repair goes on with it, and its end finds the plans.
LEMMA RepairStep ==
  ASSUME TypeOK, sync.pc = "repair", RepairInv,
         SyncCreate \/ SyncDrop \/ (\E t \in TaskIds : SyncOdd(t)) \/ SyncSurvivors
  PROVE  /\ sync'.now = sync.now
         /\ SyncSurvivors => /\ sync'.pc = "install" /\ sync'.rows = Reading'
                             /\ ActiveSlots(fact') = PlannedSlots'
         /\ ~ SyncSurvivors => sync'.pc = "repair" /\ RepairInv'
<1> USE DEF SyncUnchanged
<1>0. sync \in SyncRecords
  BY DEF TypeOK
<1>1. UNCHANGED task
  BY DEF SyncCreate, SyncDrop, SyncOdd, SyncSurvivors
<1>2. ASSUME sync'.now = sync.now
      PROVE  PlannedSlots' = PlannedSlots /\ Relevant' = Relevant
  BY <1>1, <1>2 DEF PlannedSlots, DesiredOf, Relevant
<1>3. Scheduled(fact)' = Scheduled(fact')
  BY DEF Scheduled
<1>4. \A S \in PlannedSlots : S.task \in Relevant /\ S \in Slots
  <2>1. ASSUME NEW S \in PlannedSlots PROVE S.task \in Relevant /\ S \in Slots
    <3>1. PICK t \in Relevant : \E d \in DesiredReminder : S = SlotOf(t, d)
      BY PlansAreRelevant
    <3>2. t \in TaskIds
      BY DEF Relevant
    <3> QED
      BY <3>1, <3>2 DEF SlotOf, Slots, DesiredReminder
  <2> QED
    BY <2>1
<1>5. \A r \in Scheduled(fact) : /\ r \in FactIds /\ fact[r] \in Fact /\ fact[r] # NoFact
                                 /\ fact[r].task \in TaskIds /\ fact[r].status = "scheduled"
  BY FactFields DEF Scheduled, NoFact
<1>6. ASSUME SyncCreate
      PROVE  sync'.now = sync.now /\ sync'.pc = "repair" /\ RepairInv'
  <2>1. PICK m \in sync.make, r \in FactIds :
          IF task[m.task] = NoTask
            THEN sync' = [NoSync EXCEPT !.now = sync.now] /\ UNCHANGED <<fact, sent>>
            ELSE /\ CreateFact(r, m.task, m)
                 /\ sync' = [sync EXCEPT !.make = @ \ {m}]
    BY <1>6 DEF SyncCreate
  <2>2. m \in PlannedSlots
    BY DEF RepairInv
  <2>3. task[m.task] # NoTask
    BY <1>4, <2>2 DEF Relevant, NoTask
  <2>4. CreateFact(r, m.task, m) /\ sync' = [sync EXCEPT !.make = sync.make \ {m}]
    BY <2>1, <2>3
  <2>5. /\ sync'.pc = "repair" /\ sync'.now = sync.now /\ sync'.rows = sync.rows
        /\ sync'.drop = sync.drop /\ sync'.odd = sync.odd /\ sync'.make = sync.make \ {m}
    BY <1>0, <2>4 DEF SyncRecords
  <2>6. /\ fact[r] = NoFact
        /\ fact'[r] = [task |-> m.task, type |-> m.type, trigger |-> m.trigger,
                       status |-> "scheduled"]
        /\ \A q \in FactIds \ {r} : fact'[q] = fact[q]
    BY <2>4, CreateKeeps DEF CreateFact, TypeOK, FactTables
  <2>7. Slot(fact'[r]) = m
    BY <1>4, <2>2, <2>6 DEF Slot, Slots
  <2>8. \A q \in Scheduled(fact') : q # r => q \in Scheduled(fact) /\ fact'[q] = fact[q]
    BY <2>6 DEF Scheduled
  <2>9. \A q \in Scheduled(fact) : q # r /\ q \in Scheduled(fact') /\ fact'[q] = fact[q]
    BY <2>6 DEF Scheduled, NoFact
  <2>10. r \in Scheduled(fact') /\ sync.rows[r] = NoFact /\ r \notin sync.drop
         /\ fact'[r] # NoFact
    BY <2>6 DEF Scheduled, RepairInv, NoFact
  <2>11. /\ \A q \in FactIds : sync.rows[q] # NoFact => fact'[q] # NoFact
         /\ \A q \in Scheduled(fact') :
              \/ sync.rows[q] = fact'[q]
              \/ sync.rows[q] = NoFact /\ Slot(fact'[q]) \in PlannedSlots
         /\ \A q \in Scheduled(fact') \ sync.drop :
              Slot(fact'[q]) \in PlannedSlots \/ fact'[q].task \in sync.odd
    BY <2>2, <2>6, <2>7, <2>8, <2>10 DEF RepairInv
  <2>12. \A S \in PlannedSlots :
           \/ S \in sync'.make
           \/ \E q \in Scheduled(fact') \ sync.drop : Slot(fact'[q]) = S
    BY <2>5, <2>7, <2>9, <2>10 DEF RepairInv
  <2>13. RepairInv'
    BY <1>2, <1>3, <2>5, <2>11, <2>12 DEF RepairInv
  <2> QED
    BY <2>5, <2>13
<1>7. ASSUME SyncDrop
      PROVE  sync'.now = sync.now /\ sync'.pc = "repair" /\ RepairInv'
  <2>1. PICK r \in sync.drop :
          IF fact[r] = NoFact
            THEN sync' = [NoSync EXCEPT !.now = sync.now] /\ UNCHANGED fact
            ELSE /\ Mark(r, "cancelled")
                 /\ sync' = [sync EXCEPT !.drop = @ \ {r}]
    BY <1>7 DEF SyncDrop
  <2>2. r \in FactIds /\ fact[r] # NoFact
    BY <1>0 DEF SyncRecords, RepairInv
  <2>3. Mark(r, "cancelled") /\ sync' = [sync EXCEPT !.drop = sync.drop \ {r}]
    BY <2>1, <2>2
  <2>4. /\ sync'.pc = "repair" /\ sync'.now = sync.now /\ sync'.rows = sync.rows
        /\ sync'.drop = sync.drop \ {r} /\ sync'.odd = sync.odd /\ sync'.make = sync.make
    BY <1>0, <2>3 DEF SyncRecords
  <2>5. Shrinks /\ RowsKept /\ fact'[r].status = "cancelled"
    BY <2>2, <2>3, MarkShrinks, MarkKeeps, MarkCloses DEF Closed
  <2>6. \A q \in FactIds \ {r} : fact'[q] = fact[q]
    BY <2>3 DEF Mark, TypeOK, FactTables
  <2>7. \A q \in Scheduled(fact') : q # r /\ q \in Scheduled(fact) /\ fact'[q] = fact[q]
    BY <2>5 DEF Shrinks, Scheduled
  <2>8. \A q \in Scheduled(fact) : q # r => q \in Scheduled(fact') /\ fact'[q] = fact[q]
    BY <2>6 DEF Scheduled
  <2>9. /\ \A q \in FactIds : sync.rows[q] # NoFact => fact'[q] # NoFact
        /\ \A q \in Scheduled(fact') :
             \/ sync.rows[q] = fact'[q]
             \/ sync.rows[q] = NoFact /\ Slot(fact'[q]) \in PlannedSlots
        /\ \A q \in Scheduled(fact') \ sync'.drop :
             Slot(fact'[q]) \in PlannedSlots \/ fact'[q].task \in sync.odd
    BY <2>4, <2>5, <2>7 DEF RepairInv, RowsKept
  <2>10. \A S \in PlannedSlots :
           \/ S \in sync.make
           \/ \E q \in Scheduled(fact') \ sync'.drop : Slot(fact'[q]) = S
    BY <2>4, <2>8 DEF RepairInv
  <2>11. RepairInv'
    BY <1>2, <1>3, <2>4, <2>9, <2>10 DEF RepairInv
  <2> QED
    BY <2>4, <2>11
<1>8. ASSUME NEW t \in TaskIds, SyncOdd(t)
      PROVE  sync'.now = sync.now /\ sync'.pc = "repair" /\ RepairInv'
  <2>1. /\ sync.make = {} /\ sync.drop = {} /\ t \in sync.odd
        /\ sync' = [sync EXCEPT !.odd = sync.odd \ {t},
                                !.drop = IF t \in Relevant THEN {} ELSE ActiveOf(t)]
        /\ UNCHANGED fact
    BY <1>8 DEF SyncOdd
  <2>2. t \notin Relevant
    BY <2>1 DEF RepairInv
  <2>3. /\ sync'.pc = "repair" /\ sync'.now = sync.now /\ sync'.rows = sync.rows
        /\ sync'.drop = ActiveOf(t) /\ sync'.odd = sync.odd \ {t}
        /\ sync'.make = sync.make
    BY <1>0, <2>1, <2>2 DEF SyncRecords
  <2>4. \A r \in ActiveOf(t) : sync.rows[r] # NoFact /\ sync.rows[r].task = t
    BY DEF ActiveOf, Scheduled, NoFact
  <2>5. ASSUME NEW r \in Scheduled(fact), r \notin ActiveOf(t)
        PROVE  Slot(fact[r]) \in PlannedSlots \/ fact[r].task \in sync.odd \ {t}
    <3>1. CASE Slot(fact[r]) \in PlannedSlots
      BY <3>1
    <3>2. CASE Slot(fact[r]) \notin PlannedSlots
      <4>1. fact[r].task \in sync.odd /\ sync.rows[r] = fact[r]
        BY <2>1, <2>5, <3>2 DEF RepairInv
      <4>2. fact[r].task # t
        BY <1>5, <2>5, <4>1 DEF ActiveOf, Scheduled
      <4> QED
        BY <4>1, <4>2
    <3> QED
      BY <3>1, <3>2
  <2>6. ASSUME NEW S \in PlannedSlots
        PROVE  \E r \in Scheduled(fact) \ ActiveOf(t) : Slot(fact[r]) = S
    <3>1. PICK r \in Scheduled(fact) : Slot(fact[r]) = S
      BY <2>1, <2>6 DEF RepairInv
    <3>2. fact[r].task # t
      BY <1>4, <2>2, <2>6, <3>1 DEF Slot
    <3>3. r \notin ActiveOf(t)
      BY <2>4, <3>2 DEF RepairInv
    <3> QED
      BY <3>1, <3>3
  <2>7. /\ \A q \in FactIds : sync'.rows[q] # NoFact => fact'[q] # NoFact
        /\ \A q \in sync'.drop : sync'.rows[q] # NoFact
        /\ \A q \in Scheduled(fact') :
             \/ sync'.rows[q] = fact'[q]
             \/ sync'.rows[q] = NoFact /\ Slot(fact'[q]) \in PlannedSlots
        /\ \A q \in Scheduled(fact') \ sync'.drop :
             Slot(fact'[q]) \in PlannedSlots \/ fact'[q].task \in sync'.odd
    BY <2>1, <2>3, <2>4, <2>5 DEF RepairInv
  <2>8. \A S \in PlannedSlots :
          \/ S \in sync'.make
          \/ \E q \in Scheduled(fact') \ sync'.drop : Slot(fact'[q]) = S
    BY <2>1, <2>3, <2>6
  <2>9. sync'.make \subseteq PlannedSlots /\ sync'.odd \cap Relevant = {}
    BY <2>3 DEF RepairInv
  <2>10. RepairInv'
    BY <1>2, <1>3, <2>3, <2>7, <2>8, <2>9 DEF RepairInv
  <2> QED
    BY <2>3, <2>10
<1>9. CASE SyncSurvivors
  <2>1. /\ sync.make = {} /\ sync.drop = {} /\ sync.odd = {}
        /\ UNCHANGED fact
        /\ sync'.pc = "install" /\ sync'.now = sync.now
        /\ sync'.rows = [r \in FactIds |-> IF r \in Scheduled(fact) THEN fact[r]
                                                                    ELSE NoFact]
    BY <1>0, <1>9 DEF SyncSurvivors, SyncRecords
  <2>2. sync'.rows = Reading'
    BY <2>1 DEF Reading, Scheduled
  <2>3. ActiveSlots(fact) = PlannedSlots
    BY <2>1 DEF RepairInv, ActiveSlots
  <2>4. ActiveSlots(fact') = ActiveSlots(fact)
    BY <2>1
  <2> QED
    BY <1>2, <1>9, <2>1, <2>2, <2>3, <2>4
<1>10. ASSUME SyncCreate \/ SyncDrop \/ (\E t \in TaskIds : SyncOdd(t))
       PROVE  ~ SyncSurvivors
  <2>1. sync'.pc = "repair"
    BY <1>6, <1>7, <1>8, <1>10
  <2> QED
    BY <1>0, <2>1 DEF SyncSurvivors, SyncRecords
<1> QED
  BY <1>6, <1>7, <1>8, <1>9, <1>10

\* While the process is not running nothing steps but the resync, the clock
\* and the process itself.
LEMMA OnlySyncSteps ==
  ASSUME TypeOK, StartInv, [Next]_vars, up # "running"
  PROVE  SyncStep \/ Crash \/ Start \/ Tick \/ UNCHANGED vars
<1>1. Quiet
  BY DEF StartInv
<1>2. ~ Mutation
  BY DEF Mutation, CreateTask, ChangeDeadline, UpdateTask, UpdateManualTask, CloseTask,
     DeleteTask, CanBegin
<1>3. ~ OpStep /\ ~ AbortOp
  BY <1>1 DEF Quiet, OpStep, PlanCancel, PlanCreate, PlanList, PlanInstall, CancelFacts,
     CancelJobs, DeleteCancel, DeleteJobs, DeleteFacts, DeleteRow, AbortOp
<1>4. ~ (\E r \in FactIds : CancelRead(r)) /\ ~ CancelStep
  BY <1>1 DEF Quiet, CancelRead, CancelStep, CancelMark, CancelUnschedule
<1>5. ~ \E r \in FactIds : JobRun(r) \/ JobMissed(r) \/ FireStep(r)
  BY <1>1 DEF Quiet, JobRun, JobMissed, FireStep, FireRead, FireTask, FireClose, FireMark,
     FireDeliver, FireError
<1>6. ~ Backup /\ ~ Restore
  BY DEF Backup, Restore
<1> QED
  BY <1>2, <1>3, <1>4, <1>5, <1>6 DEF Next

\* Only a crash ends a running process.
LEMMA OnlyCrashEnds ==
  ASSUME [Next]_vars, up = "running", up' # "running"
  PROVE  Crash
<1> USE DEF tables, ghosts
<1>1. ~ UNCHANGED up
  OBVIOUS
<1>2. ~ UNCHANGED vars /\ ~ Mutation /\ ~ AbortOp /\ ~ CancelStep
      /\ ~ (\E r \in FactIds : CancelRead(r))
  BY <1>1 DEF vars, Mutation, CreateTask, ChangeDeadline, UpdateTask, UpdateManualTask,
     CloseTask, DeleteTask, Write, AbortOp, CancelStep, CancelMark, CancelUnschedule,
     CancelRead, CancelUnchanged
<1>3. ~ OpStep
  BY <1>1 DEF OpStep, PlanCancel, PlanCreate, PlanList, PlanInstall, CancelFacts,
     CancelJobs, DeleteCancel, DeleteJobs, DeleteFacts, DeleteRow, OpUnchanged
<1>4. ~ \E r \in FactIds : JobRun(r) \/ JobMissed(r) \/ FireStep(r)
  BY <1>1 DEF JobRun, JobMissed, FireStep, FireRead, FireTask, FireClose, FireMark,
     FireDeliver, FireError, FireUnchanged
<1>5. ~ SyncStep
  BY DEF SyncStep, SyncClear, SyncFacts, SyncTasks, SyncCreate, SyncDrop, SyncOdd,
     SyncSurvivors, SyncPast, SyncInstall
<1>6. ~ Backup /\ ~ Restore /\ ~ Start /\ ~ Tick
  BY <1>1 DEF Backup, Restore, Start, Tick
<1> QED
  BY <1>2, <1>3, <1>4, <1>5, <1>6 DEF Next

\* At startup no survivor is ever past: they are plans, which lie ahead.
LEMMA NoneMissed ==
  ASSUME TypeOK, sync.rows = Reading, ActiveSlots(fact) = PlannedSlots, NEW r \in FactIds
  PROVE  ~ Missed(r)
<1> SUFFICES ASSUME Missed(r) PROVE FALSE
  OBVIOUS
<1>1. r \in Scheduled(fact) /\ sync.rows[r] = fact[r] /\ fact[r].trigger <= sync.now
  BY DEF Missed, Reading
<1>2. Slot(fact[r]) \in PlannedSlots
  BY <1>1 DEF ActiveSlots
<1>3. PICK t \in Relevant : \E d \in DesiredReminder :
        Slot(fact[r]) = SlotOf(t, d) /\ d.trigger > sync.now
  BY <1>2, PlansAreRelevant
<1>4. fact[r].trigger > sync.now
  BY <1>3 DEF Slot, SlotOf
<1>5. fact[r].trigger \in Nat /\ sync.now \in Nat
  BY <1>1, FactFields DEF Scheduled, NoFact, TypeOK, SyncRecords
<1> QED
  BY <1>1, <1>4, <1>5

\* Every step keeps StartInv, restores included.
LEMMA StartStep ==
  ASSUME TypeOK, StartInv, [Next]_vars
  PROVE  StartInv'
<1> USE DEF tables, ghosts
<1>0. sync \in SyncRecords /\ now \in Nat /\ sync.now \in Nat
  BY DEF TypeOK, SyncRecords
<1>1. CASE up' = "running"
  BY <1>1 DEF StartInv
<1>2. CASE Crash
  <2>1. up' = "down" /\ op'.pc = "idle" /\ cancel'.pc = "idle"
        /\ \A r \in FactIds : fire'[r].pc = "idle"
    BY <1>2 DEF Crash, NoOp, NoCancel, NoFire
  <2> QED
    BY <2>1 DEF StartInv, Quiet
<1>3. CASE UNCHANGED vars
  <2>1. UNCHANGED <<RepairInv, Reading, PlannedSlots, ActiveSlots(fact), Quiet>>
    BY <1>3 DEF vars, RepairInv, Reading, PlannedSlots, DesiredOf, ActiveSlots, Relevant,
       Scheduled, Quiet
  <2> QED
    BY <1>3, <2>1 DEF vars, StartInv
<1>4. CASE Tick
  <2>1. UNCHANGED <<task, fact, job, up, op, sync, fire, cancel>> /\ now' = now + 1
    BY <1>4 DEF Tick
  <2>2. UNCHANGED <<RepairInv, Reading, PlannedSlots, ActiveSlots(fact), Quiet>>
    BY <2>1 DEF RepairInv, Reading, PlannedSlots, DesiredOf, ActiveSlots, Relevant,
       Scheduled, Quiet
  <2> QED
    BY <1>0, <2>1, <2>2 DEF StartInv
<1>5. CASE Start
  <2>1. /\ up = "down" /\ up' = "starting" /\ sync'.pc = "clear"
        /\ UNCHANGED <<op, fire, cancel>>
    BY <1>5 DEF Start, NoSync
  <2> QED
    BY <2>1 DEF StartInv, Quiet
<1>6. CASE up # "running" /\ SyncStep /\ up' # "running"
  <2> USE DEF SyncUnchanged
  <2>1. UNCHANGED <<task, now, up, op, fire, cancel>> /\ ~ SyncInstall
    BY <1>6 DEF SyncStep, SyncClear, SyncFacts, SyncTasks, SyncCreate, SyncDrop, SyncOdd,
       SyncSurvivors, SyncPast, SyncInstall
  <2>2. Quiet'
    BY <1>6, <2>1 DEF StartInv, Quiet
  <2>3. CASE up # "starting"
    BY <2>1, <2>2, <2>3 DEF StartInv
  <2>4. ASSUME up = "starting", SyncClear PROVE StartInv'
    <3>1. sync'.pc = "facts" /\ sync'.now = now /\ job' = NoJobs
      BY <2>4 DEF SyncClear, NoSync
    <3> QED
      BY <1>0, <2>1, <2>2, <3>1 DEF StartInv
  <2>5. ASSUME up = "starting", SyncFacts PROVE StartInv'
    <3>1. /\ sync.pc = "facts" /\ sync'.pc = "tasks" /\ sync'.now = sync.now
          /\ UNCHANGED <<job, fact>>
          /\ sync'.rows = [r \in FactIds |-> IF r \in Scheduled(fact) THEN fact[r]
                                                                      ELSE NoFact]
      BY <1>0, <2>5 DEF SyncFacts, SyncRecords
    <3>2. sync'.rows = Reading'
      BY <3>1 DEF Reading, Scheduled
    <3> QED
      BY <2>1, <2>2, <2>5, <3>1, <3>2 DEF StartInv
  <2>6. ASSUME up = "starting", SyncTasks PROVE StartInv'
    <3>1. /\ sync.pc = "tasks" /\ sync'.pc = "repair" /\ sync'.now = sync.now
          /\ UNCHANGED job
      BY <1>0, <2>6 DEF SyncTasks, SyncRecords
    <3>2. RepairInv'
      BY <2>6, <3>1, TasksBeginRepair DEF StartInv
    <3> QED
      BY <2>1, <2>2, <2>6, <3>1, <3>2 DEF StartInv
  <2>7. ASSUME up = "starting",
               SyncCreate \/ SyncDrop \/ (\E t \in TaskIds : SyncOdd(t)) \/ SyncSurvivors
        PROVE  StartInv'
    <3>1. sync.pc = "repair" /\ UNCHANGED job
      BY <2>7 DEF SyncCreate, SyncDrop, SyncOdd, SyncSurvivors
    <3>2. RepairInv /\ job = NoJobs /\ sync.now <= now
      BY <2>7, <3>1 DEF StartInv
    <3>3. /\ sync'.now = sync.now
          /\ SyncSurvivors => /\ sync'.pc = "install" /\ sync'.rows = Reading'
                              /\ ActiveSlots(fact') = PlannedSlots'
          /\ ~ SyncSurvivors => sync'.pc = "repair" /\ RepairInv'
      BY <2>7, <3>1, <3>2, RepairStep
    <3>4. ActiveSlots(fact)' = ActiveSlots(fact')
      BY DEF ActiveSlots, Scheduled
    <3>5. CASE SyncSurvivors
      BY <2>1, <2>2, <3>1, <3>2, <3>3, <3>4, <3>5 DEF StartInv
    <3>6. CASE ~ SyncSurvivors
      BY <2>1, <2>2, <3>1, <3>2, <3>3, <3>6 DEF StartInv
    <3> QED
      BY <3>5, <3>6
  <2>8. ASSUME up = "starting", SyncPast PROVE FALSE
    <3>1. sync.pc = "install" /\ \E r \in FactIds : Missed(r)
      BY <2>8 DEF SyncPast
    <3> QED
      BY <2>8, <3>1, NoneMissed DEF StartInv
  <2> QED
    BY <1>6, <2>1, <2>3, <2>4, <2>5, <2>6, <2>7, <2>8 DEF SyncStep
<1> QED
  BY <1>1, <1>2, <1>3, <1>4, <1>5, <1>6, OnlySyncSteps, OnlyCrashEnds

\* Every resync of a starting process is what StartInv says.
LEMMA StartTheorem == Spec => []StartInv
<1>1. Init => StartInv
  BY DEF Init, NoOp, NoSync, NoFire, NoCancel, StartInv, Quiet
<1>2. TypeOK /\ StartInv /\ [Next]_vars => StartInv'
  BY StartStep
<1> QED
  BY <1>1, <1>2, TypeCorrect, PTL DEF Spec

\* The step that ends the startup is the resync's last: the rows are the plans
\* and the jobs the rows.
LEMMA ResyncEnd ==
  ASSUME TypeOK, StartInv, [Next]_vars, up = "starting", up' = "running"
  PROVE  /\ SyncInstall
         /\ ActiveSlots(fact') = PlannedSlots
         /\ \A r \in FactIds :
              job'[r] = IF r \in Scheduled(fact) THEN fact[r].trigger ELSE None
<1>1. SyncStep
  BY OnlySyncSteps DEF Crash, Start, Tick, vars
<1>2. SyncInstall
  BY <1>1 DEF SyncStep, SyncClear, SyncFacts, SyncTasks, SyncCreate, SyncDrop, SyncOdd,
     SyncSurvivors, SyncPast
<1>3. /\ sync.pc = "install" /\ UNCHANGED fact
      /\ job' = [r \in FactIds |-> IF sync.rows[r] # NoFact THEN sync.rows[r].trigger
                                                            ELSE job[r]]
  BY <1>2 DEF SyncInstall
<1>4. sync.rows = Reading /\ ActiveSlots(fact) = PlannedSlots /\ job = NoJobs
  BY <1>3 DEF StartInv
<1>5. \A r \in FactIds :
        /\ sync.rows[r] # NoFact <=> r \in Scheduled(fact)
        /\ r \in Scheduled(fact) => sync.rows[r] = fact[r]
        /\ job[r] = None
  BY <1>4 DEF Reading, Scheduled, NoFact, NoJobs
<1> QED
  BY <1>2, <1>3, <1>4, <1>5

\* Whatever the tables hold when a process starts (the remains of a mutation, of
\* a resync or of a restore that a crash cut short), the resync leaves exactly
\* the plans of the tasks as active rows, and exactly their jobs.
THEOREM ResyncTheorem == Spec => ResyncExact
<1>1. TypeOK /\ StartInv /\ [Next]_vars =>
        (up = "starting" /\ up' = "running" =>
           /\ ActiveSlots(fact') = PlannedSlots
           /\ \A r \in FactIds :
                job'[r] = IF r \in Scheduled(fact) THEN fact[r].trigger ELSE None)
  BY ResyncEnd
<1> QED
  BY <1>1, TypeCorrect, StartTheorem, PTL DEF Spec, ResyncExact

-----------------------------------------------------------------------------
(* Every reminder the policy would plan now is there, with its job.        *)

\* What a task is owed at an instant was planned for it at any earlier one:
\* what is far enough now was further then, and what goes before it in its
\* minute is not among the intents, near or far.
LEMMA PlannedEarlier ==
  ASSUME NEW status, NEW deadline \in MaybeDeadline,
         NEW early \in Nat, NEW late \in Nat, early <= late,
         NEW d \in PlanDesiredReminders(status, deadline, late),
         \A e \in Folded(deadline) :
           SameMinute(d.trigger, e.trigger) => Precedence(d.type) <= Precedence(e.type)
  PROVE  d \in PlanDesiredReminders(status, deadline, early)
<1>1. d.trigger \in Nat
  BY PlannedAhead
<1>2. deadline # None /\ status = "pending" /\ d \in Kept(deadline, late)
  BY DEF PlanDesiredReminders, OnePerMinute
<1>3. d \in Kept(deadline, early)
  BY <1>1, <1>2, PolicyAssumption DEF Kept
<1>4. Kept(deadline, early) \subseteq Folded(deadline)
  BY DEF Kept
<1> QED
  BY <1>2, <1>3, <1>4 DEF PlanDesiredReminders, OnePerMinute

\* What a task is owed lies ahead.
LEMMA OwedAhead ==
  ASSUME TypeOK, NEW t \in TaskIds, NEW d \in Owed(t)
  PROVE  /\ d \in PlanDesiredReminders(task[t].status, task[t].deadline, now)
         /\ d.trigger \in Nat /\ d.trigger > now
         /\ task[t].status = "pending" /\ task[t].deadline # None
<1>1. task[t].deadline \in MaybeDeadline /\ now \in Nat
  BY DEF TypeOK, TaskRows, TaskRow, NoTask, MaybeDeadline
<1>2. d \in PlanDesiredReminders(task[t].status, task[t].deadline, now)
  BY DEF Owed
<1> QED
  BY <1>1, <1>2, PlannedAhead DEF PlanDesiredReminders

\* The clock only takes away from what a task is owed.
LEMMA OwedShrinks ==
  ASSUME TypeOK, NEW t \in TaskIds, task'[t] = task[t],
         now' = now \/ now' = now + 1, NEW d \in Owed(t)'
  PROVE  d \in Owed(t)
<1>1. task[t].deadline \in MaybeDeadline /\ now \in Nat /\ now' \in Nat /\ now <= now'
  BY DEF TypeOK, TaskRows, TaskRow, NoTask, MaybeDeadline
<1>2. /\ d \in PlanDesiredReminders(task[t].status, task[t].deadline, now')
      /\ \A e \in Folded(task[t].deadline) :
           SameMinute(d.trigger, e.trigger) => Precedence(d.type) <= Precedence(e.type)
  BY DEF Owed
<1>3. d \in PlanDesiredReminders(task[t].status, task[t].deadline, now)
  BY <1>1, <1>2, PlannedEarlier
<1> QED
  BY <1>2, <1>3 DEF Owed

\* The active row of a slot that is owed, and that row with its job.
Has(t, d) ==
  \E r \in FactIds : Slot(fact[r]) = SlotOf(t, d) /\ fact[r].status = "scheduled"

HasJob(t, d) ==
  \E r \in FactIds : /\ Slot(fact[r]) = SlotOf(t, d) /\ fact[r].status = "scheduled"
                     /\ job[r] = d.trigger

\* The mutation under way has not come to the end of its plan for t.
Planning == {"plan", "create", "install"}
Behind(t) == op.task = t /\ op.pc \in Planning

\* The strengthening of Covered: a plan is computed from the task's present
\* row and a cancel is of a task that is closed; the jobs about to replace the
\* others include one for every active row; the job the user's cancel is about
\* to drop is that of a closed row; and what a task is owed has its row and
\* job, or, in the middle of its plan, its row or its place among those that
\* the plan still creates.
CoverInv ==
  /\ op.pc \in {"plan", "create"} => op.row = task[op.task]
  /\ op.pc \in {"cancel", "unschedule"} => task[op.task].status # "pending"
  /\ op.pc = "install" => \A r \in Scheduled(fact) : op.snap[r] = fact[r].trigger
  /\ cancel.pc = "unschedule" => fact[cancel.id].status \in Closed
  /\ up = "running" => \A t \in TaskIds \ dirty : \A d \in Owed(t) :
       /\ ~ Behind(t) => HasJob(t, d)
       /\ Behind(t) /\ op.pc = "create" => d \in op.todo \/ Has(t, d)
       /\ Behind(t) /\ op.pc = "install" => Has(t, d)

\* A step that leaves alone the rows and the jobs of what is owed, but to the
\* tasks whose plan is given up.
Spares ==
  \A t \in TaskIds \ dirty' : \A d \in Owed(t), r \in FactIds :
    Slot(fact[r]) = SlotOf(t, d) /\ fact[r].status = "scheduled" =>
      /\ fact'[r] = fact[r]
      /\ job[r] = d.trigger => job'[r] = d.trigger

\* A step that spares what is owed and finishes no plan keeps CoverInv.
LEMMA CoverStays ==
  ASSUME TypeOK, CoverInv, up = "running", UNCHANGED task,
         now' = now \/ now' = now + 1, dirty \subseteq dirty', Spares, Shrinks,
         \/ op' = op
         \/ op'.pc = "idle"
         \/ op'.pc = "unschedule" /\ op'.task = op.task /\ op.pc = "cancel",
         op' # op => \A t \in TaskIds \ dirty' : Behind(t) => Owed(t) = {},
         cancel'.pc = "unschedule" => fact'[cancel'.id].status \in Closed
  PROVE  CoverInv'
<1>1. /\ op'.pc \in {"plan", "create"} => op'.row = task[op'.task]
      /\ op'.pc \in {"cancel", "unschedule"} => task[op'.task].status # "pending"
  BY DEF CoverInv
<1>2. op'.pc = "install" => \A r \in Scheduled(fact') : op'.snap[r] = fact'[r].trigger
  <2>1. \A r \in Scheduled(fact') : r \in Scheduled(fact) /\ fact'[r] = fact[r]
    BY DEF Shrinks, Scheduled
  <2> QED
    BY <2>1 DEF CoverInv
<1>3. Scheduled(fact)' = Scheduled(fact')
  BY DEF Scheduled
<1>4. ASSUME NEW t \in TaskIds \ dirty', NEW d \in Owed(t)'
      PROVE  /\ ~ Behind(t)' => HasJob(t, d)'
             /\ Behind(t)' /\ op'.pc = "create" => d \in op'.todo \/ Has(t, d)'
             /\ Behind(t)' /\ op'.pc = "install" => Has(t, d)'
  <2>1. d \in Owed(t) /\ t \in TaskIds \ dirty
    BY <1>4, OwedShrinks
  <2>2. /\ ~ Behind(t) => HasJob(t, d)
        /\ Behind(t) /\ op.pc = "create" => d \in op.todo \/ Has(t, d)
        /\ Behind(t) /\ op.pc = "install" => Has(t, d)
    BY <2>1 DEF CoverInv
  <2>3. /\ HasJob(t, d) => HasJob(t, d)'
        /\ Has(t, d) => Has(t, d)'
    BY <2>1 DEF HasJob, Has, Spares, Slot
  <2>4. CASE op' = op
    BY <2>2, <2>3, <2>4 DEF Behind
  <2>5. CASE op' # op
    <3>1. ~ Behind(t)
      BY <2>1, <2>5
    <3>2. ~ Behind(t)'
      BY <2>5 DEF Behind, Planning
    <3> QED
      BY <2>2, <2>3, <3>1, <3>2
  <2> QED
    BY <2>4, <2>5
<1> QED
  BY <1>1, <1>2, <1>3, <1>4 DEF CoverInv

\* A step that leaves the rows and the jobs alone spares what is owed.
LEMMA UnchangedSpares == ASSUME UNCHANGED <<fact, job>> PROVE Spares
BY DEF Spares

\* A task's write: its plan follows, unless none is owed or nothing changed.
LEMMA WriteKeepsCover ==
  ASSUME TypeOK, CoverInv, CanBegin, NEW t \in TaskIds, NEW row,
         NEW pc \in {"plan", "cancel", "idle"}, Write(t, row, pc),
         pc = "cancel" => row.status # "pending",
         pc = "idle" => row = task[t] \/ row.status # "pending" \/ row.deadline = None
  PROVE  CoverInv'
<1> USE DEF ghosts
<1>1. /\ task' = [task EXCEPT ![t] = row]
      /\ UNCHANGED <<fact, job, now, up, cancel, dirty>>
      /\ op' = IF pc = "idle" THEN NoOp
               ELSE [NoOp EXCEPT !.pc = pc, !.task = t, !.row = row]
  BY DEF Write
<1>2. task'[t] = row /\ \A u \in TaskIds \ {t} : task'[u] = task[u]
  BY <1>1 DEF TypeOK
<1>3. op.pc = "idle"
  BY DEF CanBegin
<1>4. /\ pc = "idle" => op' = NoOp
      /\ pc # "idle" => op'.pc = pc /\ op'.task = t /\ op'.row = row
  BY <1>1 DEF NoOp
<1>5. /\ op'.pc \in {"plan", "create"} => op'.row = task'[op'.task]
      /\ op'.pc \in {"cancel", "unschedule"} => task'[op'.task].status # "pending"
      /\ op'.pc \notin {"create", "install"}
  BY <1>2, <1>4 DEF NoOp
<1>6. cancel'.pc = "unschedule" => fact'[cancel'.id].status \in Closed
  BY <1>1 DEF CoverInv
<1>7. ASSUME NEW u \in TaskIds \ dirty', NEW d \in Owed(u)', ~ Behind(u)'
      PROVE  HasJob(u, d)'
  <2>1. task'[u] = task[u]
    <3>1. CASE u = t
      <4>1. pc # "plan"
        BY <1>4, <1>7, <3>1 DEF Behind, Planning
      <4>2. row.status = "pending" /\ row.deadline # None
        BY <1>2, <1>7, <3>1 DEF Owed, PlanDesiredReminders
      <4> QED
        BY <1>2, <3>1, <4>1, <4>2
    <3> QED
      BY <1>2, <3>1
  <2>2. d \in Owed(u)
    BY <1>1, <1>7, <2>1, OwedShrinks
  <2>3. ~ Behind(u) /\ up = "running" /\ u \notin dirty
    BY <1>1, <1>3, <1>7 DEF Behind, Planning, CanBegin
  <2>4. HasJob(u, d)
    BY <2>2, <2>3 DEF CoverInv
  <2> QED
    BY <1>1, <2>4 DEF HasJob
<1> QED
  BY <1>5, <1>6, <1>7 DEF CoverInv

\* Every step of a task operation keeps CoverInv.
LEMMA CoverOpStep ==
  ASSUME TypeOK, JobInv, HandlerInv, CoverInv, up = "running", OpStep
  PROVE  CoverInv'
<1> USE DEF OpUnchanged
<1>0. op \in OpRecords /\ (op.pc # "idle" => op.task \in TaskIds)
  BY DEF TypeOK
<1>1. op.pc \notin Deleting /\ op.pc # "idle"
  BY DEF HandlerInv, OpStep, PlanCancel, PlanCreate, PlanList, PlanInstall, CancelFacts,
     CancelJobs, DeleteCancel, DeleteJobs, DeleteFacts, DeleteRow
<1>2. UNCHANGED <<task, now, up, cancel>>
  BY <1>1 DEF OpStep, PlanCancel, PlanCreate, PlanList, PlanInstall, CancelFacts,
     CancelJobs, DeleteCancel, DeleteJobs, DeleteFacts, DeleteRow, tables, Deleting
<1>3. KeepsRows
  <2>1. sync.pc = "idle" /\ UNCHANGED sync
    BY <1>1 DEF OpStep, PlanCancel, PlanCreate, PlanList, PlanInstall, CancelFacts,
       CancelJobs, DeleteCancel, DeleteJobs, DeleteFacts, DeleteRow, JobInv, Deleting
  <2>2. ~ Restore
    BY <2>1 DEF Restore, NoSync
  <2>3. ~ DeleteFacts
    BY <1>1 DEF DeleteFacts, Deleting
  <2>4. [Next]_vars
    BY DEF Next
  <2> QED
    BY <2>2, <2>3, <2>4, RowsStay
<1>4. cancel'.pc = "unschedule" => fact'[cancel'.id].status \in Closed
  <2>1. ASSUME cancel.pc = "unschedule" PROVE fact'[cancel.id].status \in Closed
    <3>1. cancel.id \in FactIds /\ fact[cancel.id].status \in Closed
      BY <2>1 DEF TypeOK, CoverInv
    <3>2. fact[cancel.id] # NoFact
      BY <3>1 DEF NoFact, Closed
    <3> QED
      BY <1>3, <3>1, <3>2 DEF KeepsRows
  <2> QED
    BY <1>2, <2>1
<1>5. ASSUME NEW t \in TaskIds, NEW d \in Owed(t)' PROVE d \in Owed(t)
  BY <1>2, <1>5, OwedShrinks
<1>6. CASE PlanCancel
  <2>1. /\ op.pc = "plan" /\ fact' = CancelledFor(op.task) /\ UNCHANGED job
        /\ dirty' = dirty \ {op.task}
        /\ op'.pc = "create" /\ op'.task = op.task /\ op'.row = op.row
        /\ op'.todo = PlanDesiredReminders(op.row.status, op.row.deadline, now)
    BY <1>0, <1>6 DEF PlanCancel, OpRecords
  <2>2. op'.row = task'[op'.task]
    BY <1>2, <2>1 DEF CoverInv
  <2>3. ASSUME NEW t \in TaskIds \ dirty', NEW d \in Owed(t)', Behind(t)'
        PROVE  d \in op'.todo
    <3>1. t = op.task /\ d \in Owed(t)
      BY <1>5, <2>1, <2>3 DEF Behind
    <3> QED
      BY <1>2, <2>1, <2>2, <3>1, OwedAhead
  <2>4. ASSUME NEW t \in TaskIds \ dirty', NEW d \in Owed(t)', ~ Behind(t)'
        PROVE  HasJob(t, d)'
    <3>1. t # op.task /\ t \notin dirty /\ d \in Owed(t)
      BY <1>5, <2>1, <2>4 DEF Behind, Planning
    <3>2. PICK r \in FactIds : /\ Slot(fact[r]) = SlotOf(t, d)
                               /\ fact[r].status = "scheduled" /\ job[r] = d.trigger
      BY <3>1 DEF CoverInv, Behind, HasJob
    <3>3. fact[r].task = t
      BY <3>2 DEF Slot, SlotOf
    <3>4. fact'[r] = fact[r]
      BY <2>1, <3>1, <3>3 DEF CancelledFor, FactsOf
    <3> QED
      BY <2>1, <3>2, <3>4 DEF HasJob
  <2> QED
    BY <1>4, <2>1, <2>2, <2>3, <2>4 DEF CoverInv
<1>7. CASE PlanCreate
  <2>1. op.pc = "create" /\ UNCHANGED <<job, dirty>>
    BY <1>7 DEF PlanCreate
  <2>2. PICK e \in op.todo, q \in FactIds :
          \/ task[op.task] = NoTask /\ op' = NoOp /\ UNCHANGED fact
          \/ CreateFact(q, op.task, e) /\ op' = [op EXCEPT !.todo = op.todo \ {e}]
    BY <1>7 DEF PlanCreate
  <2>3. CASE task[op.task] = NoTask /\ op' = NoOp /\ UNCHANGED fact
    <3>1. Owed(op.task) = {}
      BY <2>3 DEF Owed, PlanDesiredReminders, NoTask
    <3>2. Spares /\ Shrinks /\ op'.pc = "idle"
      BY <2>1, <2>3, UnchangedSpares, UnchangedShrinks DEF NoOp
    <3> QED
      BY <1>2, <1>4, <2>1, <3>1, <3>2, CoverStays DEF Behind
  <2>4. CASE CreateFact(q, op.task, e) /\ op' = [op EXCEPT !.todo = op.todo \ {e}]
    <3>1. /\ op'.pc = "create" /\ op'.task = op.task /\ op'.row = op.row
          /\ op'.todo = op.todo \ {e}
      BY <1>0, <2>1, <2>4 DEF OpRecords
    <3>2. /\ fact[q] = NoFact
          /\ fact'[q] = [task |-> op.task, type |-> e.type, trigger |-> e.trigger,
                         status |-> "scheduled"]
          /\ \A r \in FactIds \ {q} : fact'[r] = fact[r]
      BY <2>4, CreateKeeps DEF CreateFact, TypeOK, FactTables
    <3>3. Slot(fact'[q]) = SlotOf(op.task, e) /\ fact'[q].status = "scheduled"
      BY <3>2 DEF Slot, SlotOf
    <3>4. \A r \in FactIds : fact[r].status = "scheduled" => fact'[r] = fact[r]
      BY <3>2 DEF NoFact
    <3>5. \A t, d : /\ Has(t, d) => Has(t, d)'
                    /\ HasJob(t, d) => HasJob(t, d)'
      BY <2>1, <3>4 DEF Has, HasJob
    <3>6. op'.row = task'[op'.task]
      BY <1>2, <2>1, <3>1 DEF CoverInv
    <3>7. ASSUME NEW t \in TaskIds \ dirty', NEW d \in Owed(t)'
          PROVE  /\ ~ Behind(t)' => HasJob(t, d)'
                 /\ Behind(t)' => d \in op'.todo \/ Has(t, d)'
      <4>1. d \in Owed(t) /\ t \in TaskIds \ dirty
        BY <1>5, <2>1, <3>7
      <4>2. Behind(t)' <=> Behind(t)
        BY <2>1, <3>1 DEF Behind, Planning
      <4>3. /\ ~ Behind(t) => HasJob(t, d)
            /\ Behind(t) => d \in op.todo \/ Has(t, d)
        BY <2>1, <4>1 DEF CoverInv
      <4>4. Behind(t) /\ d = e => Has(t, d)'
        BY <3>3 DEF Behind, Has
      <4> QED
        BY <3>1, <3>5, <4>2, <4>3, <4>4
    <3> QED
      BY <1>4, <3>1, <3>6, <3>7 DEF CoverInv
  <2> QED
    BY <2>2, <2>3, <2>4
<1>8. CASE PlanList
  <2>1. /\ op.pc = "create" /\ op.todo = {} /\ UNCHANGED <<fact, job, dirty>>
        /\ op'.pc = "install" /\ op'.task = op.task
        /\ op'.snap = [r \in FactIds |-> IF r \in Scheduled(fact) THEN fact[r].trigger
                                                                 ELSE None]
    BY <1>0, <1>8 DEF PlanList, OpRecords, tables
  <2>2. \A r \in Scheduled(fact)' : op'.snap[r] = fact'[r].trigger
    BY <2>1 DEF Scheduled
  <2>3. ASSUME NEW t \in TaskIds \ dirty', NEW d \in Owed(t)'
        PROVE  /\ ~ Behind(t)' => HasJob(t, d)'
               /\ Behind(t)' => Has(t, d)'
    <3>1. d \in Owed(t) /\ t \in TaskIds \ dirty
      BY <1>5, <2>1, <2>3
    <3>2. Behind(t)' <=> Behind(t)
      BY <2>1 DEF Behind, Planning
    <3>3. /\ ~ Behind(t) => HasJob(t, d)
          /\ Behind(t) => Has(t, d)
      BY <2>1, <3>1 DEF CoverInv
    <3> QED
      BY <2>1, <3>2, <3>3 DEF Has, HasJob
  <2> QED
    BY <1>4, <2>1, <2>2, <2>3 DEF CoverInv
<1>9. CASE PlanInstall
  <2>1. /\ op.pc = "install" /\ op'.pc = "idle" /\ job' = op.snap
        /\ UNCHANGED <<fact, dirty>>
    BY <1>9 DEF PlanInstall, NoOp, tables
  <2>2. ASSUME NEW t \in TaskIds \ dirty', NEW d \in Owed(t)' PROVE HasJob(t, d)'
    <3>1. d \in Owed(t) /\ t \in TaskIds \ dirty
      BY <1>5, <2>1, <2>2
    <3>2. Has(t, d)
      BY <2>1, <3>1 DEF CoverInv, Has, HasJob
    <3>3. PICK r \in FactIds : Slot(fact[r]) = SlotOf(t, d) /\ fact[r].status = "scheduled"
      BY <3>2 DEF Has
    <3>4. op.snap[r] = fact[r].trigger
      BY <2>1, <3>3 DEF CoverInv, Scheduled
    <3>5. fact[r].trigger = d.trigger
      BY <3>3 DEF Slot, SlotOf
    <3> QED
      BY <2>1, <3>3, <3>4, <3>5 DEF HasJob
  <2> QED
    BY <1>4, <2>1, <2>2 DEF CoverInv
<1>10. CASE CancelFacts \/ CancelJobs
  <2>1. op.pc \in {"cancel", "unschedule"} /\ UNCHANGED dirty
    BY <1>10 DEF CancelFacts, CancelJobs
  <2>2. Owed(op.task) = {}
    BY <2>1 DEF CoverInv, Owed, PlanDesiredReminders
  <2>3. Shrinks
    BY <1>10, CancelledForShrinks, UnchangedShrinks DEF CancelFacts, CancelJobs, tables
  <2>4. \/ op'.pc = "idle"
        \/ op'.pc = "unschedule" /\ op'.task = op.task /\ op.pc = "cancel"
    BY <1>0, <1>10 DEF CancelFacts, CancelJobs, NoOp, OpRecords
  <2>5. \A r \in FactIds : fact[r].task # op.task => fact'[r] = fact[r] /\ job'[r] = job[r]
    BY <1>10 DEF CancelFacts, CancelJobs, CancelledFor, Unscheduled, FactsOf, tables
  <2>6. Spares
    <3>1. ASSUME NEW t \in TaskIds, NEW d \in Owed(t), NEW r \in FactIds,
                 Slot(fact[r]) = SlotOf(t, d)
          PROVE  fact'[r] = fact[r] /\ job'[r] = job[r]
      <4>1. fact[r].task = t /\ t # op.task
        BY <2>2, <3>1 DEF Slot, SlotOf
      <4> QED
        BY <2>5, <4>1
    <3> QED
      BY <3>1 DEF Spares
  <2> QED
    BY <1>2, <1>4, <2>1, <2>3, <2>4, <2>6, CoverStays DEF Behind, Planning
<1> QED
  BY <1>1, <1>6, <1>7, <1>8, <1>9, <1>10 DEF OpStep, DeleteCancel, DeleteJobs, DeleteFacts,
     DeleteRow, Deleting

\* Every step of a handler spares what is owed: it drops or closes what is due.
LEMMA CoverHandlerStep ==
  ASSUME TypeOK, JobInv, HandlerInv, CoverInv, up = "running", NEW r \in FactIds,
         JobRun(r) \/ JobMissed(r) \/ FireStep(r)
  PROVE  CoverInv'
<1> USE DEF FireUnchanged
<1>1. UNCHANGED <<task, now, op, cancel, dirty>> /\ now \in Nat
  BY DEF JobRun, JobMissed, FireStep, FireRead, FireTask, FireClose, FireMark,
     FireDeliver, FireError, TypeOK
<1>2. \/ UNCHANGED <<fact, job>>
      \/ /\ UNCHANGED fact /\ job[r] # None
         /\ job[r] <= now \/ now > job[r] + Grace
         /\ job' = [job EXCEPT ![r] = None]
      \/ /\ UNCHANGED job /\ fire[r].pc # "idle" /\ fact[r] # NoFact
         /\ Mark(r, "cancelled") \/ Mark(r, "fired")
  BY DEF JobRun, JobMissed, FireStep, FireRead, FireTask, FireClose, FireMark,
     FireDeliver, FireError
<1>3. Shrinks
  BY <1>2, MarkShrinks, UnchangedShrinks DEF Closed
<1>4. ASSUME NEW t \in TaskIds, NEW d \in Owed(t), NEW q \in FactIds,
             Slot(fact[q]) = SlotOf(t, d)
      PROVE  fact'[q] = fact[q] /\ (job[q] = d.trigger => job'[q] = d.trigger)
  <2>1. fact[q].trigger = d.trigger /\ d.trigger \in Nat /\ d.trigger > now
    BY <1>4, OwedAhead DEF Slot, SlotOf
  <2>2. CASE UNCHANGED <<fact, job>>
    BY <2>2
  <2>3. CASE /\ UNCHANGED fact /\ job[r] # None
             /\ job[r] <= now \/ now > job[r] + Grace
             /\ job' = [job EXCEPT ![r] = None]
    <3>1. Grace \in Nat
      BY RemindersAssumption
    <3>2. job[q] = d.trigger => q # r
      BY <1>1, <2>1, <2>3, <3>1
    <3> QED
      BY <2>3, <3>2 DEF TypeOK, JobStores
  <2>4. CASE /\ UNCHANGED job /\ fire[r].pc # "idle" /\ fact[r] # NoFact
             /\ Mark(r, "cancelled") \/ Mark(r, "fired")
    <3>1. fact[r].trigger <= now
      BY <2>4 DEF HandlerInv
    <3>2. q # r
      BY <1>1, <2>1, <3>1
    <3> QED
      BY <2>4, <3>2 DEF Mark, TypeOK, FactTables
  <2> QED
    BY <1>2, <2>2, <2>3, <2>4
<1>5. Spares
  BY <1>4 DEF Spares
<1>6. KeepsRows
  <2>1. [Next]_vars /\ UNCHANGED <<left, op>>
    BY DEF Next, JobRun, JobMissed, FireStep, FireRead, FireTask, FireClose, FireMark,
       FireDeliver, FireError
  <2>2. ~ Restore
    BY <2>1 DEF Restore, TypeOK, Left
  <2>3. ~ DeleteFacts
    BY <2>1 DEF DeleteFacts, TypeOK, OpRecords
  <2> QED
    BY <2>1, <2>2, <2>3, RowsStay
<1>7. ASSUME cancel.pc = "unschedule" PROVE fact'[cancel.id].status \in Closed
  <2>1. cancel.id \in FactIds /\ fact[cancel.id].status \in Closed
    BY <1>7 DEF TypeOK, CoverInv
  <2>2. fact[cancel.id] # NoFact
    BY <2>1 DEF NoFact, Closed
  <2> QED
    BY <1>6, <2>1, <2>2 DEF KeepsRows
<1> QED
  BY <1>1, <1>3, <1>5, <1>7, CoverStays

\* The end of the startup leaves nothing owed without its row and its job: what
\* the clock has not taken away since the resync read it was planned then.
LEMMA CoverBegins ==
  ASSUME TypeOK, StartInv, [Next]_vars, up = "starting", up' = "running"
  PROVE  CoverInv'
<1>1. /\ SyncInstall
      /\ ActiveSlots(fact') = PlannedSlots
      /\ \A r \in FactIds :
           job'[r] = IF r \in Scheduled(fact) THEN fact[r].trigger ELSE None
  BY ResyncEnd
<1>2. sync.pc = "install" /\ UNCHANGED <<task, fact, now, op, cancel>>
  BY <1>1 DEF SyncInstall, SyncUnchanged
<1>3. op.pc = "idle" /\ cancel.pc = "idle" /\ sync.now <= now
  BY <1>2 DEF StartInv, Quiet
<1>4. now \in Nat /\ sync.now \in Nat
  BY DEF TypeOK, SyncRecords
<1>5. ASSUME NEW t \in TaskIds, NEW d \in Owed(t)' PROVE HasJob(t, d)'
  <2>1. d \in Owed(t)
    BY <1>2, <1>5, OwedShrinks
  <2>2. task[t].deadline \in MaybeDeadline
    BY DEF TypeOK, TaskRows, TaskRow, NoTask, MaybeDeadline
  <2>3. d \in DesiredOf(t)
    BY <1>3, <1>4, <2>1, <2>2, PlannedEarlier DEF Owed, DesiredOf
  <2>4. SlotOf(t, d) \in ActiveSlots(fact')
    BY <1>1, <2>3 DEF PlannedSlots, SlotOf
  <2>5. PICK r \in Scheduled(fact') : Slot(fact'[r]) = SlotOf(t, d)
    BY <2>4 DEF ActiveSlots
  <2>6. r \in FactIds /\ fact'[r].status = "scheduled" /\ r \in Scheduled(fact)
    BY <1>2 DEF Scheduled
  <2>7. fact[r].trigger = d.trigger
    BY <1>2, <2>5 DEF Slot, SlotOf
  <2> QED
    BY <1>1, <2>5, <2>6, <2>7 DEF HasJob
<1> QED
  BY <1>2, <1>3, <1>5 DEF CoverInv

\* Every step other than a deletion and a restore keeps CoverInv.
LEMMA CoverStep ==
  ASSUME TypeOK, JobInv, HandlerInv, StartInv, CoverInv, [Next]_vars, ~ Restore,
         \A t \in TaskIds : ~ DeleteTask(t)
  PROVE  CoverInv'
<1> USE DEF tables, ghosts
<1>1. CASE up' # "running"
  <2>1. StartInv'
    BY StartStep
  <2>2. op'.pc = "idle" /\ cancel'.pc = "idle"
    BY <1>1, <2>1 DEF StartInv, Quiet
  <2> QED
    BY <1>1, <2>2 DEF CoverInv
<1>2. CASE up # "running" /\ up' = "running"
  <2>1. up = "starting"
    <3>1. SyncInstall /\ sync.pc = "install"
      BY <1>2, OnlySyncSteps DEF SyncStep, SyncClear, SyncFacts, SyncTasks, SyncCreate,
         SyncDrop, SyncOdd, SyncSurvivors, SyncPast, SyncInstall, Crash, Start, Tick, vars
    <3> QED
      BY <3>1 DEF JobInv
  <2> QED
    BY <1>2, <2>1, CoverBegins
<1>3. CASE up = "running" /\ up' = "running"
  <2>1. sync.pc = "idle"
    BY <1>3 DEF JobInv
  <2>2. ~ SyncStep /\ ~ Crash /\ ~ Start
    BY <1>3, <2>1 DEF SyncStep, SyncClear, SyncFacts, SyncTasks, SyncCreate, SyncDrop,
       SyncOdd, SyncSurvivors, SyncPast, SyncInstall, Crash, Start
  <2>3. CASE UNCHANGED vars \/ Backup \/ Tick \/ \E r \in FactIds : CancelRead(r)
    <3>1. /\ UNCHANGED <<task, fact, job, op, dirty>>
          /\ now' = now \/ now' = now + 1
          /\ cancel' = cancel \/ cancel'.pc = "mark"
      BY <2>3 DEF vars, Backup, Tick, CancelRead, CancelUnchanged
    <3>2. cancel'.pc = "unschedule" => fact'[cancel'.id].status \in Closed
      BY <3>1 DEF CoverInv
    <3> QED
      BY <1>3, <3>1, <3>2, UnchangedSpares, UnchangedShrinks, CoverStays
  <2>4. CASE AbortOp
    <3>1. /\ UNCHANGED <<task, fact, job, now, cancel>> /\ op'.pc = "idle"
          /\ dirty' = dirty \cup {op.task}
      BY <2>4 DEF AbortOp, NoOp
    <3>2. cancel'.pc = "unschedule" => fact'[cancel'.id].status \in Closed
      BY <3>1 DEF CoverInv
    <3> QED
      BY <1>3, <3>1, <3>2, UnchangedSpares, UnchangedShrinks, CoverStays DEF Behind
  <2>5. CASE CancelMark
    <3>1. cancel.id \in FactIds /\ UNCHANGED <<task, now, op, job>>
      BY <2>5 DEF CancelMark, CancelUnchanged, TypeOK
    <3>2. CASE fact[cancel.id] = NoFact
      <4>1. UNCHANGED <<fact, dirty>> /\ cancel'.pc = "idle"
        BY <2>5, <3>2 DEF CancelMark, NoCancel
      <4> QED
        BY <1>3, <3>1, <4>1, UnchangedSpares, UnchangedShrinks, CoverStays
    <3>3. CASE fact[cancel.id] # NoFact
      <4>1. /\ Mark(cancel.id, "cancelled") /\ cancel'.id = cancel.id
            /\ dirty' = dirty \cup {fact[cancel.id].task}
        BY <2>5, <3>3 DEF CancelMark, TypeOK, CancelRecords
      <4>2. Shrinks /\ fact'[cancel.id].status = "cancelled"
        BY <3>1, <4>1, MarkShrinks, MarkCloses DEF Closed
      <4>3. \A r \in FactIds \ {cancel.id} : fact'[r] = fact[r]
        BY <4>1 DEF Mark, TypeOK, FactTables
      <4>4. Spares
        BY <3>1, <4>1, <4>3 DEF Spares, Slot, SlotOf
      <4> QED
        BY <1>3, <3>1, <4>1, <4>2, <4>4, CoverStays DEF Closed
    <3> QED
      BY <3>2, <3>3
  <2>6. CASE CancelUnschedule
    <3>1. /\ cancel.pc = "unschedule" /\ cancel'.pc = "idle"
          /\ UNCHANGED <<task, fact, now, op, dirty>>
          /\ \A r \in FactIds : r # cancel.id => job'[r] = job[r]
      BY <2>6 DEF CancelUnschedule, CancelUnchanged, NoCancel, Unscheduled
    <3>2. fact[cancel.id].status # "scheduled"
      BY <3>1 DEF CoverInv, Closed
    <3>3. Spares
      BY <3>1, <3>2 DEF Spares
    <3> QED
      BY <1>3, <3>1, <3>3, UnchangedShrinks, CoverStays
  <2>7. CASE Mutation
    <3>1. CASE \E t \in TaskIds, d \in MaybeDeadline, s \in TaskStatus : CreateTask(t, s, d)
      BY <3>1, WriteKeepsCover DEF CreateTask
    <3>2. CASE \E t \in TaskIds, d \in MaybeDeadline : ChangeDeadline(t, d)
      BY <3>2, WriteKeepsCover DEF ChangeDeadline
    <3>3. CASE \E t \in TaskIds, d \in MaybeDeadline : UpdateTask(t, d)
      <4>1. PICK t \in TaskIds, d \in MaybeDeadline : UpdateTask(t, d)
        BY <3>3
      <4>2. d = task[t].deadline => [task[t] EXCEPT !.deadline = d] = task[t]
        BY DEF TypeOK, TaskRows, TaskRow, NoTask
      <4> QED
        BY <4>1, <4>2, WriteKeepsCover DEF UpdateTask
    <3>4. CASE \E t \in TaskIds, row \in TaskRow : UpdateManualTask(t, row)
      <4>1. PICK t \in TaskIds, row \in TaskRow : UpdateManualTask(t, row)
        BY <3>4
      <4>2. /\ AfterManualUpdate(task[t], row) \in {"plan", "cancel", "idle"}
            /\ AfterManualUpdate(task[t], row) = "cancel" => row.status # "pending"
            /\ AfterManualUpdate(task[t], row) = "idle" =>
                 row.status # "pending" \/ row.deadline = None
        BY DEF AfterManualUpdate
      <4> QED
        BY <4>1, <4>2, WriteKeepsCover DEF UpdateManualTask
    <3>5. CASE \E t \in TaskIds, s \in TaskStatus : CloseTask(t, s)
      <4>1. PICK t \in TaskIds, s \in TaskStatus : CloseTask(t, s)
        BY <3>5
      <4>2. s # "pending" /\ [task[t] EXCEPT !.status = s].status = s
        BY <4>1 DEF CloseTask, TypeOK, TaskRows, TaskRow, NoTask
      <4> QED
        BY <4>1, <4>2, WriteKeepsCover DEF CloseTask
    <3> QED
      BY <2>7, <3>1, <3>2, <3>3, <3>4, <3>5 DEF Mutation
  <2> QED
    BY <1>3, <2>2, <2>3, <2>4, <2>5, <2>6, <2>7, CoverOpStep, CoverHandlerStep
    DEF Next, CancelStep
<1> QED
  BY <1>1, <1>2, <1>3

\* Until a row is deleted or the tables are replaced, a running service at rest
\* has a row and a job for every reminder that its policy would plan at that
\* moment for a task whose last mutation was not cut short: however mutations,
\* cancels, handlers and crashes interleave, no reminder that lies ahead is lost.
THEOREM CoverTheorem == Spec => []Covered
<1> DEFINE IInv == IdsLast => CoverInv
<1>1. Init => IInv
  BY DEF Init, NoOp, NoCancel, CoverInv
<1>2. TypeOK /\ IdsInv /\ StartInv /\ IInv /\ [Next]_vars => IInv'
  BY IdsLastStep, CoverStep
<1>3. IInv => Covered
  BY DEF CoverInv, Covered, AtRest, HasJob, SlotOf, Behind, Planning
<1> HIDE DEF IInv
<1> QED
  BY <1>1, <1>2, <1>3, TypeCorrect, IdsTheorem, StartTheorem, PTL DEF Spec
=============================================================================
