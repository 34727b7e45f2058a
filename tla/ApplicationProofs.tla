------------------------- MODULE ApplicationProofs --------------------------
(***************************************************************************)
(* Proofs about Application, whatever file the first start finds.           *)
(***************************************************************************)
EXTENDS MCApplication, TLAPS

Prefix == {"check", "migrate12", "migrate23", "create", "wire"}
Wired == {"resync", "bus", "adapter", "delivery", "api", "ready", "run"}
Undoing == {"stop_api", "stop_scheduler", "stop_adapter", "stop_bus", "stop_database"}
All == {"engine", "bus", "adapter", "delivery", "scheduler", "api", "handler", "fire"}

\* Which state, goal and place go together.
ControlInv ==
  /\ state = "none" => pc = "none" /\ up = {} /\ owns = {} /\ ~wired
  /\ pc = "none" => state = "none"
  /\ pc \in Prefix \union Wired => goal = "RUNNING"
  /\ pc \in Undoing \union {"end"} => goal \in {"FAILED", "STOPPED"}
  /\ pc \in {"none", "exit", "end"} \union Prefix \union Wired \union Undoing
  /\ state \in {"FAILED", "STOPPED"} => pc = "exit"
  /\ pc \in Wired => wired
  /\ pc \in Prefix => ~wired
  /\ wired \in BOOLEAN

\* An attribute refers to every part that runs, but for the engine of an
\* initialize() that has not returned; until then nothing else runs.
OwnerInv ==
  /\ up \subseteq All
  /\ "api" \in up => "api" \in owns
  /\ {"scheduler", "delivery", "fire"} \intersect up # {} => "scheduler" \in owns
  /\ "adapter" \in up => "adapter" \in owns
  /\ {"bus", "handler"} \intersect up # {} => "bus" \in owns
  /\ "engine" \in up /\ wired => "engine" \in owns
  /\ ~wired => up \subseteq {"engine"}
  /\ pc \in Wired => {"engine", "scheduler"} \subseteq owns
  /\ pc \in Wired \ {"resync", "bus"} => {"bus", "adapter"} \subseteq owns

\* A start has what its next step builds on.
StartInv ==
  /\ pc \in {"wire"} \union Wired => "engine" \in up
  /\ pc \in Wired \ {"resync", "bus"} => "bus" \in up
  /\ pc \in Wired \ {"resync", "bus", "adapter"} => "adapter" \in up
  /\ pc \in {"api", "ready", "run"} => {"delivery", "scheduler"} \subseteq up

\* What a stop has passed is down.
StopInv ==
  /\ pc \in Undoing \ {"stop_api"} => "api" \notin up
  /\ pc \in {"stop_adapter", "stop_bus", "stop_database"} =>
       {"scheduler", "delivery", "fire"} \intersect up = {}
  /\ pc \in {"stop_bus", "stop_database"} => "adapter" \notin up
  /\ pc = "stop_database" => up \subseteq {"engine"}
  /\ pc \in {"end", "exit"} => up \subseteq (IF wired THEN {} ELSE {"engine"})

PartsInv == ControlInv /\ OwnerInv /\ StartInv /\ StopInv /\ UsesAreUp

\* What the migrations rely on; a complete database stays one.
FileInv ==
  /\ file \in File
  /\ pc = "migrate12" => file.version = 1 /\ V1 \subseteq file.has
  /\ pc = "migrate23" => file.version = 2
  /\ pc = "create" => file.version \in {0, 3}
  /\ complete => Compatible(file) /\ ~Fresh(file)

-----------------------------------------------------------------------------
(* The parts                                                               *)

LEMMA InitParts == Init => PartsInv
BY DEF Init, PartsInv, ControlInv, OwnerInv, StartInv, StopInv, UsesAreUp,
       Prefix, Wired, Undoing

\* A step that starts and stops nothing.
LEMMA IdleUses ==
  ASSUME UsesAreUp, UNCHANGED up
  PROVE  UsesAreUp'
BY DEF UsesAreUp, Uses

USE DEF Prefix, Wired, Undoing, All

LEMMA StartParts == PartsInv /\ Start => PartsInv'
<1> SUFFICES ASSUME PartsInv, Start
             PROVE  PartsInv'
  OBVIOUS
<1> USE DEF PartsInv, ControlInv, OwnerInv, StartInv, StopInv
<1>1. CASE Check \/ Migrate12 \/ Migrate23 \/ CreateTable \/ Stamp \/ Resync
  BY <1>1, IdleUses
     DEF Check, Migrate12, Migrate23, CreateTable, Stamp, Resync, Starting, Verdict
<1>2. CASE OpenEngine
  <2>1. UsesAreUp'
    BY <1>2 DEF OpenEngine, UsesAreUp, Uses
  <2> QED
    BY <1>2, <2>1 DEF OpenEngine, Starting
<1>3. CASE Wire
  BY <1>3, IdleUses DEF Wire, Starting
<1>4. CASE StartBus
  <2>1. UsesAreUp'
    BY <1>4 DEF StartBus, Starting, UsesAreUp, Uses
  <2> QED
    BY <1>4, <2>1 DEF StartBus, Starting
<1>5. CASE StartAdapter
  <2>1. UsesAreUp'
    BY <1>5 DEF StartAdapter, Starting, UsesAreUp, Uses
  <2> QED
    BY <1>5, <2>1 DEF StartAdapter, Starting
<1>6. CASE StartScheduler
  <2>1. UsesAreUp'
    BY <1>6 DEF StartScheduler, Starting, UsesAreUp, Uses
  <2> QED
    BY <1>6, <2>1 DEF StartScheduler, Starting
<1>7. CASE StartApi
  <2>1. UsesAreUp'
    BY <1>7 DEF StartApi, Starting, UsesAreUp, Uses
  <2> QED
    BY <1>7, <2>1 DEF StartApi, Starting
<1>8. CASE Ready
  BY <1>8, IdleUses DEF Ready, Starting
<1> QED
  BY <1>1, <1>2, <1>3, <1>4, <1>5, <1>6, <1>7, <1>8 DEF Start

\* Each step of a stop removes the last users of what the next one stops.
LEMMA TakeDownParts == PartsInv /\ TakeDown => PartsInv'
<1> SUFFICES ASSUME PartsInv, TakeDown
             PROVE  PartsInv'
  OBVIOUS
<1> USE DEF PartsInv, ControlInv, OwnerInv, StartInv, StopInv, TakeDown, After, Parts, Handle
<1>1. CASE pc = "stop_api"
  <2>1. UsesAreUp'
    BY <1>1 DEF UsesAreUp, Uses
  <2> QED
    BY <1>1, <2>1
<1>2. CASE pc = "stop_scheduler"
  <2>1. UsesAreUp'
    BY <1>2 DEF UsesAreUp, Uses
  <2> QED
    BY <1>2, <2>1
<1>3. CASE pc = "stop_adapter"
  <2>1. UsesAreUp'
    BY <1>3 DEF UsesAreUp, Uses
  <2> QED
    BY <1>3, <2>1
<1>4. CASE pc = "stop_bus"
  <2>1. UsesAreUp'
    BY <1>4 DEF UsesAreUp, Uses
  <2> QED
    BY <1>4, <2>1
<1>5. CASE pc = "stop_database"
  <2>1. UsesAreUp'
    BY <1>5 DEF UsesAreUp, Uses
  <2> QED
    BY <1>5, <2>1
<1> QED
  BY <1>1, <1>2, <1>3, <1>4, <1>5

LEMMA RunParts == PartsInv /\ Run => PartsInv'
<1> SUFFICES ASSUME PartsInv, Run
             PROVE  PartsInv'
  OBVIOUS
<1> USE DEF PartsInv, ControlInv, OwnerInv, StartInv, StopInv
<1>1. CASE Work("handler", "bus")
  <2>1. UsesAreUp'
    BY <1>1 DEF Work, UsesAreUp, Uses
  <2> QED
    BY <1>1, <2>1 DEF Run, Work, control
<1>2. CASE Work("fire", "scheduler")
  <2>1. UsesAreUp'
    BY <1>2 DEF Work, UsesAreUp, Uses
  <2> QED
    BY <1>2, <2>1 DEF Run, Work, control
<1>3. CASE up' = up \ {"api"}
  <2>1. UsesAreUp'
    BY <1>3 DEF UsesAreUp, Uses
  <2> QED
    BY <1>3, <2>1 DEF Run, control
<1> QED
  BY <1>1, <1>2, <1>3 DEF Run

LEMMA NextParts == PartsInv /\ [Next]_vars => PartsInv'
<1> SUFFICES ASSUME PartsInv, [Next]_vars
             PROVE  PartsInv'
  OBVIOUS
<1>1. CASE Start
  BY <1>1, StartParts
<1>2. CASE TakeDown
  BY <1>2, TakeDownParts
<1>3. CASE Run
  BY <1>3, RunParts
<1>4. CASE UNCHANGED vars
  BY <1>4, IdleUses DEF PartsInv, ControlInv, OwnerInv, StartInv, StopInv, vars, control
<1>5. CASE Launch
  BY <1>5, IdleUses DEF PartsInv, ControlInv, OwnerInv, StartInv, StopInv, Launch
<1>6. CASE Fail
  BY <1>6, IdleUses DEF PartsInv, ControlInv, OwnerInv, StartInv, StopInv, Fail
<1>7. CASE Interrupt
  BY <1>7, IdleUses DEF PartsInv, ControlInv, OwnerInv, StartInv, StopInv, Interrupt
<1>8. CASE Ended
  BY <1>8, IdleUses DEF PartsInv, ControlInv, OwnerInv, StartInv, StopInv, Ended
<1>9. CASE Die
  BY <1>9 DEF PartsInv, ControlInv, OwnerInv, StartInv, StopInv, UsesAreUp, Die
<1> QED
  BY <1>1, <1>2, <1>3, <1>4, <1>5, <1>6, <1>7, <1>8, <1>9 DEF Next

LEMMA PartsInvariant == Spec => []PartsInv
BY InitParts, NextParts, PTL DEF Spec

\* Whatever step of a start failed or was interrupted, and at every step of a
\* stop, what runs has what it uses.
THEOREM UsesTheorem == Spec => []UsesAreUp
<1>1. PartsInv => UsesAreUp
  BY DEF PartsInv
<1> QED
  BY PartsInvariant, <1>1, PTL

\* A runtime that says FAILED or STOPPED has stopped everything it started.
THEOREM NothingLeftTheorem == Spec => []NothingLeft
<1>1. PartsInv => NothingLeft
  BY DEF PartsInv, ControlInv, StopInv, NothingLeft
<1> QED
  BY PartsInvariant, <1>1, PTL

-----------------------------------------------------------------------------
(* The file                                                                *)

USE DEF V1, V2, V3, Structures, File

\* What a version of the program wrote is not refused by this one.
LEMMA CompatibleIsOpen ==
  ASSUME NEW f \in File, Compatible(f)
  PROVE  Verdict(f) # "refuse"
BY DEF Compatible, Verdict, Says, Lacks, Fresh

LEMMA InitFile == Init => FileInv
BY FilesAssumption DEF Init, FileInv, Compatible

LEMMA NextFile == FileInv /\ [Next]_vars => FileInv'
<1> SUFFICES ASSUME FileInv, [Next]_vars
             PROVE  FileInv'
  OBVIOUS
<1> USE DEF FileInv
<1>1. CASE Check
  BY <1>1 DEF Check, Starting, Verdict, Says, Fresh, disk
<1>2. CASE Migrate12
  BY <1>2 DEF Migrate12, Starting, Lacks, Compatible, Fresh
<1>3. CASE Migrate23
  BY <1>3 DEF Migrate23, Starting, Lacks, Compatible, Fresh
<1>4. CASE CreateTable
  BY <1>4 DEF CreateTable, Starting, Compatible, Fresh
<1>5. CASE Stamp
  BY <1>5 DEF Stamp, Starting, Compatible, Fresh
<1>6. CASE UNCHANGED <<file, complete>> /\ pc' \notin {"migrate12", "migrate23", "create"} \ {pc}
  BY <1>6
<1>7. Launch \/ OpenEngine \/ Wire \/ Resync \/ StartBus \/ StartAdapter \/ StartScheduler \/ StartApi
      \/ Ready \/ Fail \/ Interrupt \/ TakeDown \/ Ended \/ Run \/ Die \/ UNCHANGED vars
      => UNCHANGED <<file, complete>> /\ pc' \notin {"migrate12", "migrate23", "create"} \ {pc}
  BY DEF Launch, OpenEngine, Wire, Resync, StartBus, StartAdapter, StartScheduler, StartApi, Ready,
         Fail, Interrupt, TakeDown, After, Ended, Run, Die, Starting, vars, control, disk
<1> QED
  BY <1>1, <1>2, <1>3, <1>4, <1>5, <1>6, <1>7 DEF Next, Start

LEMMA FileInvariant == Spec => []FileInv
BY InitFile, NextFile, PTL DEF Spec

\* Once a database is complete, no crash makes a later start refuse it.
THEOREM UpgradeTheorem == Spec => []UpgradeIsOpen
<1>1. FileInv => UpgradeIsOpen
  BY CompatibleIsOpen DEF FileInv, UpgradeIsOpen
<1> QED
  BY FileInvariant, <1>1, PTL

(* A file that is not the program's passes the check only on the way of
   HasLater: it is migrated once, and Migrate23 finds what it would create. *)
RefusalInv ==
  ~Compatible(found) =>
    \/ /\ file = found
       /\ pc \notin {"migrate23", "create"}
       /\ pc = "migrate12" => HasLater(found)
    \/ /\ HasLater(found)
       /\ file = [version |-> 2, has |-> found.has \union {"reminders"}]
       /\ pc \notin {"check", "migrate12", "create"}

LEMMA AcceptedIsCompatible ==
  ASSUME NEW f \in File, Verdict(f) # "refuse", ~Compatible(f)
  PROVE  Verdict(f) = "migrate12" /\ HasLater(f)
BY DEF Compatible, Verdict, Says, Lacks, Fresh, HasLater

LEMMA NextRefusal == FileInv /\ RefusalInv /\ [Next]_vars => RefusalInv'
<1> SUFFICES ASSUME FileInv, RefusalInv, [Next]_vars, ~Compatible(found')
             PROVE  RefusalInv'
  BY DEF RefusalInv
<1> USE DEF RefusalInv
<1>1. CASE Check
  <2>1. found' = found /\ file' = file /\ pc = "check" /\ pc' = Verdict(file)
    BY <1>1 DEF Check, Starting, disk
  <2>2. file = found
    BY <2>1
  <2>3. Verdict(found) = "migrate12" /\ HasLater(found)
    BY <1>1, <2>1, <2>2, AcceptedIsCompatible DEF Check, FileInv
  <2> QED
    BY <2>1, <2>2, <2>3
<1>2. CASE Migrate12
  <2>1. /\ found' = found /\ pc = "migrate12" /\ pc' = "migrate23"
        /\ file' = [version |-> 2, has |-> file.has \union {"reminders"}]
    BY <1>2 DEF Migrate12, Starting
  <2> QED
    BY <2>1
<1>3. CASE Migrate23
  <2>1. /\ found' = found /\ pc = "migrate23"
        /\ Lacks(file, {"settings", "deleted_at"})
    BY <1>3 DEF Migrate23, Starting
  <2>2. HasLater(found) /\ file.has = found.has \union {"reminders"}
    BY <2>1
  <2> QED
    BY <2>1, <2>2 DEF HasLater, Lacks
<1>4. CASE CreateTable \/ Stamp
  BY <1>4 DEF CreateTable, Stamp, Starting
<1>5. CASE Launch
  BY <1>5 DEF Launch
<1>6. CASE /\ UNCHANGED <<file, found>>
           /\ pc' \notin {"check", "migrate12", "migrate23", "create"} \ {pc}
  BY <1>6
<1>7. OpenEngine \/ Wire \/ Resync \/ StartBus \/ StartAdapter \/ StartScheduler \/ StartApi
      \/ Ready \/ Fail \/ Interrupt \/ TakeDown \/ Ended \/ Run \/ Die \/ UNCHANGED vars
      => /\ UNCHANGED <<file, found>>
         /\ pc' \notin {"check", "migrate12", "migrate23", "create"} \ {pc}
  BY DEF OpenEngine, Wire, Resync, StartBus, StartAdapter, StartScheduler, StartApi,
         Ready, Fail, Interrupt, TakeDown, After, Ended, Run, Die, Starting, vars, control, disk
<1> QED
  BY <1>1, <1>2, <1>3, <1>4, <1>5, <1>6, <1>7 DEF Next, Start

\* Whatever file is found: one that no version of the program wrote is left as
\* it was, unless it says it is of version 1 and has a structure of version 3;
\* then it is left with the first migration and nothing more.
THEOREM RefusedTheorem == Spec => []RefusedIsUntouchedUnlessHalf
<1>1. Init => RefusalInv
  BY DEF Init, RefusalInv
<1>2. RefusalInv => RefusedIsUntouchedUnlessHalf
  BY DEF RefusalInv, RefusedIsUntouchedUnlessHalf
<1> QED
  BY FileInvariant, NextRefusal, <1>1, <1>2, PTL DEF Spec

=============================================================================
