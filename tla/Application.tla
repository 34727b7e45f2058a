---------------------------- MODULE Application ----------------------------
(***************************************************************************)
(* The life of the V2 process: the bootstrap and migration of its SQLite    *)
(* file (storage/database.py), and how CampusRuntime starts its parts, one   *)
(* after another, and takes them down again (app/runtime.py, __main__.py).   *)
(*                                                                          *)
(* Every part is configured: tasks, reminders over OneBot, API.  Only the   *)
(* file survives a crash.  Anything may fail; Ctrl+C may come at any await. *)
(***************************************************************************)
EXTENDS Integers

CONSTANT Files   \* what the first start may find at the configured path

(* A file is the version row it carries (0: none) and the structures the
   code looks for: "core" stands for the four tables of version 1 next to
   schema_meta, "deleted_at" is a column, "other" a table of someone else. *)
V1 == {"schema_meta", "core"}
V2 == V1 \union {"reminders"}
V3 == V2 \union {"settings", "deleted_at"}
Structures == V3 \union {"other"}
File == [version : 0..4, has : SUBSET Structures]

ASSUME FilesAssumption == Files \subseteq File

Fresh(f) == f.has = {} /\ f.version = 0

\* What some version of the program wrote, or nothing.
Compatible(f) ==
  \/ Fresh(f)
  \/ f.version = 1 /\ f.has \intersect V3 = V1
  \/ f.version = 2 /\ f.has \intersect V3 = V2
  \/ f.version = 3 /\ f.has \intersect V3 = V3

VARIABLES
  file,      \* the database file
  found,     \* what it was when this process started
  complete,  \* it has once been a complete database
  state,     \* RuntimeState; "none" while no process runs
  pc,        \* where start, cleanup or stop is
  goal,      \* the state that taking down ends in
  owns,      \* what the runtime's attributes refer to
  up,        \* what runs
  wired      \* initialize() has returned: the services were built

disk == <<file, found, complete>>
control == <<state, pc, goal>>
vars == <<disk, control, owns, up, wired>>

Init ==
  /\ file \in Files /\ found = file
  /\ complete = (Compatible(file) /\ ~Fresh(file))
  /\ state = "none" /\ pc = "none" /\ goal = "none"
  /\ owns = {} /\ up = {} /\ wired = FALSE

-----------------------------------------------------------------------------
(* Database.initialize                                                     *)

Says(f, version) == "schema_meta" \in f.has /\ f.version = version
Lacks(f, structures) == structures \intersect f.has = {}

\* Mutant: the version row is believed.
VerdictByVersion(f) ==
  CASE Fresh(f) \/ Says(f, 3) -> "create"
    [] Says(f, 2) -> "migrate23"
    [] Says(f, 1) -> "migrate12"
    [] OTHER -> "refuse"

\* _precheck, and the validator of the version to be migrated: the step that
\* comes next.
Verdict(f) ==
  CASE Fresh(f) \/ (Says(f, 3) /\ V3 \subseteq f.has) -> "create"
    [] Says(f, 2) /\ V2 \subseteq f.has /\ Lacks(f, {"settings", "deleted_at"}) -> "migrate23"
    [] Says(f, 1) /\ V1 \subseteq f.has /\ Lacks(f, {"reminders"}) -> "migrate12"
    [] OTHER -> "refuse"

\* A step of the start that succeeds.
Starting(here, next) ==
  /\ state = "STARTING" /\ goal = "RUNNING" /\ pc = here
  /\ pc' = next

Check ==
  /\ Verdict(file) # "refuse"
  /\ Starting("check", Verdict(file))
  /\ UNCHANGED <<disk, state, goal, owns, up, wired>>

\* Each migration is one transaction, the version row with the structures; a
\* structure that is there already makes it fail.
Migrate12 ==
  /\ Starting("migrate12", "migrate23")
  /\ Lacks(file, {"reminders"})
  /\ file' = [version |-> 2, has |-> file.has \union {"reminders"}]
  /\ UNCHANGED <<found, complete, state, goal, owns, up, wired>>

\* Mutant: the new structures are committed before the version row.
Migrate23InSteps ==
  /\ pc = "migrate23" /\ state = "STARTING" /\ goal = "RUNNING"
  /\ IF "settings" \notin file.has
     THEN file' = [file EXCEPT !.has = @ \union {"settings", "deleted_at"}] /\ UNCHANGED pc
     ELSE file' = [file EXCEPT !.version = 3] /\ pc' = "create"
  /\ UNCHANGED <<found, complete, state, goal, owns, up, wired>>

Migrate23 ==
  /\ Starting("migrate23", "create")
  /\ Lacks(file, {"settings", "deleted_at"})
  /\ file' = [version |-> 3, has |-> file.has \union {"settings", "deleted_at"}]
  /\ UNCHANGED <<found, complete, state, goal, owns, up, wired>>

OpenEngine ==
  /\ Starting("create", "create")
  /\ "engine" \notin up /\ up' = up \union {"engine"}
  /\ UNCHANGED <<disk, state, goal, owns, wired>>

\* create_all: SQLite commits every CREATE TABLE by itself.
CreateTable ==
  /\ Starting("create", "create") /\ "engine" \in up
  /\ \E t \in V3 \ (file.has \union {"deleted_at"}) :
       file' = [file EXCEPT !.has =
                  @ \union (IF t = "core" THEN {"core", "deleted_at"} ELSE {t})]
  /\ UNCHANGED <<found, complete, state, goal, owns, up, wired>>

\* The version row, where there is none, is a commit of its own.
Stamp ==
  /\ Starting("create", "wire") /\ "engine" \in up
  /\ V3 \subseteq file.has
  /\ file' = [file EXCEPT !.version = 3] /\ complete' = TRUE
  /\ UNCHANGED <<found, state, goal, owns, up, wired>>

-----------------------------------------------------------------------------
(* CampusRuntime.start                                                     *)

\* __main__: a new process and a new runtime.
Launch ==
  /\ state = "none"
  /\ state' = "STARTING" /\ goal' = "RUNNING" /\ pc' = "check"
  /\ found' = file
  /\ UNCHANGED <<file, complete, owns, up, wired>>

\* initialize() has returned: _init_task_pipeline builds the services up to
\* its next await.
Wire ==
  /\ Starting("wire", "resync")
  /\ owns' = owns \union {"engine", "scheduler"} /\ wired' = TRUE
  /\ UNCHANGED <<disk, state, goal, up>>

\* The agent, and resync_all on the stopped scheduler.
Resync ==
  /\ Starting("resync", "bus")
  /\ UNCHANGED <<disk, state, goal, owns, up, wired>>

\* The bus starts; the adapter is known before its server is.
StartBus ==
  /\ Starting("bus", "adapter")
  /\ owns' = owns \union {"bus", "adapter"} /\ up' = up \union {"bus"}
  /\ UNCHANGED <<disk, state, goal, wired>>

StartAdapter ==
  /\ Starting("adapter", "delivery")
  /\ up' = up \union {"adapter"}
  /\ UNCHANGED <<disk, state, goal, owns, wired>>

\* _activate_reminder_delivery: first the delivery, then the scheduler.
StartScheduler ==
  /\ Starting("delivery", "api")
  /\ up' = up \union {"delivery", "scheduler"}
  /\ UNCHANGED <<disk, state, goal, owns, wired>>

StartApi ==
  /\ Starting("api", "ready")
  /\ owns' = owns \union {"api"} /\ up' = up \union {"api"}
  /\ UNCHANGED <<disk, state, goal, wired>>

\* uvicorn says that it listens.
Ready ==
  /\ Starting("ready", "run") /\ "api" \in up
  /\ state' = "RUNNING"
  /\ UNCHANGED <<disk, goal, owns, up, wired>>

Start ==
  \/ Check \/ Migrate12 \/ Migrate23 \/ OpenEngine \/ CreateTable \/ Stamp
  \/ Wire \/ Resync \/ StartBus \/ StartAdapter \/ StartScheduler \/ StartApi \/ Ready

-----------------------------------------------------------------------------
(* Taking down                                                             *)

\* Mutant: cleanup forgets what later milestones added to the start.
FailToAdapter ==
  /\ state = "STARTING" /\ goal = "RUNNING"
  /\ pc' = "stop_adapter" /\ goal' = "FAILED"
  /\ UNCHANGED <<disk, state, owns, up, wired>>

\* Any step of start raises: _cleanup_after_failure.
Fail ==
  /\ state = "STARTING" /\ goal = "RUNNING"
  /\ pc' = "stop_api" /\ goal' = "FAILED"
  /\ UNCHANGED <<disk, state, owns, up, wired>>

\* Ctrl+C where start, cleanup or the running process awaits: start does not
\* catch the cancellation, and __main__ calls stop.  Cleanup of the API
\* swallows it.
Awaiting == {"create", "wire", "resync", "adapter", "ready", "run",
             "stop_adapter", "stop_bus", "stop_database"}

Interrupt ==
  /\ state \in {"STARTING", "RUNNING"} /\ pc \in Awaiting
  /\ state' = "STOPPING" /\ goal' = "STOPPED" /\ pc' = "stop_api"
  /\ UNCHANGED <<disk, owns, up, wired>>

\* Mutant: the order docs/v2/07_RUNTIME_LIFECYCLE.md gives.
AfterAsDocumented ==
  [stop_api |-> "stop_adapter", stop_adapter |-> "stop_scheduler",
   stop_scheduler |-> "stop_bus", stop_bus |-> "stop_database",
   stop_database |-> "end"]

\* The order of both _cleanup_after_failure and stop.
After ==
  [stop_api |-> "stop_scheduler", stop_scheduler |-> "stop_adapter",
   stop_adapter |-> "stop_bus", stop_bus |-> "stop_database",
   stop_database |-> "end"]

\* What is stopped with what.  A fire under way is waited for or cancelled
\* with the scheduler; the handlers left at the timeout are cancelled by the
\* bus.
Parts ==
  [stop_api |-> {"api"}, stop_scheduler |-> {"scheduler", "delivery", "fire"},
   stop_adapter |-> {"adapter"}, stop_bus |-> {"bus", "handler"},
   stop_database |-> {"engine"}]

Handle ==
  [stop_api |-> "api", stop_scheduler |-> "scheduler", stop_adapter |-> "adapter",
   stop_bus |-> "bus", stop_database |-> "engine"]

\* Only what an attribute refers to is stopped.  adapter and bus stay.
TakeDown ==
  /\ pc \in DOMAIN After
  /\ pc' = After[pc]
  /\ up' = IF Handle[pc] \in owns THEN up \ Parts[pc] ELSE up
  /\ owns' = owns \ ({Handle[pc]} \intersect {"api", "scheduler", "engine"})
  /\ UNCHANGED <<disk, state, goal, wired>>

\* The state is set when all is done; stop() on a FAILED runtime returns.
Ended ==
  /\ pc = "end"
  /\ state' = goal /\ pc' = "exit"
  /\ UNCHANGED <<disk, goal, owns, up, wired>>

-----------------------------------------------------------------------------
(* What runs, and the end of the process                                   *)

Work(part, of) ==
  \/ of \in up /\ part \notin up /\ up' = up \union {part}
  \/ part \in up /\ up' = up \ {part}

\* A handler runs for a message, which may have been queued before the adapter
\* stopped, a fire for a due job; the API may die.
Run ==
  /\ \/ pc # "adapter" /\ Work("handler", "bus")
     \/ Work("fire", "scheduler")
     \/ "api" \in up /\ up' = up \ {"api"}
  /\ UNCHANGED <<disk, control, owns, wired>>

\* The process exits or is killed, at any point.
Die ==
  /\ state # "none"
  /\ state' = "none" /\ pc' = "none" /\ goal' = "none"
  /\ owns' = {} /\ up' = {} /\ wired' = FALSE
  /\ UNCHANGED disk

Next == Launch \/ Start \/ Fail \/ Interrupt \/ TakeDown \/ Ended \/ Run \/ Die

Spec == Init /\ [][Next]_vars

-----------------------------------------------------------------------------
(* Properties                                                              *)

\* Whatever runs has what it uses, in every prefix of a start and in every
\* remainder of a stop: no message comes in before there is a pipeline for
\* it, no reminder fires while its delivery is the placeholder or its adapter
\* is gone, nothing works on a database that was disposed.
Uses(part) ==
  CASE part = "bus" -> {"engine"}
    [] part = "adapter" -> {"bus", "engine"}
    [] part \in {"scheduler", "fire"} -> {"delivery", "adapter", "engine"}
    [] part = "api" -> {"scheduler", "adapter", "bus", "engine"}
    [] part = "handler" -> {"engine"}
    [] OTHER -> {}

UsesAreUp == \A part \in up : Uses(part) \subseteq up

\* A runtime that says FAILED or STOPPED has nothing left running, whichever
\* step failed or was interrupted; only the engine of an initialize() that
\* did not return is left to the end of the process.
NothingLeft ==
  state \in {"FAILED", "STOPPED"} => up \subseteq (IF wired THEN {} ELSE {"engine"})

\* A database that was complete once is never refused, at whatever step of a
\* migration a process died.
UpgradeIsOpen == complete => Verdict(file) # "refuse"

\* A version 1 file that has a structure of version 3 already.
HasLater(f) == f.version = 1 /\ ~Lacks(f, {"settings", "deleted_at"})

\* A file no version of the program wrote is left as it was found, however
\* often the start is tried, killed or interrupted.  One kind is not:
\* _validate_version1 does not look for the structures of version 3, so the
\* first migration is committed before the second one fails.  Such a file is
\* left with that migration and nothing more.
RefusedIsUntouchedUnlessHalf ==
  \/ Compatible(found)
  \/ file = found
  \/ /\ HasLater(found)
     /\ file = [version |-> 2, has |-> found.has \union {"reminders"}]

=============================================================================
