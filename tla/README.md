# A formal model of CampusCue

CampusCue reads class and student group chats, extracts the assignments and
exams it finds, keeps them as tasks, and reminds the chat before each deadline.
This directory holds TLA+ modules that model the parts of it whose correctness
depends on the order in which things happen, the TLC runs that check them on
small instances, and TLAPS proofs of what matters most for instances of every
size.

Most of it is about the second generation, V2: a single asyncio process over one
SQLite file, with a web page that follows it. The reminders of the first
generation, V1, which runs inside AstrBot, are modelled too. Source paths are
relative to `v2/src/campuscue/` unless they start with `docs/`, with `web/`
(`v2/web/src/`) or with `v1/` (`campuscue/` of the repository, the package of V1).

## 1. Inventory

One event loop runs everything in the process. A coroutine gives up control only
at an `await`, so the unit of atomicity in all modules is the code between two
awaits that can suspend. SQLite is the only thing that survives the process.

| Part | State | Operations | Interacts with | Model |
|---|---|---|---|---|
| Task service (`services/task_service.py`) | `tasks` table, `_lock` | create (pipeline, agent, API), change fields, complete, dismiss, delete | drives the reminder service in the middle of every mutation | `Reminders`, `TaskPipeline` |
| Reminder service (`services/reminder_service.py`) | `reminders` table, `_fire_lock` | plan, cancel for task, cancel one, delete for task, resync, fire | scheduler, delivery; fire and cancel-one run outside the task service's lock | `Reminders` |
| Planning policy (`tasks/reminder_policy.py`) | none | deadline and instant to desired reminders | called by plan and by resync | `ReminderPolicy` |
| Scheduler (`services/reminder_scheduler.py`) | jobs, in memory | schedule, unschedule, clear, run | starts fire handlers | `Reminders` |
| Delivery (`services/reminder_delivery.py`) | none | one message to the chat | the OneBot adapter | partly, `Reminders`, `OneBotLink` |
| System service (`services/system_service.py`) | whole database | backup, restore, import | replaces the tables, then resyncs, without the task service's lock | partly, `Reminders` |
| Task pipeline (`tasks/pipeline.py`) and deduplicator (`tasks/dedup.py`) | `extractions` table | one message to at most one task | the bus starts it; it ends in `create_task` | `TaskPipeline`, `TaskBoard` |
| OneBot adapter (`adapters/onebot/`) | active connection, pending actions, dedup cache | accept, replace, read, send with echo, stop | NapCat dials in; events go to the bus, actions back on the same connection | `OneBotLink` |
| Event bus (`core/bus.py`), router | bounded queue, handler slots | publish, dispatch, shutdown | reader of the adapter on one side, handlers on the other | `OneBotLink` |
| Agent runtime (`agents/runtime.py`), conversations | bounded table of conversations, a lock each, pending approvals | one turn of a chat: request, call tools, propose, confirm, reject | language model, tools, through them the task service | `AgentRuntime` |
| Realtime hub (`api/realtime.py`), `GET /stream`, the page's composable (`web/composables/useSse.ts`) and task store | a bounded queue per subscriber; the board a page shows | publish, stream, drop, reconnect, load | every service publishes; the page loads over REST | `EventStream` |
| Database (`storage/database.py`) | the file and its version | precheck, migrate v1-v2-v3, create | everything | `Application` |
| Runtime (`app/runtime.py`, `__main__.py`) | what was started | start, clean up, stop | wires all of the above | `Application` |
| V1 reminders (`v1/reminders.py` on AstrBot's cron manager) | `campus_tasks`, cron rows, jobs in memory | schedule, cancel, resync, fire | routes, tools and the extraction pipeline call them without any lock | `V1Reminders` |
| Pure helpers | none | deadline phrases, token estimates, frame conversion | | no |
| HTTP routes, sources, providers, settings, views of the web interface | rows, or none | thin | | no |
| Rest of V1, the AstrBot fork, its dashboard, installers | | | | no |

What is hard here, and so what the properties are about:

* **interleaving**: fire handlers, the API's cancel and a restore run between
  the transactions of a task mutation; deliveries of one notice search for a
  duplicate side by side; connections replace each other while sends are in
  flight; turns of one thread queue for a lock; in V1 nothing is locked at all;
* **stale readings**: a replan installs jobs from rows it read before, a
  confirmation is applied to what is pending after the wait, an answer to an old
  load comes after the answer to a new one;
* **crashes and partial failures**: each mutation is several commits, a task is
  committed before the row that accounts for it, a migration is two commits, jobs
  are lost with the process, a tool timeout cuts a mutation in two, a start fails
  half way;
* **identifiers that come back**: SQLite reuses the row ids of deleted rows;
* **bounds**: a full queue of the bus or of a subscriber, no free handler slot, a
  full table of conversations, a search that looks at the newest rows only;
* **boundaries of time**: quiet hours, minimum lead, a restart just before a
  trigger.

What makes each part correct:

* *policy*: never after the deadline, never in quiet hours, never within the
  lead, and never silent for a deadline that is far enough away;
* *tasks and reminders*: at rest the active reminders and their jobs are what
  the policy plans; nothing is announced twice or after it was closed;
* *pipeline*: an obligation is on the board once however often and in however
  many messages it is announced, and every task is accounted for;
* *adapter and bus*: an answer resolves its own action and nothing else, a lost
  connection fails its own actions and no others, a repeated message is handled
  once, what was let in is handled;
* *agent*: a change of a task happens once, in its own thread and source, and
  only as confirmed;
* *event stream*: a slow page costs nobody else anything and learns that it was
  dropped; what a page is told leads it to show at least that;
* *database*: a file that was ever complete stays acceptable after any crash, a
  foreign file stays as it is, but for one kind that the code migrates once
  before it refuses it;
* *lifecycle*: whatever runs has what it uses, and a failed start or a stop
  leaves nothing running;
* *V1*: the schedule is what the tasks imply, at least where only one coroutine
  worked on it, and no job comes back a year later but one whose run was skipped.

## 2. Modules

| Module | What it is |
|---|---|
| `ReminderPolicy` | `plan_desired_reminders` as operators on integers |
| `PolicyProofs` | theorems about `ReminderPolicy` |
| `Reminders` | tasks, reminders, jobs, fire handlers, resync, crash, backup and restore; composes the policy |
| `RemindersProofs` | theorems about `Reminders` |
| `TaskBoard` | abstract specification: what the task table promises whoever reads it |
| `TaskPipeline` | deliveries, the critical section of `create_task`, extraction rows, faults |
| `PipelineProofs` | theorems about `TaskPipeline`, among them that it implements `TaskBoard` |
| `OneBotLink` | adapter, transport dedup, event bus, sends, stop and shutdown |
| `LinkProofs` | theorems about `OneBotLink` |
| `AgentRuntime` | threads, eviction, the tool loop, confirmations, what joins the history |
| `AgentProofs` | theorems about `AgentRuntime` |
| `EventStream` | hub, stream route, page |
| `StreamProofs` | theorem about `EventStream` |
| `Application` | the database file, and the start and stop of the process |
| `ApplicationProofs` | theorems about `Application` |
| `V1Reminders` | V1's reminders, with the coroutines that change them |
| `V1Proofs` | theorems about `V1Reminders` |
| `MC...` | one per component: the properties TLC checks; the `.cfg` files give the instances |

Definitions named `...Unchecked`, `...OfAll` and the like, with a comment that
begins "Mutant:", are broken variants of the definition below them. No
specification uses them: each stands for a plausible bug, and the property named
for it in `PROJECT.json` fails when the variant takes the definition's place.

### ReminderPolicy

Time is a natural number of ticks, a day is `HoursPerDay` hours of `Hour` ticks,
and the wall clock is the remainder, so the model has one time zone without
daylight saving. The code's constants (24 hours, one day and two hours before,
23 to 8 o'clock, 60 seconds) are CONSTANTS, so that a day can be small. The three
intents, the fold out of the quiet window, the clamp to the deadline, the four
discards and the collapse of one minute are separate operators, in the order of
the source.

### Reminders

`task` and `fact` are the two tables, `job` the scheduler. A mutation of
TaskService is `op`: `Mutation` is its guard and its first commit,
and `OpStep` the steps after it (`plan`, `create`, `install` for a replan;
`cancel`, `unschedule` for a closed task; four steps for a deletion). Since
`_lock` admits one mutation there is one `op`. `cancel` is the API's
`cancel_reminder`, `fire[r]` the handler of reminder id `r`, `sync` the resync.
`Crash` resets everything but the tables, `Start` begins the resync that precedes
the scheduler's start. `AbortOp` is an exception or a tool timeout between two
commits of a mutation; it releases the lock, as `async with` does.

`AfterManualUpdate` is the three-way branch at the end of `update_manual_task`:
it looks at what this call changed and not at what the table holds.

`IsNextFactId` is SQLite's choice of a rowid: the table that the ORM creates has
no AUTOINCREMENT, so the next id is one more than the largest present. A database
that was migrated from version 1 got AUTOINCREMENT for reminders
(`storage/database.py:327`) and does not reuse ids; the model takes the case that
is harder.

Each repository method is one action, although it reads and writes in separate
statements. Two writers of one row could then overwrite each other's final status
(fired, cancelled); the model leaves this outcome out because nothing that reads
the row afterwards tells the two apart.

`sent`, `told`, `dirty` and two fields of `fire` are history: they record
deliveries and what is not owed, and no guard reads them.

### TaskBoard and TaskPipeline

A delivery `d` is one run of the pipeline on one message; a message may be
delivered again, after a restart or once the transport's cache has forgotten it.
`Start` is the bus taking a handler slot, `Ask` the model's answer,
`CheckDuplicate` the critical section's entry with its two searches, `Insert` the
commit of the task, `Plan` the planning of its reminders under the same lock,
`Record` the row in `extractions`. `Raise` is a database call that fails anywhere
in between, `Crash` the process. `Enter`, `Correct` and `Remove` are what people
do through the API and the agent, each in one step because each holds the lock.

What source policy, hygiene filter and model say is input: any of them, and a
different answer for the same message. A notice is reduced to what the
deduplicator compares: `key` stands for the normalised title and the minute of
the deadline, `course` is a course or unknown. The relation `Clash` is not
transitive: an unknown course clashes with each of two different ones.
`Newest` is the window of `find_recent_for_source`, cut at its limit. Tasks of any
status count, as in the code, so the status of a task is not modelled.

Left out: the context buffer, which only feeds the prompt; the branch for
`DuplicateError`, which no execution reaches because every writer of the table
holds the lock, except a restore, which is left out here and modelled in
`Reminders`.

`TaskBoard` is the abstract specification. Its `Announce` looks at the whole
board and inserts in one step: no task of that message is there, and no recent
task among the newest `Limit` of the chat is the same obligation.
`ImplementsBoard == Board!Spec` in `MCTaskPipeline`, with the pipeline's `now` and
`board` for the abstract ones, is the refinement; everything else of the pipeline
is hidden by it.

### OneBotLink

`loop[c]` is `_handle_connection` of connection `c`; it suspends when it closes
the connection it replaced (`replace`), at the next frame (`read`) and in
`bus.publish` (`publish`). `act[s]` is `_send_action` of a handler or a fired
reminder; `pend` says whose future is in the *current* `_pending` map, which is a
new one after every replacement. `open`, `wire`, `asked` and `replied` are NapCat
and the network: it repeats messages, answers late, twice or never, and loses
connections. `Expire` is the TTL of the dedup cache. It happens when time passes
and not at the next lookup; since every lookup evicts first, no lookup can tell.

`StopBegin` and `StopEnd` are the adapter's `stop()`; `Drain` and
`CancelHandlers` are the bus's `shutdown()`, which throws away what is queued,
waits for the handlers and cancels those that are left, in the middle of a send
perhaps. The timeout of the wait may come at any moment.

Frames without effect (heartbeats, invalid ones, the bot's own messages) are left
out, and so is the handshake, which refuses a connection before it is one.
Messages without an id do not occur: the converter refuses them.

### AgentRuntime

A turn `u` is one call of `chat_with_trace`. `Arrive` is everything up to the
conversation's lock: the source check, the choice of a victim when the table is
full, and, if the lock is free, the first part of the turn. `Wake` is the same
first part after a wait. `CallTools` is a request whose tool calls are all
executed; `Reply` and `Propose` are the ends of `_run_loop`; `Executed` is the end
of `_execute_pending`. asyncio's lock is free from its release until the waiter it
woke has run, and the model keeps that instant (`locked` is false and `waiters` is
not empty), because the eviction looks at `locked()`.

Conversation objects are named by the turn that created them, so that a turn can
hold one that is not in the table any more. Of a history the model keeps whether
it holds half an exchange (`cut`). What trimming and the budget drop depends on
sizes, which are not modelled: old turns go in any number, the current one never.
A runtime without a provider makes no proposals and is not modelled apart; an
empty text does nothing.

### EventStream

`Commit` is a change of the board, `Publish` the event that follows it, in order.
`slots` is the hub's registry, `queue[i]` the bounded queue of subscriber `i`,
`stream[i]` the generator behind the connection, from the request to the route
(`route`: subscribed, but its generator has not run yet) into `hub.stream`
(`waiting`). `wire` is what the connection holds, so a page that does not read
blocks its generator, and its queue fills. An event is its number, because a page
uses none of its content: whatever it reads starts a load (`asked`), the server
reads the board at some moment (`answers`), and answers are shown in any order.

The page's reconnect timer has no fairness: a page may be closed. Left out: a
client that leaves before the generator has started at all, whose slot stays
until it overflows; `connection.updated`, which is published without a commit;
heartbeats; the optimistic updates of the task store, of which one is worth a
note: the rollback of `remove` in `web/stores/tasks.ts` puts back the whole list
as it was before the request, over anything loaded meanwhile. The ASGI server
and the browser are outside the repository and modelled from how the code uses
them.

### Application

`file` is the SQLite file: the version its row carries and the set of structures
that the code looks for. "core" is one mark for the four tables of version 1.
`Verdict` is `_precheck` with the validators. `Migrate12` and `Migrate23` are one
transaction each; `CreateTable` commits table by table, as SQLite's DDL under
`create_all` does; `Stamp` writes the version row of a new database.
`Wire` is what `_init_task_pipeline` does between the return of `initialize()` and
its next await, `Resync` the awaits after it (the agent, and the resync of the
reminders). `Launch` to `Ready` are the steps of `CampusRuntime.start` in the full configuration (tasks,
reminders over OneBot, API). `up` is what runs, `owns` what the runtime's
attributes refer to, because cleanup stops only that: the adapter is known before
it is started, the engine only after `initialize()` has returned. `TakeDown`
is one step of `_cleanup_after_failure` or of `stop`; both follow `After`.

`Fail` may happen at any step of a start. `Interrupt` is a cancellation by Ctrl+C
at any await of start, of the running process or of the cleanup, except while the
API's task is awaited, where `except BaseException` swallows it. `Die` may happen
anywhere; only `file`, and the history variable `complete`, survive it. A fire
under way when the scheduler shuts down is waited for or cancelled: the comment in
`app/runtime.py:482` says it is waited for, but APScheduler's asyncio executor, which
is not in the repository, cancels. Either way it does not run on. HTTP requests in
flight when the API stops are not modelled.

### V1Reminders

`co[c]` is a coroutine: a request, a tool, an extraction or a resync, all of which
end in `schedule_for_task` (`Cancel`, `Clear`, `InsertRow`, `Arm`, `Store`), which
works on the snapshot of the task that it was given. `fire[j]` is the handler of
job `j`: it reads the task, pushes, deletes its row and writes the ids it read
before the push without its own. `row` and `task` survive a crash, `live` does
not. Nothing takes a lock, so any two of these steps may have others between them.

`next[j]` is the scheduler's next run of a job. The crontab has a minute, an hour, a
day and a month and no year (`v1/reminders.py:264-271`), so `NextRun` is the first
instant with that place in a year of `Year` ticks: for a reminder more than a year
ahead this is a year, or several, too early. Where the scheduler takes a run, the next one is
a year later. `SkipRun` is the misfire rule of `astrbot/core/cron/manager.py:266`:
a run found more than 30 s late (the loop was blocked, the host slept) does not
start, and job and row stay. It may happen to any run. `Tick` waits until every due
job was started or skipped: how late a run may start is in the choice between the
two, not in the clock.

`ListTasks` returns the `Limit` tasks with the soonest deadlines, overdue ones
included (200, `v1/store.py:161`), and `ListClosed` at most `ClosedLimit` closed
ones (1000). `Resync` is `resync_all()`, which sweeps every row it finds, of listed
tasks or not, and `ResyncUmo` is `resync_all(umo)`, which sweeps the rows of what it listed.

Assumed: a tick is at least `MIN_LEAD_SECONDS`, and requests and resyncs take less
than a tick, so no clock moves under them, even if the host sleeps; a push may take
longer. All tasks belong to one umo, so that one list is all there is to a resync.
Removing a job and its row is one step. A push is counted when it is attempted, at
the instant that its reminder is for or later. Left out: quiet hours, overrides of
the lead per task, the `deadline_reminders` switch as such (changing it is
`Resync`), calls before the scheduler is bound, failures of the cron manager.

`mixed`, `ever` and `lost` are history. `mixed` and `ever` are the tasks on whose
schedule two coroutines have worked at once, `lost` those that a resync swept
without listing them, or that a reminder was announced for a year early. The
module's comment promises that schedule and tasks never disagree, which does not
hold. The properties say that they disagree only about mixed tasks, and until the
next resync that meets nobody else; that a task in `lost` only lacks jobs; and that
no job outlives its instant but one whose run was skipped. What the code loses
there is refuted by configurations of its own (section 6).

## 3. Runs

| Run | Instance | Shows |
|---|---|---|
| `policy` | days of 24 ticks, every deadline of two days, 3 456 states | the hard invariants of the policy's docstring, fold, clamp and discard against a search over all instants, no silence for a far deadline, the collapse, and that a later replan adds nothing |
| `lifecycle` | one task, 2 mutations, an abort, a cancel, a crash, 1 604 600 states | one row per slot, the plan exists at rest, no slot is announced twice, what was closed stays silent, the resync leaves exactly the plan |
| `liveness` | a mutation, a deletion and a restore over ids that come back, 87 480 states | every lock is let go, every resync ends, no row is sent twice, no job outlives its row |
| `pipeline` | 3 deliveries of 2 messages, two at a time, an edit and a fault, 621 641 states up to symmetry | the pipeline implements `TaskBoard`, every task is accounted for, the lock is never left behind |
| `onebot` | 2 connections, 2 events, a fired reminder, 1 520 629 states up to symmetry | no action waits for a lost connection, success means answered, cleanup touches only its own, redelivery is dropped |
| `onebot_liveness` | 1 connection, 3 events, queue and slots of one, 117 058 states | every event is handled or cancelled by a shutdown, every send ends |
| `agent` | 4 turns, 2 threads, 2 sources, a table of one, 2 requests a turn, 88 785 states | proposals run once, in scope, never after a withdrawal; busy conversations stay; turns end |
| `claim_whole` | 3 turns | a request holds half a tool exchange |
| `stream` | one page, 2 connections in a row, 3 commits, 2 faults, 135 625 states | nobody registered misses an event, a dropped page is told, what was queued is shown in the end |
| `claim_refresh` | one commit, one fault | a page that connected again shows the old board |
| `v1_reminders` | two tasks, lists of one, a year of 2 ticks, 2 requests and a boot, 3 jobs, a crash, 746 717 states up to symmetry | unless two coroutines worked on a task at once, its schedule is what it implies (or, beyond the limit of a resync and after a reminder a year early, less than that) and each instant is announced once; only a skipped run recurs |
| `application` | all 144 files, no bounds, 3 653 states | what runs has what it uses, nothing is left after a failure or a stop, a complete database opens again after any crash, a foreign file is left alone unless it is a version 1 file with a structure of version 3, which gets the first migration and nothing more |

The two claims state what a document of the repository says, and fail; section 6
explains them. Twelve more configurations state such a claim and fail as well. They
are kept beside the runs and are not among them: `MCAgentSeen`,
`MCRemindersNoDeadline`, `MCRemindersResync`, `MCRemindersDeleted`,
`MCOneBotLinkNotice`, `MCV1Never`, `MCV1Limit`, `MCV1Year`, `MCV1Late`, `MCV1OneSet`,
`MCApplicationHalf` and `MCApplicationCreated`. Section 6 has one entry for each.

### Bounds and why they are enough

* *Policy*: a day of six hours of four ticks and a minute of two keeps apart what
  the code keeps apart: an hour has several minutes, the quiet window spans
  midnight, and the lead is shorter than an hour. Two days hold every position of
  a deadline with a fold into today and into tomorrow.
* *Reminders*: one task with two deadlines gives every overlap of an old and a new
  plan. A minute is two ticks, so that two intents of one deadline can fall on one
  minute and the collapse decides. `MaxFacts` of 5 leaves room for a plan and its replacement. Where the ids
  run out a creation does not happen; with these bounds that cuts only behaviours
  that have replanned already. In `lifecycle` the clock ends at 2, where
  the first trigger of either deadline is, so every overlap of firing and replanning
  happens; the reminder at the later deadline itself never fires. Two mutations
  are the least that close and reopen a task; one crash and one abort are the least
  that cut a plan in two and repair it. `liveness` has three ids, one plan, a
  deletion and a restore: enough for an id to be given to a second row while a
  handler of the first is alive.
* *TaskPipeline*: two deliveries in flight are the least that can both search
  before either inserts, and a third comes after a fault or an edit. With two
  courses and an unknown one `Clash` is not transitive. `Limit` of 2 with an
  edit that enters a task lets an old task fall out of the newest. One key
  suffices: different keys never meet. Messages and courses are symmetry sets.
* *OneBotLink*: two connections make one replacement and three make two that
  overlap, which `MCOneBotLinkNotice` needs. With a queue, a slot and a semaphore of
  one, three events are the least for which the reader waits for the queue, the
  queue for the handler, the handler for its answer and the answer for the
  reader; TLC reaches this state in `onebot_liveness`. A capacity of one for the
  dedup cache puts every second message at its edge. `onebot` declares
  connections, events and messages as symmetry sets; it has no liveness property.
* *AgentRuntime*: with a table of one, every second thread evicts. Four turns are
  the least for two turns of one thread side by side: one runs, one waits, one
  evicts, one comes back. Turns are numbered by arrival, which loses nothing
  since they are otherwise alike. Two requests a turn are the least for a
  proposal after an exchange. The safety properties were also checked once with
  five turns (1 598 221 states).
* *EventStream*: with a queue of two and a wire of one, three commits fill the
  queue of a page that does not read. Two connections make one reconnection; two
  faults lose the connection and a load.
* *V1Reminders*: a resync at start and a request coroutine are two coroutines
  that overlap; two requests may create, rebuild, close, reopen or delete a task or
  resync, and one crash cuts any of that. Two tasks and lists of one put a task
  beyond the limit; ids of tasks are a symmetry set. A year of two ticks with
  deadlines and leads up to three ticks apart has reminders of this year and of a
  later one. Three jobs are the two of one deadline and one of a rebuilt schedule,
  or those of two tasks.
* *Application*: nothing is bounded. The files are all sets of structures that a
  version row can stand beside, whoever wrote them.

Deadlock is checked in `application`, where the process can always be started
again. The other systems may stop, with every counter spent, the process
down for good, or nobody saying anything. That nobody waits for ever is
what the liveness properties say.

### Fairness and why the code justifies it

* *Reminders*: weak fairness of each coroutine's next step. The event loop runs
  what is ready and every database call returns. No fairness for users, crashes,
  aborts or restores.
* *OneBotLink*: weak fairness of each coroutine's next step and of the action
  timeout (`wait_for` in `_send_action`); strong fairness of taking the
  semaphore, because asyncio's semaphore serves its waiters in order; weak fairness
  of the end of a shutdown that was begun, which has a timeout. None for NapCat,
  which owes nothing: the liveness properties hold with a peer that never answers.
  `Transmit`, which takes the connection's send lock and writes the frame, is before
  the action timeout (`adapters/onebot/adapter.py:244-246`): that `conn.send` returns
  or raises, even to a peer that does not read, is assumed and not shown.
* *AgentRuntime*: weak fairness of a turn that was admitted. Provider requests and
  tools have timeouts, the lock wakes its waiters, and `max_steps` bounds the loop.
* *EventStream*: weak fairness of the publisher, of each generator, of each page's
  reading, of the answer to a load and of showing it. None for connecting, for
  commits and for faults.
* `pipeline`, `v1_reminders` and `application` check safety only.

## 4. Proofs

Each proof has the same three facts (initially, by every step, and the invariant
implies the property) and one step or lemma per action. The strengthened
invariants were checked by TLC before they were proved.

**`RemindersProofs`**, from `RemindersAssumption` and `PolicyAssumption`
alone (the counts are naturals, nothing bounds them; the lead is positive, as
`config.py:143` and `settings_service.py:80` require), for every number of tasks,
reminders, mutations, crashes and restores:

* `TypeCorrect`: `Spec => []TypeOK`.
* `NeverSentTwice`: `Spec => []RowSentAtMostOnce`. The count is of one row: a
  restore brings back the rows of the backup as new ones, so what was delivered
  since the backup may be delivered again. The invariant is not inductive:
  a handler between its claim and its delivery must know that its row was not sent.
  `ClaimInv` adds that a scheduled row was never sent, that a handler that has
  yet to claim works on such a row, and that a handler that owns a claim owns a
  closed row which nobody reopens. Lemmas about the operators that write the
  table (`CancelledForCloses`, `MarkCloses`, `CreateKeepsClaims`) reduce most
  actions to "only closes".
* `JobsAreDerived`: `Spec => []JobsMatchRows`. `JobInv` adds that the snapshot a
  replan is about to install agrees with the table too, that a deletion has
  removed the jobs before it removes the rows, and that a resync runs alone with
  a stopped scheduler. It holds until a restore, which replaces the rows before
  it replaces the jobs.
* `SlotsAreUnique`: `Spec => []NoDuplicateActive`. `SlotInv` adds that what a plan
  or a resync still has to create is not active yet.
* `ClosedTheorem`: `Spec => ClosedIsSilent`. By `HandlerInv` handlers pass the lock one
  at a time, each for a row that is there and due; one that started too late finds its row
  or its task closed, and none that did is past the two checks. It holds until a
  deletion, hence `IdsLast` in the property: SQLite gives the ids of deleted rows
  out again, and then the property is false (section 6).
* `ToldTheorem`: `Spec => SlotToldOnce`. `ToldInv` puts what was announced behind
  the clock; no active row stands for it, and no plan and no resync is about to create
  one. The same holds of what a handler is about to announce, but for its own row.
* `ResyncTheorem`: `Spec => ResyncExact`, restores and crashes included. `RepairInv`
  is about the middle of the repair: an active row stands for a plan or is about to
  be cancelled, and a planned slot has its row or is about to get one, whatever the
  tables held before. `StartInv` adds that nobody else works while a process starts.
* `CoverTheorem`: `Spec => []Covered`. By `CoverInv` what a task is owed has its row
  and job or, in the middle of its plan, its row or a place among those still to be
  created; a plan is computed from the task's present row, and the jobs about to
  replace the others include one for every active row. `Covered` asks for what is in `Owed` and not
  for the whole plan: when the reminder that goes before another in a
  minute has come too near to be planned, a plan made now has the other, but no plan
  made earlier did. TLC shows this with a minute of two ticks.

**`PipelineProofs`**, from `PipelineAssumption`, for any number of chats, messages,
courses, deliveries, edits and faults:

* `LockTheorem`: `Spec => []LockIsOwned`.
* `BoardTheorem`: `Spec => ImplementsBoard`, the refinement. `InsertInv` carries
  it: what a delivery found when it entered (no task of its message, none that
  clashes) is still so when it inserts, because every writer of the table holds
  the lock. The mapping is `Board == INSTANCE TaskBoard WITH ...` in `MCTaskPipeline`. The lemma `VisibleIsRead` relates the two windows: a task among the
  newest `Limit` of the board is among the rows that the search read.
* `AccountTheorem`: `Spec => []Accounted`. `RowInv` says what a delivery
  knows of the task it made before its row says it too (a fault alone keeps the two
  apart), `MakerInv` that every task of a message was made by one of its deliveries.

**`StreamProofs`**, for any number of pages, connections and events and any sizes:

* `StreamTheorem`: `Spec => []RegisteredIsServed`. It is nearly inductive; `Fresh`
  adds that a connection the server has not seen owns nothing, so that a
  subscriber starts with an empty queue.

**`ApplicationProofs`**, from `FilesAssumption`, for every set of files:

* `UsesTheorem` and `NothingLeftTheorem`, from one invariant in four parts:
  `ControlInv` (which state, goal and place go together), `OwnerInv` (what runs
  is referred to by an attribute, or is the engine of an `initialize()` that has
  not returned), `StartInv` (what a start has reached is up) and `StopInv` (what a
  stop has passed is down).
* `UpgradeTheorem`, from `FileInv`: a migration starts from a file that has what it
  relies on, and a complete file stays complete.
* `RefusedTheorem` (`RefusedIsUntouchedUnlessHalf`), from `RefusalInv`: a file that is
  not the program's passes the check only as a version 1 file with a structure of
  version 3; it is migrated once, and the second migration finds what it would
  create. `MCApplicationHalf` shows that the property is false without this case.

**`LinkProofs`**, from `LinkAssumption`, for any number of connections, events and
sends and any capacities:

* `WaitTheorem` (`WaitsOnActive`) and `OwnLossTheorem` (`OnlyItsConnectionFails`),
  nearly inductive: whoever takes or leaves the slot takes the pending actions
  along in the same step. `ActiveInv` adds that the slot never belongs to a
  connection that was not accepted yet.
* `AnswerTheorem` (`OkMeansAnswered`), from `AnswerInv`: an answer on the wire, one
  the reader has taken and one a send believes in were all given.
* `DedupTheorem` (`NotHandledTwice`), from `CacheInv`: the cache is the end of the
  sequence of what was let through, cut by the capacity and by the TTL.

**`AgentProofs`**, from `AgentAssumption`, for any number of threads, sources, turns
and conversations:

* `ReplayTheorem`, `ScopeTheorem` and `WithdrawnTheorem` (`NotReplayed`,
  `RunsInItsScope`, `WithdrawnNeverRuns`), from `PendingInv` (what is pending was
  made in that thread by a turn that has ended, and was neither executed nor
  withdrawn), `RunInv` (only the proposal of an ended turn is executed, once at
  most) and `ScopeInv` (who executes a proposal has the thread and the source of
  the turn that made it).
* `CapacityTheorem` (`TypeOK`), whose deep part is the capacity of the table of
  conversations: by `TableInv` every use was the admission of a started turn, and a
  new conversation takes a free place or that of one it puts out.
* `BusyTheorem` (`BusyIsNotEvicted`), from `LockInv`: a turn past the wait holds the
  lock of its conversation, alone.

**`PolicyProofs`**, from `PolicyAssumption`, for a day, a quiet window, offsets and a
lead of any length: all five properties of the run `policy`. The lemmas reduce an
instant to its place in the day, where the quiet hours are two intervals
(`QuietInDay`); `FoldIsAllowed` and `ClampIsLastAllowed` find the result of the
search there for the two branches of `Settle`. Two of the theorems assume that None is no number;
`FarDeadlineTheorem` assumes as well that the first reminder is a day or more
ahead (the code's default is a day), without which the quiet window may
swallow every intent.

**`V1Proofs`**, from `V1Assumption`, for any number of tasks, coroutines, leads, jobs
and crashes:

* `OnlySkippedTheorem` (`OnlySkippedRecurs`), from `FireInv`: a job that the scheduler
  and the table both have was not started and its next run is ahead, or its handler is
  about to delete it. `NextRunIsAhead` is the arithmetic of the year. `AheadInv` adds that what a coroutine has still to schedule is ahead, `ArmInv`
  that an inserted job belongs to one coroutine and was never started, `UnusedInv`
  that an id comes into use once. It needs no order between coroutines.
* `AgreesTheorem` (`AgreesUnlessMixed`). `SoundInv` holds whoever else is at work: what
  a coroutine or a handler carries, and what a row names, are jobs of the task
  concerned, which no job ever changes. `GoodInv` is about a task that is not mixed: it
  says how far the one that works on the schedule has got (`Scheduling`,
  `Resyncing`, `AtWork`, `Firing`), that this is one at most (`Alone`), and that the
  schedule is settled when there is none: complete, but for a task in `lost`, and
  with nothing else in it but skipped runs. In the middle (`Halfway`) each planned
  instant is either left to do or has its job.
* `ToldOnceTheorem` (`ToldOnceUnlessMixed`), from `ToldInv`: a job that can still
  announce its instant has not announced it, nor has another, and what was
  announced lies behind the clock.

Every invariant and every action property of the passing runs is stated by a
theorem. Only model-checked are the properties that need fairness: `LocksAreReleased`, `ResyncEnds`,
`TurnsEnd`, `EventsAreHandled`, `SendsEnd`, `DroppedIsTold` and `Informed`. Liveness
under fairness, ENABLED and induction over recursive data are out of the prover's
reach and stay with TLC.

## 5. Hazards

`PROJECT.json` lists every place where this code can go wrong in a way that a
test would hardly reach, with the properties that cover it. Six have none:

* `services/reminder_service.py:310`: a task that is completed between the
  handler's reading and its delivery is still announced. The window is a
  transaction and a network call wide and no code could close it altogether, so
  `ClosedIsSilent` is about what was closed when the handler started.
* `agents/runtime.py:257`, `v1/api/routes.py:126`, `v1/reminders.py:563`,
  `storage/database.py:399` and `storage/database.py:424`: the code does not have
  the property. Each is stated and refuted by a configuration (`MCAgentSeen`,
  `MCV1OneSet`, `MCV1Never` and `MCV1Limit`, `MCApplicationHalf`,
  `MCApplicationCreated`). `AgreesUnlessMixed` and `RefusedIsUntouchedUnlessHalf`
  excuse what these show, and say that it goes no further.

## 6. Where the code and its documents disagree

Shown by a run of the list:

* **Half an exchange.** When the model calls several tools in one response and one
  before the last needs a confirmation, `_run_loop` has appended the assistant
  message with all of the calls (`agents/runtime.py:390-392`) and returns with
  some unanswered. Every later request of the thread contains them.
  `agents/conversation.py:6` and `agents/budget.py:9` promise that this never
  happens. (`claim_whole`)
* **No refresh.** `web/composables/useSse.ts:10-11` connects again and loads
  nothing; `docs/v2/11_API_SPEC.md:83` and `docs/v2/12_WEB_UI_SPEC.md:87`
  require it. The page shows the old board until the next event. (`claim_refresh`)

Shown by a configuration beside the list:

* **A reminder without a deadline.** A PATCH that moves a pending task to
  `pending_confirm` and clears its deadline in one call matches no branch of
  `update_manual_task`; neither does the PATCH back to `pending`. The reminders
  planned for the old deadline stay and fire. (`MCRemindersNoDeadline`)
* **A restart cancels.** The resync plans with the lead of a first plan, so a
  reminder that is due within the lead of the restart is no longer desired, and
  its row is cancelled. (`MCRemindersResync`)
* **An id comes back.** A handler waiting for the fire lock on behalf of a deleted
  reminder reads the row that has its id now and delivers it before its time.
  (`MCRemindersDeleted`, which states `ClosedNeverDelivers`)
* **A late notice.** `_handle_connection` announces "connected" after it awaited
  the close of its predecessor, without asking whether it still owns the slot;
  with two overlapping replacements the notice comes last although nobody is
  connected. (`MCOneBotLinkNotice`)
* **A confirmation in advance.** The text of a turn that waited for its thread's
  lock is taken as the decision on the proposal the previous turn has just made.
  (`MCAgentSeen`)
* **V1 can disagree.** `v1/reminders.py:29-31` says that schedule and tasks never
  disagree; two coroutines on one task leave jobs that its row does not name. The
  reason given at line 582 is inaccurate as well. (`MCV1Never`)
* **V1 loses reminders beyond 200.** `resync_all()` sweeps every reminder row and
  schedules again what `list_tasks` returned, the 200 open tasks of a umo with the
  soonest deadlines (`v1/store.py:161`); overdue tasks that nobody closed count
  and come first. `v1/reminders.py:29-33` says that no task silently misses its
  reminder. (`MCV1Limit`)
* **V1 reminds a year early.** The pinned crontab has no year, so a reminder more
  than a year ahead runs at the first such minute, deletes itself and does not
  come again. (`MCV1Year`)
* **V1 reminds a year late.** A run that is skipped as too late
  (`astrbot/core/cron/manager.py:266`) leaves its job, and the crontab is due
  again a year later. `v1/reminders.py:39-41` says that a handler deletes its own
  job and that one that never fires is inert after a restart: until a restart or
  the next rebuild of its task's schedule it is not. (`MCV1Late`)
* **V1 can announce in two sets.** `v1/api/routes.py:122-126` searches for a
  duplicate and creates the task in two transactions. (`MCV1OneSet`)
* **A half-migrated file.** `storage/database.py:16` promises zero mutation of a
  file that is refused. A version 1 file that has a structure of version 3 is
  migrated to version 2 and committed before the check that refuses it
  (399-401). No version of the program writes such a file. (`MCApplicationHalf`)
* **A crash in creation.** The docstring at `storage/database.py:389` calls
  initialization idempotent. A process that dies between `create_all` and the
  version row leaves tables that every later start refuses. (`MCApplicationCreated`)

Met while reading, not modelled:

* the order of the shutdown in `docs/v2` (bus, adapter, scheduler) is not the
  code's (API, scheduler, adapter, bus, database); `UsesAreUp` needs the code's;
* the module docstring of the context buffer (`tasks/context.py:4-7`) says
  that rejected messages are observed; they are dropped before;
* `time_normalizer` raises `ValueError` for an hour of 24 or a minute of 60, and
  `tasks/pipeline.py:181` lets it escape, against `time_normalizer.py:12` and
  `docs/v2/10_TASK_PIPELINE.md:107`;
* the comment on `PipelineOutcome` lists `normalization_error`, which no code
  returns;
* `app/runtime.py:482` says that the scheduler waits for deliveries under way;
  see `Application` in section 2.

Two observations that no property states: the reader of a
connection blocks in `bus.publish` behind handlers that wait for answers on that
same connection, so that only the action timeout lets it go on; and an eviction
in the instant in which a lock is passed on leaves a turn working on a
conversation outside the table. The second is at odds with the docstring of
`_conversation_for_thread`, which says that active state cannot be removed
underneath a provider exchange; `BusyIsNotEvicted` is the part of it that holds,
and the other properties of the `agent` run hold although the rest does not.

## 7. Not modelled, and the plan

The repository has about 155 000 lines of implementation, of which some 135 000
are the AstrBot fork that V1 runs in, with its dashboard and platform
adapters. They are another project's code and no part of CampusCue's logic; V1's use
of the cron manager is modelled, the rest is not. Of CampusCue itself these parts
are left out:

* routes, sources, providers, settings and connection services: single-row reads
  and writes under one transaction each, no protocol of their own;
* parsing and validating model answers, prompts, HTTP clients of the providers,
  OneBot frame conversion: functions from text to records, for which a bounded
  check over strings would say nothing that the tests do not;
* the deadline phrase normalizer: a function of one phrase and an instant, all of
  it calendar arithmetic and pattern matching on text;
* sizes of the history and the token budget: `AgentRuntime` keeps which turns may
  be dropped and not how many;
* backup files and the import's validation: `Reminders` has what a restore does
  to the tables and jobs;
* the views of the web interface, installers, release scripts;
* the rest of V1: its extraction and its web API are thin around the database.

Next, in this order:

1. an abstract specification of sending (an action is asked, then ended once, with
   success only after an answer), implemented by `OneBotLink`;
2. an abstract specification of the reminders of one task, implemented by
   `Reminders` while nothing is restored.
