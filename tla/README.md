# A verification of SS_bot in TLA+

SS_bot runs the tasks of an organisation over Telegram: a manager issues a task
to members, the members hand in a report with photos, a leader accepts or
returns it, a worker creates and later deletes a Telegram supergroup for every
group task, and the records of an event are kept for a year. This directory
holds TLA+ models of its concurrent core, the TLC runs that check them, and
TLAPS proofs. Paths below are relative to the repository.

## 1. The system

Three processes share one PostgreSQL database (READ COMMITTED, one session per
request, `expire_on_commit=False`, `db.py`): the HTTP API (`apps/api`), the bot
(`apps/bot`, which calls the API's route functions directly in sessions of its
own) and a Celery worker with beat (`apps/worker`, prefork, so runs of one
periodic job can overlap). Outside are Telegram (MTProto service account and Bot
API), an S3 store for photos, and Redis as Celery's broker.

| Component | State | Operations | Interacts through | Hard part | Correct when |
|---|---|---|---|---|---|
| Report review (`routers/reports.py`, bot report handlers) | `task_reports`, `task_photos`, status and times of `tasks` | submit, comment, request/confirm/delete photo, approve, return | row lock of the report, unlocked row of the task | stale reads, first report created twice, photo limit | report and task agree; a handed-in report is frozen; completion is final |
| Task lifecycle (`routers/tasks.py`, `services.py`) | `tasks`, `task_members`, checklist | create, update, cancel, delete, members, checklist | all of the above, cascades, outbox | unlocked read-then-write | closed stays closed; deletion loses nothing |
| Deadline job (worker) | `tasks.status`, notifications | overdue, due soon | `FOR UPDATE SKIP LOCKED` on tasks | races every request | it never undoes what a report did to the task |
| Outbox (worker `_process_outbox`) | `outbox_events` | lock a batch, handle, count attempts, give up | handlers commit in sessions of their own | crash between handler and bookkeeping | every event settles; no effect is forgotten |
| Working group (worker, `routers/tasks.py`) | `task_chats`, groups in Telegram | provision, recover, refresh brief, retry | outbox, cleanup, deletion of the task | group created before its id is stored, lost answers, overlapping runs | one group per task; the card never waits for nothing |
| Group cleanup (worker `_process_cleanup`) | `task_chats.status`, warning | warn, verify, delete | no row lock on selection | overlapping runs, crash after deletion | the group disappears when due |
| Group membership (worker, bot `membership_changed`) | `task_chat_members` | invite, join, leave, remove, remind, reconcile | outbox, bot updates | events applied out of order, dropped invitations | who is a member is in the group, who is not is out |
| Notifications (worker) | `notifications` | queue, send, retry | every handler writes rows | crash repeats a batch | each is sent or given up |
| Archive retention (`routers/events.py`, worker) | `events.retention_delete_at`, warning, purge | refresh, extend, warn, purge | tasks closing concurrently, cleanup | stale maximum, purge against extension | nothing is purged early, and in the end it is purged |
| Photo storage (`storage.py`) | objects | put, delete, verify | report handlers, cleanup, purge | objects and rows are not atomic | no row without objects unless a deletion began |
| Users and sectors (`routers/admin.py`, `users.py`, `sectors.py`) | `users`, `sectors` | register, activate, change role or sector | every request reads the actor | unlocked read-then-write | an administrator remains |
| Bot dialogues (`handlers/core.py`) | FSM state and data per chat, in memory | wizards, questions, /cancel | calls the routes | handlers of one chat overlap, restarts | a wizard ends with one valid task; an answer goes where it was asked |

The hazards these parts are exposed to are listed with their lines in
`PROJECT.json`.

## 2. The modules

| Module | What it is |
|---|---|
| `ReportReview` | abstract specification: what the report API promises, three variables |
| `TaskReports` | one task and its report under concurrent sessions, the deadline job and the clock |
| `MCTaskReports` | its constants for TLC and the symmetry |
| `TaskReportsProofs` | types, the photo limit, frozen reports |
| `TaskReviewProofs` | retention, decisions, task and report, the implementation of `ReportReview` |
| `Outbox` | abstract specification: an at-least-once queue, four variables |
| `TaskChats` | the working group of one task: outbox runs, cleanup runs, managers, Telegram |
| `MCTaskChats` | its constants for TLC and the symmetry |
| `TaskChatsProofs` | types, no silent stall, the number of groups |
| `TaskOutboxProofs` | the implementation of `Outbox` |
| `ChatMembers` | one user and one group: invitations, links, removals, updates, jobs |
| `MCChatMembers` | TLC's instance of it |
| `ChatMembersProofs` | types, one way in |
| `EventArchive` | the tasks and photos of one event, its retention, cleanup and purge |
| `MCEventArchive` | TLC's instance: a task with a group and a photo, a task without |
| `EventArchiveProofs` | purge, archive, cleanup and types |
| `BotDialogues` | the dialogues of one manager with the bot |
| `MCBotDialogues` | its constants for TLC: which dialogues a behaviour mixes |
| `BotDialoguesProofs` | types, questions, what a wizard gathers and records |

### TaskReports

A request is a session that passes the points `idle -> (preloaded) -> lock ->
(insert) -> write -> idle`. At each point the code waits for the database, and
any other session may run. The correspondence:

| Model | Code |
|---|---|
| `task`, `report`, `photos`, `queued`, `retainUntil` | committed rows: `tasks`, `task_reports`, `task_photos`, types of `notifications`, `events.retention_delete_at` |
| `seen[s]`, `row[s]` | the `Task` and `TaskReport` objects in the session's identity map |
| `lock` | the row lock of the report, or of the uncommitted insert of it (`task_id` is unique) |
| `RequestReportEdit`, `RequestDecision`, `RequestTaskChange` | `require_task_member` / `task_for_manager` and the status check of each handler |
| `Preload`, `ContinueBotRequest` | `report_submit` and `report_photo_delete` of the bot, which load the report first |
| `LockReport`, `FindNoReport`, `InsertReport` | `get_or_create_editable_report(lock=True)` and the `with_for_update` of the other handlers, with every check that follows |
| `SubmitForApproval` ... `DeleteTask` | the assignments and the commit of each handler |
| `Refuse`, `Abort` | `HTTPException`, constraint violation; lost connection or storage failure |
| `MarkOverdue`, `RemindDeadline` | the two halves of `_process_task_deadlines` |

Two facts about SQLAlchemy carry the model. A commit writes only the columns
whose value differs from the loaded one (`FlushTask`, `FlushReport`), so a stale
object overwrites some columns and leaves others. And `SELECT ... FOR UPDATE`
returns the object already in the identity map without refreshing it
(`LockedRow`), so a check after the lock may be a check of an old row.

### TaskChats

A run of `process_outbox` locks a batch of due events, handles them in order,
and commits the bookkeeping at the end; the handler of an event walks through
`create -> flush -> configure -> commit` (or `brief`). A run of
`process_cleanup` walks through `verify -> delete -> commit`. `seen` and `mine`
are the `TaskChat` object as loaded and as changed; `rowLock` is the row lock an
uncommitted flush holds. Telegram is the set `live` of groups that exist and the
set `Fault` of what may go wrong. A `Crash` ends a run at any point: what it has
not committed is lost, what Telegram has done is not.

`Outbox` is what a writer of events may rely on, whatever they are about: runs
`Lock` some pending events, end with them one after the other (`HandlerEnds`),
and `Book` what came of it, or `Lose` it all. `Queue` in `TaskChats` maps the
model to it: an event counts as handled once the transaction of its handler is
over (`current` has left it), not when its outcome is known.

Abstracted: members, invitations and the brief are the outcome of
`configure_task_chat`; retry delays only make an event due or not, so here it
may be taken or left; the task itself is `open`, closed with the cleanup `far`,
`soon` or `due`, or `gone`.

### ChatMembers

Where `TaskChats` folds the members into one outcome, this module follows one
of them. `entry` is the committed row of `task_chat_members`; `presence`,
`links` and `updates` are Telegram's. A run of `process_outbox` takes one event
and walks through `insert -> revoke -> invite -> link -> notify -> commit ->
book` (`invite_task_chat_member`) or `kick -> commit -> book`
(`remove_task_chat_member`). Because retries are delayed by growing intervals,
any pending event may come next.

| Model | Code |
|---|---|
| `StartConfigure` | the members' part of `configure_task_chat` (CREATE and RECOVER events) |
| `PostponeInvite`, `FinishEvent` | `working_group_not_ready`, attempts and giving up in `_process_outbox` |
| `InsertEntry` ... `SendLink` | the statements of `invite_task_chat_member` between two waits |
| `LoadUpdate`, `CommitUpdate` | `membership_changed` of the bot: it reads the row, and commits later |
| `RemindInvited`, `ReconcileMembers`, `CommitJob` | the two jobs; they lock the row until they commit |
| `LoseUpdate` | a handler that fails or is cut off by a restart: aiogram does not deliver the update again |
| `named`, `ChangeUsername` | whether the service account finds the user (`USERNAME_NOT_FOUND` in `client.py` if not); the bot stores usernames in `sync_telegram_user` |
| `known` | `telegram_chat_id` is committed, which `provision_task_chat` does only after it has invited everybody; a removal before that writes no event |
| `AddMember`, `RemoveMember`, `RetryMember`, `RecoverChat` | the routes in `routers/tasks.py` |
| `Moves`, `NewLink`, `private` | external: Telegram, as `client.py` uses it |

`Merge` is the rule that a commit writes only the columns that differ from the
loaded ones, so a handler of an update and a run of the outbox can each write a
part of the row. `missed`, `kept`, `stray`, `overlap` and `lost` are not in the
code: they remember that an invitation was given up or never requested, that a
removal was, that a link was sent that no row names, that two runs overlapped,
and that the update of a departure was lost. A user the service account does not
find is always sent a link, also when in the group already, is never removed,
and neither job learns anything about this user. A user may be deactivated; that
one is activated again is left out, as is a username that has passed to somebody
else.

### EventArchive

The row of the event has the columns `deleteAt`, `extended`, `warned` and
`purged`. A request that closes or deletes a task reads the event and the
closures that are committed (`refresh_event_retention`), and writes when it
commits; of two that overlap neither sees the other's closure. The retention job
holds `FOR UPDATE` from its look at the limit to its commit (`StartPurge`,
`PurgeObject`, `CommitPurge`); the cleanup job holds the row only if its refresh
changed a column, which the next query flushes (`StartCleanup`). A photo is two
objects and a row: the actions `SaveOriginal`, `SavePreview`, `CommitPhoto`,
`UndoSave` and `DropOriginal`, `DropPreview`, `DropRow` are the steps of
`report_photo_save`, of the presigned upload and of `delete_report_photo`, and
each may fail (`SaveFails`, `DropFails`). `PartsOf(p) \subseteq objects` is what
`archive_is_persisted` asks of a photo.

`chat` is the status of a group as far as the cleanup looks at it: READY and
CLEANUP_PENDING groups are selected, every other one is `unready` until its
recovery is configured (`DegradeChat`, `RecoverChat`, `ConfigureChat`). The
cleanup writes a status when it differs from the one it loaded
(`CommitCleanup`), over whatever is there by then.

`torn` and `condemned` are not in the code: the photos a member, and the
retention job, began to delete and did not finish.

### BotDialogues

aiogram runs every update in a task of its own and evaluates the state filter
when it dispatches it; the FSM storage is a dictionary in memory that never
yields. So a handler is suspended only where it awaits the database or Telegram,
and `flight` holds the suspended ones. `ResumeX` is what the handler `X` does
after that wait; a handler that does not wait before it is done with the
dialogue is one action (`Prompt`). The last answer of a wizard and the answer to
a question walk through `sync` (the user is looked up), `work` (the data is
read, the route is called) and `clear` (the record is committed,
`state.clear()` is still to come). `AnswerHttpError` ends either with nothing
recorded; `CommitReplyLost` is a commit that was carried out though it raised:
the record is there and so is the dialogue. `Restart` forgets the dictionary and
the handlers.

The data of a dialogue has the fields the code keeps (`title`, dates, `kind`,
the people and the leader, `task_id`, `event_id`, `admin_sector_user_id`), those
that only have to be there as booleans, and three that are not in the code:
`pass`, the wizard the data belongs to; `asked`, what the last question was
about; `late`, whether a handler changed the selection after it was over, or
led back to the wizard without a title. `doubts` counts the lost answers of
commits.

## 3. The runs

| Run | Shows |
|---|---|
| `TaskReports_all` | two sessions with all twelve operations and the deadline job: types, the photo limit, retention after every closure, decisions only on submitted reports |
| `TaskReports_review` | three sessions with the report operations of the API and deadline changes: a handed-in report is frozen, task and report agree, completion is final, `ReportReview` is implemented |
| `TaskReports_live` | with a deadline that passes and the job that marks it: every request ends, a deletion included, and the task still tells the state of its report |
| `TaskChats_all` | all operations, all faults, one crash: types, and no chat is left saying "being created" with nothing to change it |
| `TaskChats_one_group` | one group per task when nobody retries by hand, no answer is lost and nothing crashes; two workers, two cleanups, two managers, whose events and deletions `Outbox` allows |
| `TaskChats_live` | every event is processed or given up, as `Outbox` allows, a crash included; a recorded group disappears once due unless its configuration failed |
| `ChatMembers_live` | a member of the task ends up in the group, with a link, or with a row that tells the manager; who is removed ends up outside; the row of a user the jobs find becomes right, also when a join overtakes it or its update is lost; one link at most lets the user in |
| `EventArchive_all` | nothing is purged before it was due; photos of the archive can be read; a group outlives its unverified archive; the retention ends up covering every closure of a task whose group the cleanup looks at; what is due is purged |
| `BotDialogues_all` | a wizard ends with a task `create_task` accepts unless a handler came too late; it creates one record, and one more for a commit whose answer was lost, unless two last answers are handled at once; an answer goes to what was asked about; with overlapping handlers, cancellations and restarts |

Three runs expect a violation: each checks a sentence of the repository that the
code does not keep.

| Run | Sentence | What happens |
|---|---|---|
| `TaskReports_stale_submit` | "Submitted report can no longer be edited" (`reports.py:71`) | the bot's submit button checks the report it loaded before the lock (`core.py:1856`), so a report that was handed in and approved meanwhile is set back to submitted; the comment it passes on is the one it loaded, which writes nothing. Its photo deletion loads the report early too (`core.py:1839`) |
| `TaskReports_cancel_race` | "Task cannot accept a report" (`reports.py:151`), "Task is already closed" (`tasks.py:509`) | submission and cancellation overwrite one another's status |
| `TaskChats_crash_group` | "Reprocessing does not create another task chat" (`docs/architecture-decisions.md`, ADR-002) | a crash between the creation of the group and the commit of its id |

### What the passing runs leave out, and why

Each restriction of a run is a race the model has and the code loses, so the
property is stated where it does hold:

- `TaskReports_review` has no bot preload (see `TaskReports_stale_submit`), no
  cancellation (`TaskReports_cancel_race`) and no `delete_task`, which checks for
  a report and deletes later: a report created in between goes with the task.
  It stops the clock; `TaskReports_live` runs it, with the deadline job between
  any two steps of a request. It leaves out the bot's submission, which preloads.
  `FrozenTheorem` shows that cancellation is harmless to a frozen report.
- `cleanup_at` is computed from the deadline read before the row lock was waited
  for (`reports.py:177`), so an extension meanwhile does not move it.
- `TaskChats_one_group` has no manual retry: `retry_task_chat` during a
  provisioning adds a second event, another run of the outbox handles it, and
  both create a group. Nor has it crashes or lost answers.
- `delete_task` checks for a group, then waits for the worker that has locked the
  event; when it goes on, the group has been created, and survives the task.
- `GroupIsDeleted` excepts DEGRADED: `process_cleanup` selects READY and
  CLEANUP_PENDING only. `TaskChats_live` has no refusal to delete, where the
  group stays by nature, and no retry, after which the row may name another group.

- `WizardIsAccepted` excepts `late` data. A tap on the people picker looks the
  person up and then writes the selection (`core.py:1035`), also when the
  selection was ended meanwhile; and the handler of the description sets the
  state of the wizard whatever it is by then (`core.py:834`), also after a
  cancellation. The wizard then ends with a task `create_task` refuses.
- `OneRecordPerPass` excepts a last answer sent again while it is being handled:
  the idempotency key is drawn anew in every call (`core.py:1145`).
  And it allows one more for each commit that was carried out though it raised:
  the manager is shown an error, the dialogue stays, and the next answer has a
  new key.
- `AnswersGoWhereAsked` excepts a question put while the answer to another is
  between its dispatch and its read of the data, and the tap on an event button
  in that time, which writes the key the answer about a retention reads
  (`core.py:844`, `core.py:2512`). The two meet when a late description puts the
  retention dialogue back at the event question.
- `AssignedAreReached` ends in FAILED or REMOVED rows too: a removal that was
  delayed by retries is carried out after the member was added again. It excepts
  invitations that were given up or never requested (a member added while the
  group is being configured), and two rows that keep a member out for good. One
  says JOINED, wrongly, of a user without a username: the reconciliation is
  answered `USERNAME_NOT_FOUND` and changes nothing (worker `tasks.py:673`). The
  other says INVITED though the link is used up, after the update of a departure
  was lost: the reconciliation looks for departures of JOINED members only.
- `StrangersLeave` is about users the service account brought in, with a row: a
  removal that finds no row is done at once, and who joined by a link that was
  sent before the removal is not removed again. It excepts a removal that was
  given up or refused, that of a user without a username (`client.py:173`), and
  that of a member while the group is provisioned for the first time: no event
  is written, since the id of the group is not committed (`routers/tasks.py:422`).
- `RowsAreReconciled` is about users the service account finds. The row of
  another one can stay INVITED after a join that overtook its commit.
- `OneWayIn` and `StrangersLeave` except overlapping runs of the outbox, which
  send two links or kick somebody another run is about to bring in.
- `RetentionSettles` is about tasks with a group the cleanup selects. Without
  one, or while it is DEGRADED, nothing recomputes the retention after two
  closures overlapped.
- That a status is overwritten when two cleanups, or a cleanup and a recovery,
  overlap is in the models; no property forbids it, and `TaskChats_live` has one
  cleanup only.
- In `TaskChats` a handler of the outbox fails inside its `try`, and its last
  commit succeeds or the process dies; a database error before the `try`, or in
  the commit of its `finally`, is left out (worker `tasks.py:356-391`).
- `ArchiveIsReadable` and `GroupNeedsArchive` except photos whose deletion
  began: the objects go before the row, in `delete_report_photo`, in the
  compensation of the bot, and in the purge.

### Mutants

Every property of a passing run has a mutant: a plausible slip in one modelled
definition, kept before it in the module (its comment says "Mutant"), under which
TLC finds the property violated.

### Bounds, and why they are enough

- *Sessions.* A race needs the session that read and the one that wrote; two
  cover it. `TaskReports_review` takes three, so that a third can find the
  report another has just created while a second waits for its lock.
- *Photos and limit.* Two photos with a limit of one put a session at the limit
  with one more to add (five in the code). The proof covers every limit.
- *Clock.* `MaxTime` 2 with a deadline of 1 gives a time before, at and after the
  deadline; in the violation runs a second deadline, 4, can be set.
  `TaskReports_review` stops the clock: its properties do not read the time.
- *Attempts.* Two instead of eight: a first failure, and a last one.
- *Events, groups.* Two events are the first and one that a manager adds; a
  second group is what `AtMostOneGroup` is about, so `MaxGroups` is two.
  `NoSilentStallTheorem` covers any number of each.
- *Crashes.* One: the run after it finds what it left. The proof has no bound.
- *Cleanups.* Two overlap in `TaskChats_one_group`. `TaskChats_live` has one, next to
  two workers, a crash and a manager: liveness is checked without symmetry.
- *ChatMembers.* Two runs of the outbox, one handler of updates, `MaxAttempts` 2,
  two edits by managers (one once runs have overlapped: `MaxOverlap`) and one
  incident (an error, a crash, a join, a departure or a new username), with every
  order of the events that come of them, and any update lost. More of either goes
  beyond what the time of a run bears; with a single run of the outbox, two edits
  and two incidents are 1.7 million states, and all five properties hold. Which
  idle run starts is immaterial (`NextRun`). `MaxLinks` 4 is never used up
  (`NewLink` takes a number nobody refers to).
- *EventArchive.* A task with a group and a photo and a task without give every
  pair of closure, deletion, extension, upload, cleanup and purge. `Retention` 3,
  one day of warning, closures until day 2 and an extension to day 5 put closures
  on both sides of each other and the purge before and after an extension.
  `CleanupDelay` 3 says that requests take less than two ticks, as the proof
  assumes too (the delay is at least a day, a request takes seconds). Two faults
  let the second strike what makes up for the first.
- *BotDialogues.* Two handlers at a time, two people, two targets and two wizards
  are a dialogue and the one that disturbs it. Each of the `Menus` is what the
  behaviours of one initial state mix: the two wizards, each wizard with a
  question - issuing a task with the one that reads the key its event buttons
  write -, questions that share a key of the data, and questions that do not.
  Beside a question one wizard is started (`MaxBeside`); with two, the module has
  4.5 million states, and the four properties hold. One commit loses its answer
  (`MaxDoubts`); the proof has no bound.

`CHECK_DEADLOCK FALSE` stands where the system may stop: a closed or deleted
task accepts nothing more, and the bounds on days, edits and wizards end a
behaviour.

### Fairness

`TaskReports!Fairness`: PostgreSQL queues sessions that wait for a row lock, so
a session that can go on again and again does go on (strong fairness of
`Proceed`). No user is obliged to start a request, and no property needs the
deadline job to run. `TaskChats!FairSpec`: beat
starts both jobs every minute and a started run goes on unless it crashes (weak
fairness); managers, crashes and the course of the task are under no obligation.
`ChatMembers!FairSpec`: beat starts the outbox and the jobs and the bot handles
the updates it does not lose, so some process goes on while one can (weak
fairness of `Progress`); that an update is delivered is not assumed, since every
one may be lost. Managers, the user and crashes are under no obligation.
`EventArchive!FairSpec`: requests and uploads that have begun end, the daily
retention job and the cleanup of each group are started again and again, days
pass; nobody has to close a task, extend the retention or touch a photo.

## 4. What is proved

Every safety property of the passing runs is a theorem, invariants, action
properties and the implementations of `ReportReview` and `Outbox` alike. Assumptions on
constants are the named ones of the modules: sets are disjoint from their null
values, bounds are natural numbers, there is a task and a day (`EventArchive`),
and the bound on edits where runs overlap is within that on edits
(`ChatMembers`). The theorems that hold for some operations only say so in their statement:

| Assumption | Says | Needed because |
|---|---|---|
| `FreshOps` | no `report_submit` or `report_photo_delete` of the bot, no `delete_task` | `TaskReports_stale_submit` |
| `ReviewOps` | `FreshOps`, and no `cancel_task` | `TaskReports_cancel_race` |
| `OneCreator` | no manual retry, no lost answer of Telegram | both lead to a second group |
| `MaxCrashes = 0` | no crash | `TaskChats_crash_group` |

The runs `TaskReports_review` and `TaskChats_one_group` are instances of these.

### Types

- `TypeCorrect`, `ChatTypes`, `MemberTypes`, `ArchiveTypes`, `DialogueTypes`: the
  type invariants. Most are not inductive alone. `ChatTypes` needs `EventsInv`,
  because attempts stay within the maximum only if an event is held by one run
  and is unprocessed while it is. `MemberTypes` needs `RunsInv`: an event a run
  holds has attempts left, and a run about to send a link has created it.
  `ArchiveTypes` says too that a date of deletion lies a retention period after a
  closure, and that a photo in the archive belongs to a reported task: `RowsDated`
  says the former of every copy of the event that a request or job is about to
  write, `TasksStay` that the task of a request or an upload is not deleted
  meanwhile. That the latest of some closures is a closure (`MaxOfDays`) is an
  instance of well-founded induction on the natural numbers.

### Reports

- `PhotoLimitTheorem`: the limit holds for any number of sessions. The limit is
  not inductive: a session at `write` adds a photo without counting again. `PhotoInv`
  adds that the session about to write, and no other, holds the row
  (`LockHeldByWriter`), and that the room it counted is still there (`RoomKept`).
- `FrozenTheorem`: if the clients neither preload the report nor delete the task
  (`FreshOps`), a handed-in report keeps comment and photos and an approved one
  never changes. The invariant says that the object a session holds at `write` is
  the stored row.
- `RetentionTheorem`: the records are kept long enough after every closure, with
  every operation, bot and deletion included. It is inductive with the types: a
  commit writes only some columns of the task, but who closes it computes the
  retention from the row as all commits together left it (`RetentionCovers`).
- `DecisionTheorem`: a decision meets a submitted report, again with every
  operation. `ReadsInv` is the reason: a decision never begins with a report in its
  identity map, so that the row it checks is the committed one (`HeldReport`),
  and the kind of a task, read without a lock, does not change (`KnowsKind`).
- `StoryTheorem`, `CompletedTheorem`: task and report agree, and completion is final.
  The row of the task is not locked, so `StoryInv` must say why a stale task does
  no harm: what a request checked holds of the task as it saw it (`SeenInTime`);
  the lock of the report says that the report has not moved since; and
  `TaskFollowsReport` itself carries that over to the task as committed.
- `ReviewTheorem`: `TaskReports` implements `ReportReview`. `CommitOutcome` says what a
  commit can be - a report handed in, edited, decided, or a deadline moved - and
  `ReviewStep` maps each to its action of the abstract module or to a stutter;
  the photos come from `PhotoInv`.

### Groups

- `NoSilentStallTheorem`: for any number of runs, managers, faults and crashes.
  `NoSilentStall` is not inductive, since a pending event may be about to be
  booked as done. `ChatInv` names an event that *will settle* the chat: it is
  unprocessed, provisions, and the run that handles it, if any, started from a
  stalled chat, so that its commit writes the status (a commit writes only what
  differs from what was loaded). It rests on one run at a time holding an event
  (`EventsInv`), on `delete_task` waiting for a locked event, and on no run
  committing PENDING or CREATING (`HandlerInv`).
- `CrashTheorem`, `OneGroupTheorem`: under `OneCreator` every group but one has cost a
  crash; without crashes there is one. That is more than `TaskChats_one_group`
  asks, and says that the crash of `TaskChats_crash_group` is the only cause left.
  `GroupInv` adds that the first event stays the only one that creates
  (`FirstEventCreates`), that no commit takes a group off the row
  (`GroupIsKept`), and that a group beyond those paid for is recorded or carried by
  the run that handles the first event (`GroupsPaid`).
- `OutboxTheorem`: `TaskChats` implements `Outbox`, for any number of runs, managers,
  events and crashes. That two runs never have the same event is `EventsInv`; that
  a run handles its events in the order they were written, and books none
  without an outcome, is `LeaseInv`: an idle run holds nothing, and the event at
  hand is older than those it still has to handle. Deletion withdraws events
  only while no run has one.
- `OneWayInTheorem`: one usable link at most. `WayInv` follows the link: it is the one
  the row names, or none between revocation and sending, or the one of the
  only run at work; the jobs and the bot write the row without touching its link.

### Archive

- `PurgeIsDue`: the retention job deletes objects only while the committed event
  says they were due when it looked, for any number of requests and faults. The
  inductive part `LockInv` is that the cleanup job and the retention job never
  hold the row together, so that nothing is committed to it meanwhile.
- `ArchiveReadable`: a photo in the archive that nobody began to delete has both
  objects. `PhotoInv` says which objects a member at each point of an upload has
  stored, that a photo being added has no row and is not among those the
  retention job has read, and that one being dropped counts as torn.
- `GroupAfterArchive`: when a group is deleted its task is closed and its archive
  can be read. The cleanup verifies and deletes in two steps; in between nobody
  touches the photos. `GroupInv` proves it from the clock: a task is closed by a
  request that began at its closing time and took less than two ticks, an upload
  to a closed task is over by the day after, and `CleanupDelay` is at least three.

### Dialogues

For any number of handlers at a time, people, targets and wizards, and every
mixture of dialogues:

- `AnswersArrive`: an answer that is not disturbed, by another question or by an
  event button, is applied to what was asked about. `AskedInv` says that while a
  question is open its key of the data is what was asked about, and that an answer
  still to read it will find that or nothing.
- `WizardEndsWell`: the wizard ends with a task `create_task` accepts, unless a
  handler was late. What is accepted is known only at the end, so `WizardInv` says
  for each step what has been gathered by then (a title once the kind is
  chosen, people before a leader, a team before the deadline), and that a handler
  about to begin a wizard brings nothing along.
- `WizardRecordsOnce`: a wizard creates at most one record, and one for each commit
  whose answer was lost, unless a last answer was handled for it while another
  one was. `PassInv` says that a wizard about
  to begin has a number of its own, that at most one last answer is attached to a
  wizard, and that once a record is there that was not in doubt either nothing is left of
  the wizard or its answer is about to clear it.

### Only model-checked

The liveness properties: temporal reasoning under fairness and `ENABLED` are beyond
the prover used here. These are `RequestsEnd`, `EventsSettle`, `GroupIsDeleted`,
`AssignedAreReached`, `StrangersLeave`, `RowsAreReconciled`,
`RetentionSettles` and `ArchiveIsPurged`.
Induction over data and `RECURSIVE` operators are out of the prover's reach too;
the modules use neither.

## 5. What is not modelled, and the plan

Not modelled, and why:

- audit rows, texts, layout and wording, role and membership checks that only
  refuse a request, token signatures, schema migrations, the contents of PDF and
  ZIP files, keyboards, paging of the people picker: no other part depends on
  what they do;
- notification delivery: one loop that sends and commits a batch, at least once;
  nothing else reads a notification;
- users, roles and sectors: each request is one read and one write of a row and
  the code promises nothing about two of them (for example, it refuses that
  administrators deactivate themselves, not that two deactivate each other).
  `ChatMembers` has the deactivation of a member;
- the checklist: items are independent but for their position, which a unique
  key protects;
- registration, creating and editing events, participants: requests that write one
  row, from data nobody else writes;
- the idempotency key of the HTTP route, which only a second client could repeat.

Left to do, in this order:

1. `Outbox` for `ChatMembers` too, which counts its events by type and attempts
   and would have to tell them apart; the fairness of `Outbox`.
2. `Notifications` and `UserAdmin`, if the code comes to promise more about them.
