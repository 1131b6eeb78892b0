------------------------------ MODULE TaskReports ------------------------------
(***************************************************************************)
(* One task and its report, worked on by concurrent database sessions.       *)
(*                                                                           *)
(* A session is one request: an API call (routers/reports.py,                *)
(* routers/tasks.py) or a bot callback that calls the same functions in a    *)
(* session of its own (bot/app/handlers/core.py).  PostgreSQL runs it at     *)
(* READ COMMITTED, so a request is modelled by the points at which it reads, *)
(* waits for the lock of the report row, and commits:                        *)
(*                                                                           *)
(*   idle -> (preloaded) -> lock -> (insert) -> write -> idle                *)
(*                                                                           *)
(* Between two points any other request may run.  What the request read is   *)
(* kept in seen[s] (the Task object) and row[s] (the TaskReport object) of   *)
(* its identity map; a commit writes only the columns it changed relative to *)
(* those objects (FlushTask, FlushReport), which is how a stale object       *)
(* overwrites some columns and leaves others alone.                          *)
(*                                                                           *)
(* Left out: the audit log, titles, descriptions and reviewer comments, and  *)
(* the role and membership checks that only refuse a request (a request here *)
(* is one whose actor passes them).                                          *)
(***************************************************************************)
EXTENDS Integers, FiniteSets

CONSTANTS Session,         \* requests that may be in progress at once
          NoSession,       \* nobody holds the row lock of the report
          Comment,         \* comments a member can type
          NoComment,       \* NULL comment
          Photo,           \* photos (object keys) a member can attach
          NoPhoto,         \* the request is not about a photo
          PhotoLimit,      \* 5 in the code
          Op,              \* the operations the clients use
          Deadline,        \* deadlines a manager can set
          ReminderWindow,  \* settings.task_deadline_reminder_hours
          CleanupDelay,    \* 3 days (minutes in staging)
          ArchivePeriod,   \* settings.archive_retention_days
          MaxTime          \* bound of the clock

\* Handlers that change the report; the last two are bot callbacks that load
\* the TaskReport object before they call the API function.
ReportEdits == {"submit_report", "report_comment_save", "request_photo_upload",
                "confirm_photo_upload", "delete_report_photo",
                "report_submit", "report_photo_delete"}
BotPreloads == {"report_submit", "report_photo_delete"}
Decisions   == {"approve", "return"}
TaskChanges == {"update_task", "cancel_task", "delete_task"}
AllOps      == ReportEdits \cup Decisions \cup TaskChanges

Never == -1      \* a NULL timestamp
Stamp == Nat \cup {Never}

ASSUME SessionAssumption == NoSession \notin Session
ASSUME PhotoAssumption == NoPhoto \notin Photo /\ IsFiniteSet(Photo)
ASSUME LimitAssumption == PhotoLimit \in Nat \ {0}
ASSUME OpAssumption == Op \subseteq AllOps
ASSUME TimeAssumption ==
    /\ MaxTime \in Nat /\ ReminderWindow \in Nat
    /\ CleanupDelay \in Nat /\ ArchivePeriod \in Nat
    /\ Deadline \subseteq Nat

Comments == Comment \cup {NoComment}

TaskStatus   == {"active", "submitted", "returned", "completed", "overdue", "cancelled"}
ReportStatus == {"draft", "submitted", "returned", "approved"}
Notice == {"TASK_SUBMITTED", "TASK_COMPLETED", "TASK_UPDATED", "TASK_CANCELLED",
           "TASK_OVERDUE", "TASK_DEADLINE_24H", "TASK_DELETED"}

\* Rows of tasks and task_reports; the status "absent" means there is no row.
\* returned and approved say whether returned_at and approved_at are set.
TaskRow == [status : TaskStatus \cup {"absent"}, kind : {"group", "individual"},
            deadline : Nat, completedAt : Stamp, cancelledAt : Stamp, cleanupAt : Stamp]
ReportRow == [status : ReportStatus \cup {"absent"}, comment : Comments,
              returned : BOOLEAN, approved : BOOLEAN]

NoTask == [status |-> "absent", kind |-> "individual", deadline |-> 0,
           completedAt |-> Never, cancelledAt |-> Never, cleanupAt |-> Never]
NoReport == [status |-> "absent", comment |-> NoComment, returned |-> FALSE, approved |-> FALSE]
DraftReport == [NoReport EXCEPT !.status = "draft"]

VARIABLES
    clock,        \* the time
    task,         \* the committed row of the task
    report,       \* the committed row of its report
    photos,       \* the committed photos of the report
    queued,       \* types of the notifications queued for the task
    retainUntil,  \* retention_delete_at of the task's event
    lock,         \* the session holding the report row (or its uncommitted insert)
    at,           \* at[s]: the point the request of s has reached
    op,           \* op[s]: its operation
    seen,         \* seen[s]: the Task object it loaded
    row,          \* row[s]: the TaskReport object in its identity map
    text,         \* text[s]: the comment it submits or saves
    photo,        \* photo[s]: the photo it is about
    stamp         \* stamp[s]: the datetime.now(UTC) it took

dbVars      == <<task, report, photos, queued, retainUntil>>
sessionVars == <<at, op, seen, row, text, photo, stamp>>
vars        == <<clock, lock, dbVars, sessionVars>>

TypeOK ==
    /\ clock \in Nat
    /\ task \in TaskRow
    /\ report \in ReportRow
    /\ photos \in SUBSET Photo
    /\ queued \in SUBSET Notice
    /\ retainUntil \in Stamp
    /\ lock \in Session \cup {NoSession}
    /\ at \in [Session -> {"idle", "preloaded", "lock", "insert", "write"}]
    /\ op \in [Session -> AllOps \cup {"none"}]
    /\ seen \in [Session -> TaskRow]
    /\ row \in [Session -> ReportRow]
    /\ text \in [Session -> Comments]
    /\ photo \in [Session -> Photo \cup {NoPhoto}]
    /\ stamp \in [Session -> Nat]
    /\ \A s \in Session : op[s] = "confirm_photo_upload" => photo[s] \in Photo
-------------------------------------------------------------------------------
(* Pure parts: what the handlers test and compute.                           *)

EditableTask(t) == t.status \in {"active", "returned", "overdue"}

\* Mutant: only an approved report is closed to changes.
EditableUntilApproved(r) == r.status \in {"draft", "submitted", "returned"}

EditableReport(r) == r.status \in {"draft", "returned"}

\* The check of each handler on the task it has just read.
Startable(o) ==
    CASE o \in ReportEdits  -> EditableTask(task)
      [] o \in Decisions    -> task.status = "submitted"
      [] o = "update_task"  -> EditableTask(task) /\ \E d \in Deadline : d > clock
      [] o = "cancel_task"  -> task.status \notin {"completed", "cancelled", "absent"}
      [] o = "delete_task"  -> task.status # "absent" /\ report.status = "absent"

Later(a, b) == IF a > b THEN a ELSE b

\* task_cleanup_at
CleanupAt(closedAt, deadline) == Later(closedAt, deadline) + CleanupDelay

\* Mutant: the cancellation, if there is one, hides the completion.
RetentionOfCancellation(t) ==
    LET closedAt == IF t.cancelledAt # Never THEN t.cancelledAt ELSE t.completedAt
    IN  IF closedAt = Never THEN Never ELSE closedAt + ArchivePeriod

\* refresh_event_retention, for an event with this task alone
Retention(t) ==
    LET closedAt == Later(t.completedAt, t.cancelledAt)
    IN  IF closedAt = Never THEN Never ELSE closedAt + ArchivePeriod

\* The columns an UPDATE sets are those whose value differs from the one the
\* session loaded; the others keep what the table holds.
Column(stored, loaded, new) == IF new # loaded THEN new ELSE stored

FlushTask(t, loaded, new) ==
    [status      |-> Column(t.status, loaded.status, new.status),
     kind        |-> t.kind,
     deadline    |-> Column(t.deadline, loaded.deadline, new.deadline),
     completedAt |-> Column(t.completedAt, loaded.completedAt, new.completedAt),
     cancelledAt |-> Column(t.cancelledAt, loaded.cancelledAt, new.cancelledAt),
     cleanupAt   |-> Column(t.cleanupAt, loaded.cleanupAt, new.cleanupAt)]

\* An INSERT, when the session created the report, writes the whole row.
FlushReport(r, loaded, new) ==
    IF r.status = "absent" THEN new
    ELSE [status   |-> Column(r.status, loaded.status, new.status),
          comment  |-> Column(r.comment, loaded.comment, new.comment),
          returned |-> Column(r.returned, loaded.returned, new.returned),
          approved |-> Column(r.approved, loaded.approved, new.approved)]

Completed(t, now) ==
    [t EXCEPT !.status = "completed", !.completedAt = now,
              !.cleanupAt = CleanupAt(now, t.deadline)]

Cancelled(t, now) ==
    [t EXCEPT !.status = "cancelled", !.cancelledAt = now,
              !.cleanupAt = CleanupAt(now, t.deadline)]
-------------------------------------------------------------------------------
(* Starting a request.                                                       *)

\* The request of s starts operation o with comment c and photo p: its task
\* lookup has returned the committed row.
ReadTask(s, o, c, p, next) ==
    /\ Startable(o)
    /\ at' = [at EXCEPT ![s] = next]
    /\ op' = [op EXCEPT ![s] = o]
    /\ seen' = [seen EXCEPT ![s] = task]
    /\ text' = [text EXCEPT ![s] = c]
    /\ photo' = [photo EXCEPT ![s] = p]
    /\ stamp' = [stamp EXCEPT ![s] = clock]
    /\ UNCHANGED <<clock, lock, dbVars, row>>

RequestReportEdit(s, o) ==
    /\ at[s] = "idle"
    /\ o \in Op \cap (ReportEdits \ BotPreloads)
    /\ \E c \in IF o \in {"submit_report", "report_comment_save"} THEN Comments
                ELSE {NoComment},
          p \in IF o \in {"confirm_photo_upload", "delete_report_photo"} THEN Photo
                ELSE {NoPhoto} :
          ReadTask(s, o, c, p, "lock")

RequestDecision(s, o) ==
    /\ at[s] = "idle"
    /\ o \in Op \cap Decisions
    /\ ReadTask(s, o, NoComment, NoPhoto, "lock")

RequestTaskChange(s, o) ==
    /\ at[s] = "idle"
    /\ o \in Op \cap TaskChanges
    /\ ReadTask(s, o, NoComment, NoPhoto, "write")

\* The bot's report_submit reads the report for its comment, report_photo_delete
\* the photo and its report; the TaskReport object stays in the identity map.
Preload(s, o) ==
    /\ at[s] = "idle"
    /\ o \in Op \cap BotPreloads
    /\ \E p \in IF o = "report_photo_delete" THEN photos ELSE {NoPhoto} :
          photo' = [photo EXCEPT ![s] = p]
    /\ at' = [at EXCEPT ![s] = "preloaded"]
    /\ op' = [op EXCEPT ![s] = o]
    /\ row' = [row EXCEPT ![s] = report]
    /\ text' = [text EXCEPT ![s] = IF o = "report_submit" THEN report.comment ELSE NoComment]
    /\ UNCHANGED <<clock, lock, dbVars, seen, stamp>>

ContinueBotRequest(s) ==
    /\ at[s] = "preloaded"
    /\ ReadTask(s, op[s], text[s], photo[s], "lock")
-------------------------------------------------------------------------------
(* Locking the report.                                                       *)

\* SELECT ... FOR UPDATE returns the object already in the identity map, if
\* there is one, without refreshing it.
LockedRow(s) == IF row[s].status # "absent" THEN row[s] ELSE report

\* Mutant: off by one.
RoomForOneTooMany == Cardinality(photos) <= PhotoLimit

RoomForPhoto == Cardinality(photos) < PhotoLimit

\* Mutant: photos are deleted whatever the status of the report.
AcceptsAnyDeletion(s, r) ==
    /\ IF op[s] \in Decisions THEN r.status = "submitted"
       ELSE op[s] # "delete_report_photo" => EditableReport(r)
    /\ op[s] \in {"request_photo_upload", "confirm_photo_upload"} => RoomForPhoto
    /\ op[s] = "confirm_photo_upload" => photo[s] \notin photos
    /\ op[s] = "delete_report_photo" => photo[s] \in photos

\* Mutant: a decision relies on the status of the task alone.
AcceptsAnyDecision(s, r) ==
    /\ op[s] \notin Decisions => EditableReport(r)
    /\ op[s] \in {"request_photo_upload", "confirm_photo_upload"} => RoomForPhoto
    /\ op[s] = "confirm_photo_upload" => photo[s] \notin photos
    /\ op[s] = "delete_report_photo" => photo[s] \in photos

\* The checks of the handler once it holds the report.
Accepts(s, r) ==
    /\ IF op[s] \in Decisions THEN r.status = "submitted" ELSE EditableReport(r)
    /\ op[s] \in {"request_photo_upload", "confirm_photo_upload"} => RoomForPhoto
    /\ op[s] = "confirm_photo_upload" => photo[s] \notin photos
    /\ op[s] = "delete_report_photo" => photo[s] \in photos

\* Mutant: SELECT without FOR UPDATE.
RowNotLocked == TRUE

ReportFree == lock = NoSession

CreatesReport(o) == o \in ReportEdits \ {"delete_report_photo", "report_photo_delete"}

HoldReport(s, r) ==
    /\ lock' = s
    /\ at' = [at EXCEPT ![s] = "write"]
    /\ row' = [row EXCEPT ![s] = r]
    /\ stamp' = [stamp EXCEPT ![s] = clock]
    /\ UNCHANGED <<clock, dbVars, op, seen, text, photo>>

LockReport(s) ==
    /\ at[s] = "lock"
    /\ report.status # "absent"
    /\ ReportFree
    /\ Accepts(s, LockedRow(s))
    /\ HoldReport(s, LockedRow(s))

\* There is no committed row to lock, even if another session has inserted one
\* it has not committed: the session goes on to insert its own.
FindNoReport(s) ==
    /\ at[s] = "lock"
    /\ report.status = "absent"
    /\ CreatesReport(op[s])
    /\ at' = [at EXCEPT ![s] = "insert"]
    /\ UNCHANGED <<clock, lock, dbVars, op, seen, row, text, photo, stamp>>

\* The flush of the new row waits for another uncommitted row of the same task
\* (task_reports.task_id is unique).
InsertReport(s) ==
    /\ at[s] = "insert"
    /\ ReportFree
    /\ report.status = "absent" /\ task.status # "absent"
    /\ Accepts(s, DraftReport)
    /\ HoldReport(s, DraftReport)
-------------------------------------------------------------------------------
(* Ending a request: refusal, failure, commit.                               *)

\* Mutant: the session ends without releasing the row.
SessionLeaksLock(s) ==
    /\ UNCHANGED <<clock, lock>>
    /\ at' = [at EXCEPT ![s] = "idle"]
    /\ op' = [op EXCEPT ![s] = "none"]
    /\ seen' = [seen EXCEPT ![s] = NoTask]
    /\ row' = [row EXCEPT ![s] = NoReport]
    /\ text' = [text EXCEPT ![s] = NoComment]
    /\ photo' = [photo EXCEPT ![s] = NoPhoto]
    /\ stamp' = [stamp EXCEPT ![s] = 0]

SessionEnds(s) ==
    /\ lock' = IF lock = s THEN NoSession ELSE lock
    /\ at' = [at EXCEPT ![s] = "idle"]
    /\ op' = [op EXCEPT ![s] = "none"]
    /\ seen' = [seen EXCEPT ![s] = NoTask]
    /\ row' = [row EXCEPT ![s] = NoReport]
    /\ text' = [text EXCEPT ![s] = NoComment]
    /\ photo' = [photo EXCEPT ![s] = NoPhoto]
    /\ stamp' = [stamp EXCEPT ![s] = 0]
    /\ UNCHANGED clock

\* A check fails, the unique constraint refuses a second report, or the row to
\* update is gone: the transaction rolls back.
Refused(s) ==
    \/ at[s] = "preloaded" /\ ~Startable(op[s])
    \/ at[s] = "lock" /\ report.status = "absent" /\ ~CreatesReport(op[s])
    \/ at[s] = "lock" /\ report.status # "absent" /\ ReportFree /\ ~Accepts(s, LockedRow(s))
    \/ at[s] = "insert" /\ ReportFree /\ (report.status # "absent" \/ task.status = "absent")
    \/ at[s] = "write" /\ task.status = "absent"

Refuse(s) ==
    /\ Refused(s)
    /\ SessionEnds(s)
    /\ UNCHANGED dbVars

\* The request dies before its commit (lost connection, storage error, restart).
Abort(s) ==
    /\ at[s] # "idle"
    /\ SessionEnds(s)
    /\ UNCHANGED dbVars

Commits(s, ops) ==
    /\ at[s] = "write"
    /\ op[s] \in ops
    /\ task.status # "absent"
    /\ SessionEnds(s)

SaveTask(s, new) == task' = FlushTask(task, seen[s], new)

SaveReport(s, new) == report' = FlushReport(report, row[s], new)

Notify(type) == queued' = queued \cup {type}

\* Mutant: handing a returned report in again leaves returned_at set.
SubmitKeepsReturn(s) ==
    /\ Commits(s, {"submit_report", "report_submit"})
    /\ seen[s].kind = "group"
    /\ SaveReport(s, [row[s] EXCEPT !.status = "submitted", !.comment = text[s]])
    /\ SaveTask(s, [seen[s] EXCEPT !.status = "submitted"])
    /\ Notify("TASK_SUBMITTED")
    /\ UNCHANGED <<photos, retainUntil>>

\* submit_report of a group task
SubmitForApproval(s) ==
    /\ Commits(s, {"submit_report", "report_submit"})
    /\ seen[s].kind = "group"
    /\ SaveReport(s, [row[s] EXCEPT !.status = "submitted", !.comment = text[s],
                                    !.returned = FALSE, !.approved = FALSE])
    /\ SaveTask(s, [seen[s] EXCEPT !.status = "submitted"])
    /\ Notify("TASK_SUBMITTED")
    /\ UNCHANGED <<photos, retainUntil>>

\* submit_report of an individual task
SubmitAndComplete(s) ==
    /\ Commits(s, {"submit_report", "report_submit"})
    /\ seen[s].kind = "individual"
    /\ SaveReport(s, [row[s] EXCEPT !.status = "approved", !.comment = text[s],
                                    !.returned = FALSE, !.approved = TRUE])
    /\ SaveTask(s, Completed(seen[s], stamp[s]))
    /\ Notify("TASK_COMPLETED")
    /\ retainUntil' = Retention(task')
    /\ UNCHANGED photos

SaveComment(s) ==
    /\ Commits(s, {"report_comment_save"})
    /\ SaveReport(s, [row[s] EXCEPT !.comment = text[s]])
    /\ UNCHANGED <<task, photos, queued, retainUntil>>

\* Hands out an upload URL; the draft report it may have created is committed.
RequestPhotoUpload(s) ==
    /\ Commits(s, {"request_photo_upload"})
    /\ SaveReport(s, row[s])
    /\ UNCHANGED <<task, photos, queued, retainUntil>>

\* confirm_photo_upload, and report_photo_save in the bot under a fresh key
ConfirmPhoto(s) ==
    /\ Commits(s, {"confirm_photo_upload"})
    /\ SaveReport(s, row[s])
    /\ photos' = photos \cup {photo[s]}
    /\ UNCHANGED <<task, queued, retainUntil>>

DeletePhoto(s) ==
    /\ Commits(s, {"delete_report_photo", "report_photo_delete"})
    /\ photos' = photos \ {photo[s]}
    /\ UNCHANGED <<task, report, queued, retainUntil>>

ApproveReport(s) ==
    /\ Commits(s, {"approve"})
    /\ SaveReport(s, [row[s] EXCEPT !.status = "approved", !.approved = TRUE, !.returned = FALSE])
    /\ SaveTask(s, Completed(seen[s], stamp[s]))
    /\ Notify("TASK_COMPLETED")
    /\ retainUntil' = Retention(task')
    /\ UNCHANGED photos

ReturnReport(s) ==
    /\ Commits(s, {"return"})
    /\ SaveReport(s, [row[s] EXCEPT !.status = "returned", !.returned = TRUE, !.approved = FALSE])
    /\ SaveTask(s, [seen[s] EXCEPT !.status = "returned"])
    /\ Notify("TASK_UPDATED")
    /\ UNCHANGED <<photos, retainUntil>>

\* update_task with a new deadline, which had to lie in the future when checked
UpdateTask(s) ==
    /\ Commits(s, {"update_task"})
    /\ \E d \in Deadline : d > stamp[s] /\ SaveTask(s, [seen[s] EXCEPT !.deadline = d])
    /\ Notify("TASK_UPDATED")
    /\ UNCHANGED <<report, photos, retainUntil>>

CancelTask(s) ==
    /\ Commits(s, {"cancel_task"})
    /\ SaveTask(s, Cancelled(seen[s], stamp[s]))
    /\ Notify("TASK_CANCELLED")
    /\ retainUntil' = Retention(task')
    /\ UNCHANGED <<report, photos>>

\* delete_task: the row and, by ON DELETE CASCADE, its report and photos; the
\* cascade waits for the session that holds the report.
DeleteTask(s) ==
    /\ Commits(s, {"delete_task"})
    /\ ReportFree
    /\ task' = NoTask /\ report' = NoReport /\ photos' = {}
    /\ queued' = {"TASK_DELETED"}
    /\ retainUntil' = Never

Commit(s) ==
    \/ SubmitForApproval(s) \/ SubmitAndComplete(s)
    \/ SaveComment(s)
    \/ RequestPhotoUpload(s) \/ ConfirmPhoto(s) \/ DeletePhoto(s)
    \/ ApproveReport(s) \/ ReturnReport(s)
    \/ UpdateTask(s) \/ CancelTask(s) \/ DeleteTask(s)
-------------------------------------------------------------------------------
(* process_task_deadlines of the worker and the clock.                       *)

\* Mutant: a task that was handed in is overdue as well.
DeadlinedIfOpen == task.status \in {"active", "submitted", "returned"}

Deadlined == task.status \in {"active", "returned"}

\* Mutant: a label that is not in the enum.
MarkLate ==
    /\ Deadlined /\ task.deadline < clock
    /\ task' = [task EXCEPT !.status = "OVERDUE"]
    /\ Notify("TASK_OVERDUE")
    /\ UNCHANGED <<clock, lock, report, photos, retainUntil, sessionVars>>

MarkOverdue ==
    /\ Deadlined /\ task.deadline < clock
    /\ task' = [task EXCEPT !.status = "overdue"]
    /\ Notify("TASK_OVERDUE")
    /\ UNCHANGED <<clock, lock, report, photos, retainUntil, sessionVars>>

RemindDeadline ==
    /\ Deadlined
    /\ clock <= task.deadline /\ task.deadline <= clock + ReminderWindow
    /\ "TASK_DEADLINE_24H" \notin queued
    /\ Notify("TASK_DEADLINE_24H")
    /\ UNCHANGED <<clock, lock, task, report, photos, retainUntil, sessionVars>>

Tick ==
    /\ clock < MaxTime
    /\ clock' = clock + 1
    /\ UNCHANGED <<lock, dbVars, sessionVars>>
-------------------------------------------------------------------------------
Init ==
    /\ clock = 0
    /\ \E k \in {"group", "individual"}, d \in Deadline :
          /\ d > 0
          /\ task = [NoTask EXCEPT !.status = "active", !.kind = k, !.deadline = d]
    /\ report = NoReport /\ photos = {} /\ queued = {} /\ retainUntil = Never
    /\ lock = NoSession
    /\ at = [s \in Session |-> "idle"]
    /\ op = [s \in Session |-> "none"]
    /\ seen = [s \in Session |-> NoTask]
    /\ row = [s \in Session |-> NoReport]
    /\ text = [s \in Session |-> NoComment]
    /\ photo = [s \in Session |-> NoPhoto]
    /\ stamp = [s \in Session |-> 0]

\* The steps the database and the event loop take by themselves once a request
\* has started.
Proceed(s) ==
    ContinueBotRequest(s) \/ LockReport(s) \/ FindNoReport(s) \/ InsertReport(s)
        \/ Refuse(s) \/ Commit(s)

Start(s) ==
    \E o \in Op : Preload(s, o) \/ RequestReportEdit(s, o) \/ RequestDecision(s, o)
                    \/ RequestTaskChange(s, o)

Next ==
    \/ \E s \in Session : Start(s) \/ Proceed(s) \/ Abort(s)
    \/ MarkOverdue \/ RemindDeadline
    \/ Tick

Spec == Init /\ [][Next]_vars

\* PostgreSQL queues the sessions that wait for a row lock, so a request that
\* can go on again and again does go on.  Nothing makes a user start a request, and
\* no property needs the deadline job to run.
Fairness == \A s \in Session : SF_vars(Proceed(s))

FairSpec == Spec /\ Fairness
-------------------------------------------------------------------------------
(* Properties.                                                               *)

\* A report never holds more photos than the limit, whatever requests count,
\* add and delete photos at the same time (reports.py: count >= 5).
PhotoLimitHeld == Cardinality(photos) <= PhotoLimit

\* A session about to commit a change of the report, and no other, holds its row.
WritesReport(s) == at[s] = "write" /\ op[s] \notin TaskChanges
LockHeldByWriter ==
    \A s \in Session : WritesReport(s) <=> lock = s

\* Only requests about the report wait for it.
WaitsForReport ==
    \A s \in Session : at[s] \in {"preloaded", "lock", "insert"} => op[s] \notin TaskChanges

\* What makes PhotoLimitHeld inductive: the room a session counted is still there
\* when it commits.
RoomKept ==
    \A s \in Session : at[s] = "write" /\ op[s] = "confirm_photo_upload" => RoomForPhoto

PhotoInv == TypeOK /\ LockHeldByWriter /\ WaitsForReport /\ PhotoLimitHeld /\ RoomKept

\* The task and its report tell the same story: the task awaits its leader
\* exactly while the report is submitted and is completed exactly when it is
\* approved, and the report's timestamps are those of its status.  The two rows
\* are read at different moments and only one of them is locked, and the deadline
\* job may mark the task overdue at any point of the hand-in or the decision.
TaskFollowsReport ==
    /\ task.status = "submitted" <=> report.status = "submitted"
    /\ task.status = "completed" <=> report.status = "approved"
    /\ report.returned <=> report.status = "returned"
    /\ report.approved <=> report.status = "approved"

\* A report that was handed in cannot be edited ("Submitted report can no longer
\* be edited"): comment and photos stay until the leader returns it, and an
\* approved report is never touched again.
SubmittedReportFrozen ==
    [][report.status \in {"submitted", "approved"} =>
        /\ report'.comment = report.comment
        /\ photos' = photos
        /\ report'.status \in {"submitted", "approved", "returned"}
        /\ report.status = "approved" => report' = report]_vars

\* A completed task is completed for good: no request that read it while it was
\* open reopens it or moves its closure and cleanup times.
CompletedForGood ==
    [][task.status = "completed" =>
        /\ task'.status = "completed"
        /\ task'.completedAt = task.completedAt
        /\ task'.cleanupAt = task.cleanupAt]_vars

\* The report of a group task is approved or returned only from the submitted
\* state: no decision is taken twice or on a report that is being reworked.
DecidedOnlyWhenSubmitted ==
    [][/\ task.kind = "group"
       /\ report'.status # report.status
       /\ report'.status \in {"approved", "returned"}
       => report.status = "submitted"]_vars

\* The records of the event are kept for the archive period after every closure
\* of the task, also when a cancellation and a completion overtake each other.
RetentionCoversClosure ==
    /\ task.completedAt # Never => retainUntil >= task.completedAt + ArchivePeriod
    /\ task.cancelledAt # Never => retainUntil >= task.cancelledAt + ArchivePeriod

\* A cancelled task stays cancelled (cancel_task: "Task is already closed",
\* submit_report: "Task cannot accept a report").
CancelledStaysCancelled == task.cancelledAt # Never => task.status = "cancelled"

\* Every request that was started comes to an end: no session waits for ever for
\* the row of the report.
RequestsEnd == \A s \in Session : at[s] # "idle" ~> at[s] = "idle"

\* The operations of the API implement the abstract specification of the review.
Phase == IF task.status \in {"submitted", "completed"} THEN task.status ELSE "open"
Review == INSTANCE ReportReview WITH Comment <- Comments, phase <- Phase,
                                     comment <- report.comment, photos <- photos
ReviewSpec == Review!Spec
===============================================================================
