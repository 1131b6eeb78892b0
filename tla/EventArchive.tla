----------------------------- MODULE EventArchive -----------------------------
(***************************************************************************)
(* The archive of one event: how long it is kept, the photos of its tasks     *)
(* with their objects in storage, and its purge.  Acting at the same time:    *)
(* requests that close or delete tasks and refresh the retention, the         *)
(* administrator who extends it, members who add and delete photos, the       *)
(* cleanup job, which deletes a group once the archive is verified, and the   *)
(* daily retention job.                                                      *)
(*                                                                           *)
(* The limit of five photos and the report itself are in TaskReports.          *)
(***************************************************************************)
EXTENDS Integers, FiniteSets, FiniteSetsExt

CONSTANTS Task,          \* the tasks of the event
          Group,         \* those with a working group
          Photo,         \* photos that members may add
          TaskOf,        \* the task each photo is added to
          Retention,     \* archive_retention_days
          WarningDays,   \* archive_delete_warning_days
          CleanupDelay,  \* from the closure of a task to the deletion of its group
          Extensions,    \* bound: dates the administrator offers
          LastClosure,   \* bound: tasks are closed and deleted until then
          LastDay,       \* bound: the clock stops then
          MaxFaults      \* bound: errors of storage and Telegram, crashes, recoveries

\* A request or a job takes less than two ticks of the clock (see Tick).
ASSUME TimeAssumption ==
    /\ {Retention, WarningDays, CleanupDelay, LastClosure} \subseteq Nat
    /\ LastDay \in Nat \ {0}
    /\ Extensions \subseteq Nat \ {0}
    /\ CleanupDelay >= 3
ASSUME TaskAssumption == Task # {} /\ Group \subseteq Task /\ TaskOf \in [Photo -> Task]
ASSUME BoundAssumption == MaxFaults \in Nat

Day == 1..LastDay
Never == 0
Part == {"original", "preview"}
PartsOf(p) == {p} \X Part

\* The columns of the event, a date being Never when it is NULL.
EventRow == [deleteAt : Nat, extended : {Never} \cup Extensions, warned : BOOLEAN,
             purged : BOOLEAN]
NewEvent == [deleteAt |-> Never, extended |-> Never, warned |-> FALSE, purged |-> FALSE]

\* A request that closes or deletes a task, or extends the retention: the event as
\* it loaded it and as it has changed it.
Request == [op : {"none", "close", "delete", "extend"}, when : Day \cup {Never},
            seen : EventRow, mine : EventRow]
NoRequest == [op |-> "none", when |-> Never, seen |-> NewEvent, mine |-> NewEvent]
Admin == "admin"

\* The retention job: photos it has read, objects it has yet to delete.
Purge == [at : {"idle", "delete", "commit"}, when : Day \cup {Never}, photos : SUBSET Photo,
          todo : SUBSET (Photo \X Part), mine : EventRow]
NoPurge == [at |-> "idle", when |-> Never, photos |-> {}, todo |-> {}, mine |-> NewEvent]

\* A group the cleanup never looks at is "unready": it is PENDING, CREATING, DEGRADED
\* or FAILED.
ChatStatus == {"ready", "unready", "cleanup_pending", "deleted"}

\* The cleanup job with one task: the status of the group when it was loaded, whether
\* the job has written the event and holds its row, whether Telegram deleted the group.
Cleanup == [at : {"idle", "delete", "commit"}, when : Day \cup {Never}, task : Task,
            status : ChatStatus, wrote : BOOLEAN, mine : EventRow, deleted : BOOLEAN]

VARIABLES
    now,      \* the day
    event,    \* committed row of the event
    closedAt, \* completed_at or cancelled_at of a task, Never while it is open
    exists,   \* tasks that have not been deleted
    reported, \* tasks with a report
    row,      \* photos with a row in task_photos
    objects,  \* what is in storage
    chat,     \* committed status of the groups
    gone,     \* groups deleted in Telegram
    request,  \* the request about each task, and the administrator's
    upload,   \* where the member who adds or deletes a photo is
    saved,    \* photos somebody has begun to add
    purge,    \* the retention job
    cleanup,  \* the cleanup job
    faults,   \* faults so far
    torn,     \* photos a member began to delete and did not finish
    condemned \* the same for the retention job

database == <<event, closedAt, exists, reported, row, chat>>
ghosts == <<torn, condemned>>
vars == <<now, database, objects, gone, request, upload, saved, purge, cleanup, faults, ghosts>>

UploadPoint == {"idle", "preview", "row", "undo", "drop_preview", "drop_row"}

TypeOK ==
    /\ now \in Day
    /\ event \in EventRow
    /\ event.deleteAt = Never \/ event.deleteAt > Retention
    /\ closedAt \in [Task -> Day \cup {Never}]
    /\ row \subseteq saved /\ saved \subseteq Photo
    /\ \A p \in row : TaskOf[p] \in reported
    /\ reported \subseteq exists /\ exists \subseteq Task
    /\ objects \subseteq Photo \X Part
    /\ chat \in [Group -> ChatStatus] /\ gone \subseteq Group
    /\ request \in [Task \cup {Admin} -> Request]
    /\ upload \in [Photo -> UploadPoint]
    /\ purge \in Purge
    /\ cleanup \in Cleanup
    /\ faults \in 0..MaxFaults
    /\ torn \subseteq Photo /\ condemned \subseteq Photo
-------------------------------------------------------------------------------
Open(t) == t \in exists /\ closedAt[t] = Never
Closed(t) == t \in exists /\ closedAt[t] # Never

PhotosOf(t) == {p \in Photo : TaskOf[p] = t}

Later(x, y) == IF x >= y THEN x ELSE y

\* event_retention_limit
Limit(e) == Later(e.deleteAt, e.extended)

\* Mutant of Retained: without a closed task the year counts from the beginning.
RetainedFromStart(e, closures) ==
    [e EXCEPT !.deleteAt = Max(closures \cup {Never}) + Retention, !.warned = FALSE]

\* refresh_event_retention: a year after the latest closure, to be warned of anew.
Retained(e, closures) ==
    [e EXCEPT !.deleteAt = IF closures = {} THEN Never ELSE Max(closures) + Retention,
              !.warned = FALSE]

ClosuresBut(t) == {closedAt[u] : u \in {v \in exists \ {t} : Closed(v)}}

\* The columns a commit writes are those that differ from the loaded row.
Merge(stored, seen, new) ==
    [c \in DOMAIN stored |-> IF new[c] # seen[c] THEN new[c] ELSE stored[c]]

\* Mutant of EventFree: the retention job reads the event without FOR UPDATE.
EventUnlocked == ~cleanup.wrote

\* Nobody holds the row of the event.
EventFree == purge.at = "idle" /\ ~cleanup.wrote

Fault == faults < MaxFaults /\ faults' = faults + 1
-------------------------------------------------------------------------------
(* Requests.  Each reads the event and the closures that are committed, and      *)
(* writes when it commits: of two that overlap neither sees the other's closure. *)

Begin(r, op, e) ==
    /\ request[r] = NoRequest
    /\ request' = [request EXCEPT ![r] = [op |-> op, when |-> now, seen |-> event, mine |-> e]]
    /\ UNCHANGED <<now, database, objects, gone, upload, saved, purge, cleanup, faults, ghosts>>

\* cancel_task, or the approval that completes the task.
StartClose(t) ==
    /\ now <= LastClosure /\ Open(t)
    /\ Begin(t, "close", Retained(event, ClosuresBut(t) \cup {now}))

\* delete_task: only without a report and a group.
StartDelete(t) ==
    /\ now <= LastClosure /\ t \in exists \ (Group \cup reported)
    /\ Begin(t, "delete", Retained(event, ClosuresBut(t)))

\* extend_event_retention
StartExtend(until) ==
    /\ ~event.purged /\ until > Limit(event)
    /\ Begin(Admin, "extend", [event EXCEPT !.extended = until, !.warned = FALSE])

Commits(r, op) ==
    /\ request[r].op = op /\ EventFree
    /\ event' = Merge(event, request[r].seen, request[r].mine)
    /\ request' = [request EXCEPT ![r] = NoRequest]
    /\ UNCHANGED <<now, chat, objects, gone, upload, saved, purge, cleanup, faults, ghosts>>

\* A task that is cancelled need not have a report; one that is completed has one,
\* and its approval waits for members at the photos.
CommitClose(t) ==
    /\ Commits(t, "close")
    /\ closedAt' = [closedAt EXCEPT ![t] = request[t].when]
    /\ \/ UNCHANGED reported
       \/ /\ \A p \in PhotosOf(t) : upload[p] \in {"idle", "undo"}
          /\ reported' = reported \cup {t}
    /\ UNCHANGED <<exists, row>>

\* The DELETE waits for a member who has inserted the report, and cascades to what
\* is committed by then; the objects of a photo stay.
CommitDelete(t) ==
    /\ Commits(t, "delete")
    /\ \A p \in PhotosOf(t) : upload[p] \notin {"preview", "row"}
    /\ exists' = exists \ {t} /\ reported' = reported \ {t} /\ row' = row \ PhotosOf(t)
    /\ UNCHANGED closedAt

CommitExtend == Commits(Admin, "extend") /\ UNCHANGED <<closedAt, exists, reported, row>>
-------------------------------------------------------------------------------
(* Photos: report_photo_save in the bot, the presigned upload of the API, and    *)
(* delete_report_photo.  A member's request is over before the next day.        *)

Upload(p, from, to) ==
    /\ upload[p] = from
    /\ upload' = [upload EXCEPT ![p] = to]
    /\ UNCHANGED <<now, event, closedAt, exists, chat, gone, request, purge, cleanup, condemned>>

Stores(p, part) == objects' = objects \cup {<<p, part>>}
Removes(p, part) == objects' = objects \ {<<p, part>>}
Inserts(p) == reported' = reported \cup {TaskOf[p]} /\ row' = row \cup {p}

\* Mutant of AfterOriginal: the row is written without a preview.
RowFirst == "row"

AfterOriginal == "preview"

\* The names of the objects are new.
SaveOriginal(p) ==
    /\ Open(TaskOf[p]) /\ p \notin saved
    /\ Upload(p, "idle", AfterOriginal) /\ Stores(p, "original")
    /\ saved' = saved \cup {p}
    /\ UNCHANGED <<reported, row, faults, torn>>

SavePreview(p) ==
    /\ Upload(p, "preview", "row") /\ Stores(p, "preview")
    /\ UNCHANGED <<saved, reported, row, faults, torn>>

CommitPhoto(p) ==
    /\ Upload(p, "row", "idle") /\ Inserts(p)
    /\ UNCHANGED <<saved, objects, faults, torn>>

\* Storage or the commit fails.  The bot takes the objects back, the API leaves them;
\* a commit may have been carried out although it failed.
SaveFails(p) ==
    /\ Fault
    /\ \E from \in {"preview", "row"}, to \in {"undo", "idle"} : Upload(p, from, to)
    /\ \/ UNCHANGED <<reported, row, torn>>
       \/ /\ upload[p] = "row" /\ Inserts(p)
          /\ torn' = IF upload'[p] = "undo" THEN torn \cup {p} ELSE torn
    /\ UNCHANGED <<saved, objects>>

\* An object that cannot be deleted is left: the error is only logged.
UndoSave(p) ==
    /\ Upload(p, "undo", "idle")
    /\ \E removed \in SUBSET PartsOf(p) : objects' = objects \ removed
    /\ UNCHANGED <<saved, reported, row, faults, torn>>

DropOriginal(p) ==
    /\ Open(TaskOf[p]) /\ p \in row
    /\ Upload(p, "idle", "drop_preview") /\ Removes(p, "original")
    /\ torn' = torn \cup {p}
    /\ UNCHANGED <<saved, reported, row, faults>>

DropPreview(p) ==
    /\ Upload(p, "drop_preview", "drop_row") /\ Removes(p, "preview")
    /\ UNCHANGED <<saved, reported, row, faults, torn>>

DropRow(p) ==
    /\ Upload(p, "drop_row", "idle")
    /\ row' = row \ {p} /\ torn' = torn \ {p}
    /\ UNCHANGED <<saved, reported, objects, faults>>

\* The row stays, with what is left of its objects.
DropFails(p) ==
    /\ Fault
    /\ \E from \in {"drop_preview", "drop_row"} : Upload(p, from, "idle")
    /\ UNCHANGED <<saved, reported, row, objects, torn>>
-------------------------------------------------------------------------------
(* process_archive_retention: the event is locked until the job commits.         *)

Expired(e, day) == e.deleteAt # Never /\ Limit(e) <= day
ToWarn(e, day) == e.deleteAt # Never /\ Limit(e) <= day + WarningDays /\ ~e.warned

\* Mutant of Selected: an event whose warning was sent is not looked at again.
SelectedOnce(e) == e.deleteAt # Never /\ ~e.purged /\ ~e.warned

Selected(e) == e.deleteAt # Never /\ ~e.purged

PurgeSteps(next) ==
    /\ purge' = next
    /\ UNCHANGED <<now, closedAt, exists, reported, chat, gone, request, upload, saved,
                   cleanup, torn>>

\* A round with nothing to warn of and nothing to purge is left out.
StartPurge ==
    LET warned == [event EXCEPT !.warned = @ \/ ToWarn(event, now)] IN
    /\ EventFree /\ Selected(event)
    /\ \/ /\ Expired(event, now)
          /\ PurgeSteps([at |-> "delete", when |-> now, photos |-> row,
                         todo |-> row \X Part, mine |-> warned])
       \/ /\ ~Expired(event, now) /\ ToWarn(event, now)
          /\ PurgeSteps([NoPurge EXCEPT !.at = "commit", !.when = now, !.mine = warned])
    /\ UNCHANGED <<event, row, objects, faults, condemned>>

PurgeObject(o) ==
    /\ purge.at = "delete" /\ o \in purge.todo
    /\ objects' = objects \ {o} /\ condemned' = condemned \cup {o[1]}
    /\ PurgeSteps([purge EXCEPT !.todo = @ \ {o}])
    /\ UNCHANGED <<event, row, faults>>

PurgeObjectFails ==
    /\ purge.at = "delete" /\ purge.todo # {}
    /\ Fault
    /\ PurgeSteps([purge EXCEPT !.at = "commit", !.mine.warned = TRUE])
    /\ UNCHANGED <<event, row, objects, condemned>>

\* The comments of the reports are cleared as well.
CommitPurge ==
    /\ purge.at = "delete" /\ purge.todo = {}
    /\ event' = [purge.mine EXCEPT !.purged = TRUE]
    /\ row' = row \ purge.photos /\ condemned' = condemned \ purge.photos
    /\ PurgeSteps(NoPurge)
    /\ UNCHANGED <<objects, faults>>

CommitWarning ==
    /\ purge.at = "commit"
    /\ event' = purge.mine
    /\ PurgeSteps(NoPurge)
    /\ UNCHANGED <<row, objects, faults, condemned>>

CrashPurge ==
    /\ purge.at # "idle"
    /\ Fault
    /\ PurgeSteps(NoPurge)
    /\ UNCHANGED <<event, row, objects, condemned>>
-------------------------------------------------------------------------------
(* The status of a group.  How it gets it is in TaskChats.                     *)

Turns(t, from, to) ==
    /\ chat[t] \in from /\ chat' = [chat EXCEPT ![t] = to]
    /\ UNCHANGED <<now, event, closedAt, exists, reported, row, objects, gone, request,
                   upload, saved, purge, cleanup, ghosts>>

\* A brief that cannot be refreshed, or a configuration that fails.
DegradeChat(t) == Fault /\ Turns(t, {"ready"}, "unready")

\* recover_task_chat refuses a READY group only.
RecoverChat(t) == Fault /\ Turns(t, {"cleanup_pending", "deleted"}, "unready")

\* configure_task_chat succeeds, now that it was recovered; not for a group that is gone.
ConfigureChat(t) ==
    /\ t \notin gone /\ Turns(t, {"unready"}, "ready")
    /\ UNCHANGED faults
-------------------------------------------------------------------------------
(* process_cleanup, one group at a time.                                      *)

NoCleanup == [at |-> "idle", when |-> Never, task |-> CHOOSE t \in Task : TRUE,
              status |-> "unready", wrote |-> FALSE, mine |-> NewEvent, deleted |-> FALSE]

CleanupSteps(next) ==
    /\ cleanup' = next
    /\ UNCHANGED <<now, closedAt, exists, reported, row, objects, request, upload, saved,
                   purge, ghosts>>

\* Mutant of Persisted: only the previews are looked for.
PreviewPersisted(t) == \A p \in row \cap PhotosOf(t) : <<p, "preview">> \in objects

\* archive_is_persisted
Persisted(t) == \A p \in row \cap PhotosOf(t) : PartsOf(p) \subseteq objects

\* Mutant of Refreshed: the retention is not refreshed when the archive is verified.
NotRefreshed == event

Refreshed == Retained(event, ClosuresBut(Admin))

\* Only READY and CLEANUP_PENDING groups are selected.  The refreshed retention is
\* flushed by the query that follows it.
StartCleanup(t) ==
    LET wrote == Refreshed # event
        Goes(to) == CleanupSteps([at |-> to, when |-> now, task |-> t, status |-> chat[t],
                                  wrote |-> wrote, mine |-> Refreshed, deleted |-> FALSE])
    IN  /\ cleanup.at = "idle" /\ chat[t] \in {"ready", "cleanup_pending"} /\ Closed(t)
        /\ now >= closedAt[t] + CleanupDelay
        /\ wrote => EventFree
        /\ \/ Goes(IF Persisted(t) THEN "delete" ELSE "commit") /\ UNCHANGED faults
           \/ Fault /\ Goes("commit")
        /\ UNCHANGED <<event, chat, gone>>

DeleteGroup ==
    /\ cleanup.at = "delete"
    /\ \/ /\ gone' = gone \cup {cleanup.task} /\ UNCHANGED faults
          /\ CleanupSteps([cleanup EXCEPT !.at = "commit", !.deleted = TRUE])
       \/ /\ Fault /\ UNCHANGED gone
          /\ CleanupSteps([cleanup EXCEPT !.at = "commit"])
    /\ UNCHANGED <<event, chat>>

\* A status that is not the one the job loaded is written, whatever it is by now.
CommitCleanup ==
    LET status == IF cleanup.deleted THEN "deleted" ELSE "cleanup_pending" IN
    /\ cleanup.at = "commit"
    /\ event' = IF cleanup.wrote THEN cleanup.mine ELSE event
    /\ chat' = IF status # cleanup.status THEN [chat EXCEPT ![cleanup.task] = status] ELSE chat
    /\ CleanupSteps(NoCleanup)
    /\ UNCHANGED <<gone, faults>>

CrashCleanup ==
    /\ cleanup.at # "idle"
    /\ Fault
    /\ CleanupSteps(NoCleanup)
    /\ UNCHANGED <<event, chat, gone>>
-------------------------------------------------------------------------------
\* Days are long: requests and jobs that are under way began today, so that they end
\* by tomorrow, and members have finished with their photos.
Tick ==
    /\ now < LastDay /\ now' = now + 1
    /\ \A r \in Task \cup {Admin} : request[r].when \in {Never, now}
    /\ purge.when \in {Never, now} /\ cleanup.when \in {Never, now}
    /\ \A p \in Photo : upload[p] = "idle"
    /\ UNCHANGED <<database, objects, gone, request, upload, saved, purge, cleanup, faults, ghosts>>

Init ==
    /\ now = 1
    /\ event = NewEvent
    /\ closedAt = [t \in Task |-> Never]
    /\ exists = Task
    /\ saved = {} /\ row = {} /\ reported = {} /\ objects = {}
    /\ chat = [t \in Group |-> "ready"] /\ gone = {}
    /\ request = [r \in Task \cup {Admin} |-> NoRequest]
    /\ upload = [p \in Photo |-> "idle"]
    /\ purge = NoPurge /\ cleanup = NoCleanup
    /\ faults = 0 /\ torn = {} /\ condemned = {}

\* A request that has begun, or an upload, goes on to its end.
Requests ==
    \/ \E t \in Task : CommitClose(t) \/ CommitDelete(t)
    \/ CommitExtend

Uploads ==
    \E p \in Photo : \/ SavePreview(p) \/ CommitPhoto(p) \/ UndoSave(p)
                     \/ DropPreview(p) \/ DropRow(p)

Purges == StartPurge \/ (\E o \in purge.todo : PurgeObject(o)) \/ CommitPurge \/ CommitWarning

Cleanups == (\E t \in Group : StartCleanup(t)) \/ DeleteGroup \/ CommitCleanup

ChatTurns == \E t \in Group : DegradeChat(t) \/ RecoverChat(t) \/ ConfigureChat(t)

Next ==
    \/ Requests \/ Uploads \/ Purges \/ Cleanups \/ ChatTurns \/ Tick
    \/ \E t \in Task : StartClose(t) \/ StartDelete(t)
    \/ \E p \in Photo : SaveOriginal(p) \/ DropOriginal(p) \/ SaveFails(p) \/ DropFails(p)
    \/ \E until \in Extensions : StartExtend(until)
    \/ PurgeObjectFails \/ CrashPurge \/ CrashCleanup

Spec == Init /\ [][Next]_vars

\* Requests end, Beat starts the jobs every day and every ten minutes, and days pass;
\* nobody has to close a task, extend the retention or touch a photo.
FairSpec ==
    /\ Spec
    /\ WF_vars(Requests) /\ WF_vars(Uploads) /\ WF_vars(Purges) /\ WF_vars(Tick)
    /\ \A t \in Group : WF_vars(StartCleanup(t))
    /\ WF_vars(DeleteGroup) /\ WF_vars(CommitCleanup)
-------------------------------------------------------------------------------
(* Safety.                                                                    *)

\* While the retention job deletes objects, the committed row of the event says that
\* they were to go when it began: no extension and no closure is committed between its
\* look at the limit and the purge.
PurgeOnlyWhenDue == purge.at = "delete" => Expired(event, purge.when)

\* A photo in the archive can be read, original and preview, unless somebody began to
\* delete it and did not get to the end.
ArchiveIsReadable == \A p \in row \ (torn \cup condemned) : PartsOf(p) \subseteq objects

\* A group is deleted in Telegram only when the archive of its task can be read, or
\* the retention job has begun to delete it since it was verified.
GroupNeedsArchive ==
    [][\A t \in gone' \ gone :
           /\ Closed(t)
           /\ \A p \in (row \ condemned) \cap PhotosOf(t) : PartsOf(p) \subseteq objects]_vars

(* Liveness.                                                                  *)

\* Whatever request overwrote the retention with an older closure, in the end it
\* covers the closure of every task with a working group: the cleanup refreshes it.
\* Not for a group that stays DEGRADED or is never READY, which no cleanup looks at.
RetentionSettles ==
    \A t \in Group :
        <>[](closedAt[t] # Never /\ chat[t] # "unready" =>
                 event.deleteAt >= closedAt[t] + Retention)

\* An archive past its limit is purged, through failures of storage and crashes.
ArchiveIsPurged == Expired(event, now) ~> (event.purged \/ ~Expired(event, now))
===============================================================================
