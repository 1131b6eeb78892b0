--------------------------- MODULE TaskReportsProofs ---------------------------
(* Theorems about TaskReports, for every set of sessions, comments, photos    *)
(* and deadlines, every limit and every bound of the clock.                   *)
EXTENDS TaskReports, FiniteSetTheorems, TLAPS

-------------------------------------------------------------------------------
(* Type correctness.                                                          *)

\* No task, no report and a new report are rows.
LEMMA NullRows == NoTask \in TaskRow /\ NoReport \in ReportRow /\ DraftReport \in ReportRow
BY DEF NoTask, NoReport, DraftReport, TaskRow, ReportRow, Stamp, Never, Comments,
       TaskStatus, ReportStatus

\* A flush of typed rows leaves a typed row.
LEMMA FlushTaskType ==
    ASSUME NEW t \in TaskRow, NEW loaded \in TaskRow, NEW new \in TaskRow
    PROVE  FlushTask(t, loaded, new) \in TaskRow
BY DEF FlushTask, Column, TaskRow

\* A commit that writes only what differs leaves a row.
LEMMA FlushReportType ==
    ASSUME NEW r \in ReportRow, NEW loaded \in ReportRow, NEW new \in ReportRow
    PROVE  FlushReport(r, loaded, new) \in ReportRow
BY DEF FlushReport, Column, ReportRow

\* A completed and a cancelled task are rows.
LEMMA ClosedTaskType ==
    ASSUME NEW t \in TaskRow, NEW now \in Nat
    PROVE  Completed(t, now) \in TaskRow /\ Cancelled(t, now) \in TaskRow
<1>1. t.deadline \in Nat
  BY DEF TaskRow
<1>2. CleanupAt(now, t.deadline) \in Stamp /\ now \in Stamp
  BY <1>1, TimeAssumption DEF CleanupAt, Later, Stamp
<1> QED
  BY <1>2 DEF Completed, Cancelled, TaskRow, TaskStatus

\* The retention of an event is a time.
LEMMA RetentionType == ASSUME NEW t \in TaskRow PROVE Retention(t) \in Stamp
<1>1. t.completedAt \in Stamp /\ t.cancelledAt \in Stamp
  BY DEF TaskRow
<1> QED
  BY <1>1, TimeAssumption DEF Retention, Later, Stamp, Never

\* The types hold at first.
LEMMA InitType == Init => TypeOK
<1> SUFFICES ASSUME Init PROVE TypeOK
  OBVIOUS
<1>1. task \in TaskRow
  BY TimeAssumption DEF Init, NoTask, TaskRow, TaskStatus, Stamp, Never
<1> QED
  BY <1>1, NullRows DEF Init, TypeOK, Stamp, Never, Comments

\* The end of a session keeps the types of what belongs to it.
LEMMA SessionEndsType ==
    ASSUME TypeOK, NEW s \in Session, SessionEnds(s)
    PROVE  /\ clock' \in Nat /\ lock' \in Session \cup {NoSession}
           /\ at' \in [Session -> {"idle", "preloaded", "lock", "insert", "write"}]
           /\ op' \in [Session -> AllOps \cup {"none"}]
           /\ seen' \in [Session -> TaskRow] /\ row' \in [Session -> ReportRow]
           /\ text' \in [Session -> Comments] /\ photo' \in [Session -> Photo \cup {NoPhoto}]
           /\ stamp' \in [Session -> Nat]
           /\ \A t \in Session : op'[t] = "confirm_photo_upload" => photo'[t] \in Photo
BY NullRows DEF TypeOK, SessionEnds, Comments

\* Starting a request, and waiting for the report, keep the types.
LEMMA StartType ==
    ASSUME TypeOK, NEW s \in Session, NEW o \in Op,
           \/ Preload(s, o) \/ RequestReportEdit(s, o)
           \/ RequestDecision(s, o) \/ RequestTaskChange(s, o)
    PROVE  TypeOK'
<1>0. o \in AllOps
  BY OpAssumption
<1>1. ASSUME NEW c \in Comments, NEW p \in Photo \cup {NoPhoto},
             NEW next \in {"lock", "write"}, ReadTask(s, o, c, p, next),
             o = "confirm_photo_upload" => p \in Photo
      PROVE  TypeOK'
  BY <1>0, <1>1 DEF ReadTask, TypeOK, dbVars
<1>2. CASE Preload(s, o)
  <2>1. report.comment \in Comments /\ NoComment \in Comments
    BY DEF TypeOK, ReportRow, Comments
  <2>2. photo' \in [Session -> Photo \cup {NoPhoto}]
    BY <1>2 DEF Preload, TypeOK
  <2>3. text' \in [Session -> Comments]
    BY <1>2, <2>1 DEF Preload, TypeOK
  <2> QED
    BY <1>0, <1>2, <2>2, <2>3 DEF Preload, TypeOK, dbVars, BotPreloads
<1>3. CASE RequestReportEdit(s, o)
  <2>1. PICK c \in Comments, p \in Photo \cup {NoPhoto} :
                /\ ReadTask(s, o, c, p, "lock")
                /\ o = "confirm_photo_upload" => p \in Photo
    BY <1>3 DEF RequestReportEdit, Comments
  <2> QED
    BY <2>1, <1>1
<1>4. CASE RequestDecision(s, o)
  BY <1>4, <1>1 DEF RequestDecision, Comments, Decisions
<1>5. CASE RequestTaskChange(s, o)
  BY <1>5, <1>1 DEF RequestTaskChange, Comments, TaskChanges
<1> QED
  BY <1>2, <1>3, <1>4, <1>5

\* The steps of a request up to its last wait keep the types.
LEMMA WaitType ==
    ASSUME TypeOK, NEW s \in Session,
           ContinueBotRequest(s) \/ LockReport(s) \/ FindNoReport(s) \/ InsertReport(s)
    PROVE  TypeOK'
<1>1. ASSUME NEW r \in ReportRow, HoldReport(s, r) PROVE TypeOK'
  BY <1>1 DEF HoldReport, TypeOK, dbVars
<1>2. CASE ContinueBotRequest(s)
  BY <1>2 DEF ContinueBotRequest, ReadTask, TypeOK, dbVars
<1>3. CASE LockReport(s)
  <2>1. LockedRow(s) \in ReportRow
    BY DEF LockedRow, TypeOK
  <2> QED
    BY <1>1, <1>3, <2>1 DEF LockReport
<1>4. CASE FindNoReport(s)
  BY <1>4 DEF FindNoReport, TypeOK, dbVars
<1>5. CASE InsertReport(s)
  BY <1>1, <1>5, NullRows DEF InsertReport
<1> QED
  BY <1>2, <1>3, <1>4, <1>5

\* A commit keeps the types.
LEMMA CommitType == ASSUME TypeOK, NEW s \in Session, Commit(s) PROVE TypeOK'
<1>1. ASSUME SessionEnds(s), task' \in TaskRow, report' \in ReportRow,
             photos' \in SUBSET Photo, queued' \in SUBSET Notice, retainUntil' \in Stamp
      PROVE  TypeOK'
  BY <1>1, SessionEndsType DEF TypeOK
<1>2. /\ task \in TaskRow /\ seen[s] \in TaskRow /\ row[s] \in ReportRow
      /\ report \in ReportRow /\ text[s] \in Comments /\ stamp[s] \in Nat
      /\ photos \in SUBSET Photo /\ queued \in SUBSET Notice /\ retainUntil \in Stamp
  BY DEF TypeOK
<1>3. ASSUME NEW new \in ReportRow, SaveReport(s, new) PROVE report' \in ReportRow
  BY <1>2, <1>3, FlushReportType DEF SaveReport
<1>4. ASSUME NEW new \in TaskRow, SaveTask(s, new) PROVE task' \in TaskRow
  BY <1>2, <1>4, FlushTaskType DEF SaveTask
<1>5. ASSUME NEW type \in Notice, Notify(type) PROVE queued' \in SUBSET Notice
  BY <1>2, <1>5 DEF Notify
<1>6. CASE SubmitForApproval(s)
  <2>1. report' \in ReportRow
    BY <1>2, <1>3, <1>6 DEF SubmitForApproval, ReportRow, ReportStatus
  <2>2. task' \in TaskRow
    BY <1>2, <1>4, <1>6 DEF SubmitForApproval, TaskRow, TaskStatus
  <2> QED
    BY <1>1, <1>2, <1>5, <1>6, <2>1, <2>2 DEF SubmitForApproval, Commits, Notice
<1>7. CASE SubmitAndComplete(s)
  <2>1. report' \in ReportRow
    BY <1>2, <1>3, <1>7 DEF SubmitAndComplete, ReportRow, ReportStatus
  <2>2. task' \in TaskRow
    BY <1>2, <1>4, <1>7, ClosedTaskType DEF SubmitAndComplete
  <2>3. retainUntil' \in Stamp
    BY <1>7, <2>2, RetentionType DEF SubmitAndComplete
  <2> QED
    BY <1>1, <1>2, <1>5, <1>7, <2>1, <2>2, <2>3 DEF SubmitAndComplete, Commits, Notice
<1>8. CASE SaveComment(s)
  <2>1. report' \in ReportRow
    BY <1>2, <1>3, <1>8 DEF SaveComment, ReportRow
  <2> QED
    BY <1>1, <1>2, <1>8, <2>1 DEF SaveComment, Commits
<1>9. CASE RequestPhotoUpload(s) \/ ConfirmPhoto(s)
  <2>1. report' \in ReportRow
    BY <1>2, <1>3, <1>9 DEF RequestPhotoUpload, ConfirmPhoto
  <2>2. CASE RequestPhotoUpload(s)
    BY <1>1, <1>2, <2>1, <2>2 DEF RequestPhotoUpload, Commits
  <2>3. CASE ConfirmPhoto(s)
    <3>1. photo[s] \in Photo
      BY <2>3 DEF ConfirmPhoto, Commits, TypeOK
    <3> QED
      BY <1>1, <1>2, <2>1, <2>3, <3>1 DEF ConfirmPhoto, Commits
  <2> QED
    BY <1>9, <2>2, <2>3
<1>10. CASE DeletePhoto(s)
  BY <1>1, <1>2, <1>10 DEF DeletePhoto, Commits
<1>11. CASE ApproveReport(s)
  <2>1. report' \in ReportRow
    BY <1>2, <1>3, <1>11 DEF ApproveReport, ReportRow, ReportStatus
  <2>2. task' \in TaskRow
    BY <1>2, <1>4, <1>11, ClosedTaskType DEF ApproveReport
  <2>3. retainUntil' \in Stamp
    BY <1>11, <2>2, RetentionType DEF ApproveReport
  <2> QED
    BY <1>1, <1>2, <1>5, <1>11, <2>1, <2>2, <2>3 DEF ApproveReport, Commits, Notice
<1>12. CASE ReturnReport(s)
  <2>1. report' \in ReportRow
    BY <1>2, <1>3, <1>12 DEF ReturnReport, ReportRow, ReportStatus
  <2>2. task' \in TaskRow
    BY <1>2, <1>4, <1>12 DEF ReturnReport, TaskRow, TaskStatus
  <2> QED
    BY <1>1, <1>2, <1>5, <1>12, <2>1, <2>2 DEF ReturnReport, Commits, Notice
<1>13. CASE UpdateTask(s)
  <2>1. PICK d \in Deadline : SaveTask(s, [seen[s] EXCEPT !.deadline = d])
    BY <1>13 DEF UpdateTask
  <2>2. [seen[s] EXCEPT !.deadline = d] \in TaskRow
    BY <1>2, TimeAssumption DEF TaskRow
  <2>3. task' \in TaskRow
    BY <1>4, <2>1, <2>2
  <2> QED
    BY <1>1, <1>2, <1>5, <1>13, <2>3 DEF UpdateTask, Commits, Notice
<1>14. CASE CancelTask(s)
  <2>1. task' \in TaskRow
    BY <1>2, <1>4, <1>14, ClosedTaskType DEF CancelTask
  <2>2. retainUntil' \in Stamp
    BY <1>14, <2>1, RetentionType DEF CancelTask
  <2> QED
    BY <1>1, <1>2, <1>5, <1>14, <2>1, <2>2 DEF CancelTask, Commits, Notice
<1>15. CASE DeleteTask(s)
  BY <1>1, <1>15, NullRows DEF DeleteTask, Commits, Notice, Stamp
<1> QED
  BY <1>6, <1>7, <1>8, <1>9, <1>10, <1>11, <1>12, <1>13, <1>14, <1>15 DEF Commit

\* The deadline job and the clock keep the types.
LEMMA BackgroundType ==
    ASSUME TypeOK, MarkOverdue \/ RemindDeadline \/ Tick PROVE TypeOK'
<1>1. CASE MarkOverdue
  <2>1. task' \in TaskRow
    BY <1>1 DEF MarkOverdue, TypeOK, TaskRow, TaskStatus
  <2> QED
    BY <1>1, <2>1 DEF MarkOverdue, Notify, TypeOK, Notice, sessionVars
<1>2. CASE RemindDeadline
  BY <1>2 DEF RemindDeadline, Notify, TypeOK, Notice, sessionVars
<1>3. CASE Tick
  BY <1>3 DEF Tick, TypeOK, dbVars, sessionVars
<1> QED
  BY <1>1, <1>2, <1>3

\* Every step keeps the types.
LEMMA NextType == TypeOK /\ [Next]_vars => TypeOK'
<1> SUFFICES ASSUME TypeOK, [Next]_vars PROVE TypeOK'
  OBVIOUS
<1>1. ASSUME NEW s \in Session, Start(s) PROVE TypeOK'
  BY <1>1, StartType DEF Start
<1>2. ASSUME NEW s \in Session, Proceed(s) PROVE TypeOK'
  <2>1. CASE Refuse(s)
    BY <2>1, SessionEndsType DEF Refuse, TypeOK, dbVars
  <2> QED
    BY <1>2, <2>1, WaitType, CommitType DEF Proceed
<1>3. ASSUME NEW s \in Session, Abort(s) PROVE TypeOK'
  BY <1>3, SessionEndsType DEF Abort, TypeOK, dbVars
<1>4. CASE UNCHANGED vars
  BY <1>4 DEF vars, dbVars, sessionVars, TypeOK
<1> QED
  BY <1>1, <1>2, <1>3, <1>4, BackgroundType DEF Next

\* Every row, snapshot and request of a reachable state is well formed: a stale
\* object flushed column by column never yields an ill-formed row.
THEOREM TypeCorrect == Spec => []TypeOK
<1> QED
  BY InitType, NextType, PTL DEF Spec
-------------------------------------------------------------------------------
(* The row lock of the report is held by the session about to change it.      *)

LockInv == LockHeldByWriter /\ WaitsForReport

\* At first nobody holds the row lock.
LEMMA InitLock == Init => LockInv
BY SessionAssumption DEF Init, LockInv, LockHeldByWriter, WaitsForReport, WritesReport

\* Two sessions are never about to change the report at once.
LEMMA OneWriter ==
    ASSUME LockHeldByWriter, NEW s \in Session, NEW t \in Session,
           WritesReport(s), WritesReport(t)
    PROVE  s = t
BY DEF LockHeldByWriter

\* Who is about to write the report holds its lock, after every step.
LEMMA LockStep == TypeOK /\ LockInv /\ [Next]_vars => LockInv'
<1> SUFFICES ASSUME TypeOK, LockInv, [Next]_vars PROVE LockInv'
  OBVIOUS
<1> USE DEF LockInv, LockHeldByWriter, WaitsForReport, WritesReport
<1>0. /\ at \in [Session -> {"idle", "preloaded", "lock", "insert", "write"}]
      /\ op \in [Session -> AllOps \cup {"none"}]
  BY DEF TypeOK
<1>1. ASSUME NEW s \in Session, Start(s) PROVE LockInv'
  <2>1. PICK o \in Op : \/ Preload(s, o) \/ RequestReportEdit(s, o)
                        \/ RequestDecision(s, o) \/ RequestTaskChange(s, o)
    BY <1>1 DEF Start
  <2>2. CASE Preload(s, o)
    BY <1>0, <2>2 DEF Preload, BotPreloads, TaskChanges
  <2>3. CASE RequestReportEdit(s, o)
    BY <1>0, <2>3 DEF RequestReportEdit, ReadTask, ReportEdits, TaskChanges
  <2>4. CASE RequestDecision(s, o)
    BY <1>0, <2>4 DEF RequestDecision, ReadTask, Decisions, TaskChanges
  <2>5. CASE RequestTaskChange(s, o)
    BY <1>0, <2>5 DEF RequestTaskChange, ReadTask, TaskChanges
  <2> QED
    BY <2>1, <2>2, <2>3, <2>4, <2>5
<1>2. ASSUME NEW s \in Session, SessionEnds(s) PROVE LockInv'
  BY <1>0, <1>2, SessionAssumption DEF SessionEnds
<1>3. ASSUME NEW s \in Session, Proceed(s) PROVE LockInv'
  <2>1. CASE ContinueBotRequest(s)
    BY <1>0, <2>1 DEF ContinueBotRequest, ReadTask
  <2>2. CASE FindNoReport(s)
    BY <1>0, <2>2 DEF FindNoReport
  <2>3. CASE Refuse(s)
    BY <1>2, <2>3 DEF Refuse
  <2>4. CASE Commit(s)
    <3>1. SessionEnds(s)
      BY <2>4 DEF Commit, Commits, SubmitForApproval, SubmitAndComplete, SaveComment,
                  RequestPhotoUpload, ConfirmPhoto, DeletePhoto, ApproveReport, ReturnReport,
                  UpdateTask, CancelTask, DeleteTask
    <3> QED
      BY <1>2, <3>1
  <2>5. ASSUME NEW r, HoldReport(s, r), ReportFree, op[s] \notin TaskChanges
        PROVE  LockInv'
    BY <1>0, <2>5, SessionAssumption DEF HoldReport, ReportFree
  <2>6. CASE LockReport(s) \/ InsertReport(s)
    <3>1. op[s] \notin TaskChanges
      BY <2>6 DEF LockReport, InsertReport
    <3> QED
      BY <2>5, <2>6, <3>1 DEF LockReport, InsertReport
  <2> QED
    BY <1>3, <2>1, <2>2, <2>3, <2>4, <2>6 DEF Proceed
<1>4. CASE UNCHANGED vars
  BY <1>4 DEF vars, sessionVars
<1>5. CASE MarkOverdue \/ RemindDeadline \/ Tick
  BY <1>5 DEF MarkOverdue, RemindDeadline, Tick, sessionVars
<1> QED
  BY <1>1, <1>2, <1>3, <1>4, <1>5 DEF Next, Abort
-------------------------------------------------------------------------------
(* The limit of photos: only the session that holds the report changes them,  *)
(* and the room it counted under the lock is still there when it commits.     *)

\* At first there are no photos.
LEMMA InitPhotos == Init => PhotoLimitHeld /\ RoomKept
BY FS_EmptySet, LimitAssumption DEF Init, PhotoLimitHeld, RoomKept

\* One photo more or less changes their number by one at most.
LEMMA CountPhotos ==
    ASSUME TypeOK, NEW p
    PROVE  /\ IsFiniteSet(photos) /\ Cardinality(photos) \in Nat
           /\ Cardinality(photos \cup {p}) <= Cardinality(photos) + 1
           /\ Cardinality(photos \ {p}) <= Cardinality(photos)
<1>1. IsFiniteSet(photos)
  BY PhotoAssumption, FS_Subset DEF TypeOK
<1>2. Cardinality(photos) \in Nat
  BY <1>1, FS_CardinalityType
<1>3. Cardinality(photos \cup {p}) <= Cardinality(photos) + 1
  BY <1>1, <1>2, FS_AddElement
<1>4. Cardinality(photos \ {p}) <= Cardinality(photos)
  BY <1>1, <1>2, FS_RemoveElement
<1> QED
  BY <1>1, <1>2, <1>3, <1>4

\* Every step keeps the limit, and the room that was counted.
LEMMA PhotoStep == PhotoInv /\ [Next]_vars => PhotoLimitHeld' /\ RoomKept'
<1> SUFFICES ASSUME PhotoInv, [Next]_vars PROVE PhotoLimitHeld' /\ RoomKept'
  OBVIOUS
<1> USE DEF PhotoLimitHeld, RoomKept, RoomForPhoto
<1>0. /\ TypeOK /\ LockHeldByWriter /\ PhotoLimitHeld /\ RoomKept
      /\ at \in [Session -> {"idle", "preloaded", "lock", "insert", "write"}]
      /\ op \in [Session -> AllOps \cup {"none"}]
  BY DEF PhotoInv, TypeOK
<1>1. ASSUME NEW s \in Session, Start(s) PROVE PhotoLimitHeld' /\ RoomKept'
  <2>1. PICK o \in Op : \/ Preload(s, o) \/ RequestReportEdit(s, o)
                        \/ RequestDecision(s, o) \/ RequestTaskChange(s, o)
    BY <1>1 DEF Start
  <2>2. photos' = photos
    BY <2>1 DEF Preload, RequestReportEdit, RequestDecision, RequestTaskChange, ReadTask, dbVars
  <2>3. \A t \in Session : at'[t] = "write" /\ op'[t] = "confirm_photo_upload"
                            => at[t] = "write" /\ op[t] = "confirm_photo_upload"
    <3>1. CASE Preload(s, o)
      BY <1>0, <3>1 DEF Preload
    <3>2. CASE RequestReportEdit(s, o) \/ RequestDecision(s, o)
      BY <1>0, <3>2 DEF RequestReportEdit, RequestDecision, ReadTask
    <3>3. CASE RequestTaskChange(s, o)
      BY <1>0, <3>3 DEF RequestTaskChange, ReadTask, TaskChanges
    <3> QED
      BY <2>1, <3>1, <3>2, <3>3
  <2> QED
    BY <1>0, <2>2, <2>3
<1>2. ASSUME NEW s \in Session, SessionEnds(s), photos' = photos
      PROVE  PhotoLimitHeld' /\ RoomKept'
  BY <1>0, <1>2 DEF SessionEnds
<1>3. ASSUME NEW s \in Session, NEW r, HoldReport(s, r), Accepts(s, r)
      PROVE  PhotoLimitHeld' /\ RoomKept'
  BY <1>0, <1>3 DEF HoldReport, Accepts, dbVars
<1>4. ASSUME NEW s \in Session, Commit(s) PROVE PhotoLimitHeld' /\ RoomKept'
  <2>1. CASE ConfirmPhoto(s)
    <3>1. Cardinality(photos) < PhotoLimit
      BY <1>0, <2>1 DEF ConfirmPhoto, Commits
    <3>2. Cardinality(photos') <= PhotoLimit
      <4>1. /\ photos' = photos \cup {photo[s]}
            /\ Cardinality(photos) \in Nat /\ Cardinality(photos') \in Nat
            /\ Cardinality(photos') <= Cardinality(photos) + 1
        BY <1>0, <2>1, CountPhotos, FS_AddElement, FS_CardinalityType DEF ConfirmPhoto
      <4> QED
        BY <3>1, <4>1, LimitAssumption
    <3>3. \A t \in Session : ~(at'[t] = "write" /\ op'[t] = "confirm_photo_upload")
      <4>1. WritesReport(s)
        BY <2>1 DEF ConfirmPhoto, Commits, WritesReport, TaskChanges
      <4>2. ASSUME NEW t \in Session, at[t] = "write", op[t] = "confirm_photo_upload"
            PROVE  t = s
        BY <1>0, <4>1, <4>2, OneWriter DEF WritesReport, TaskChanges
      <4> QED
        BY <1>0, <2>1, <4>2 DEF ConfirmPhoto, Commits, SessionEnds
    <3> QED
      BY <3>2, <3>3
  <2>2. CASE DeletePhoto(s)
    <3>1. /\ Cardinality(photos') <= Cardinality(photos)
          /\ Cardinality(photos) \in Nat /\ Cardinality(photos') \in Nat
      <4>1. photos' = photos \ {photo[s]} /\ IsFiniteSet(photos')
        BY <1>0, <2>2, CountPhotos, FS_Subset DEF DeletePhoto
      <4> QED
        BY <1>0, <4>1, CountPhotos, FS_CardinalityType
    <3>2. \A t \in Session : at'[t] = "write" /\ op'[t] = "confirm_photo_upload"
                              => at[t] = "write" /\ op[t] = "confirm_photo_upload"
      BY <1>0, <2>2 DEF DeletePhoto, Commits, SessionEnds
    <3> QED
      BY <1>0, <3>1, <3>2, LimitAssumption
  <2>3. CASE DeleteTask(s)
    BY <2>3, FS_EmptySet, LimitAssumption DEF DeleteTask
  <2>4. CASE \/ SubmitForApproval(s) \/ SubmitAndComplete(s) \/ SaveComment(s)
            \/ RequestPhotoUpload(s) \/ ApproveReport(s) \/ ReturnReport(s)
            \/ UpdateTask(s) \/ CancelTask(s)
    <3>1. SessionEnds(s) /\ photos' = photos
      BY <2>4 DEF SubmitForApproval, SubmitAndComplete, SaveComment, RequestPhotoUpload,
                  ApproveReport, ReturnReport, UpdateTask, CancelTask, Commits
    <3> QED
      BY <1>2, <3>1
  <2> QED
    BY <1>4, <2>1, <2>2, <2>3, <2>4 DEF Commit
<1>5. ASSUME NEW s \in Session, Proceed(s) PROVE PhotoLimitHeld' /\ RoomKept'
  <2>1. CASE ContinueBotRequest(s)
    BY <1>0, <2>1 DEF ContinueBotRequest, ReadTask, dbVars
  <2>2. CASE FindNoReport(s)
    BY <1>0, <2>2 DEF FindNoReport, dbVars
  <2>3. CASE LockReport(s) \/ InsertReport(s)
    BY <1>3, <2>3 DEF LockReport, InsertReport
  <2>4. CASE Refuse(s)
    BY <1>2, <2>4 DEF Refuse, dbVars
  <2> QED
    BY <1>4, <1>5, <2>1, <2>2, <2>3, <2>4 DEF Proceed
<1>6. CASE (\E s \in Session : Abort(s)) \/ MarkOverdue \/ RemindDeadline \/ Tick
  BY <1>0, <1>2, <1>6 DEF Abort, MarkOverdue, RemindDeadline, Tick, dbVars, sessionVars
<1>7. CASE UNCHANGED vars
  BY <1>0, <1>7 DEF vars, dbVars, sessionVars
<1> QED
  BY <1>1, <1>5, <1>6, <1>7 DEF Next

\* A report never holds more than PhotoLimit photos, however many requests add
\* and delete photos at once and wherever they fail.
THEOREM PhotoLimitTheorem == Spec => []PhotoLimitHeld
<1>1. Init => PhotoInv
  BY InitType, InitLock, InitPhotos DEF PhotoInv, LockInv
<1>2. PhotoInv /\ [Next]_vars => PhotoInv'
  BY NextType, LockStep, PhotoStep DEF PhotoInv, LockInv
<1>3. PhotoInv => PhotoLimitHeld
  BY DEF PhotoInv
<1> QED
  BY <1>1, <1>2, <1>3, PTL DEF Spec
-------------------------------------------------------------------------------
(* Without the bot callbacks that preload the report and without delete_task, *)
(* a session that is about to change the report holds it as it is in the      *)
(* table, so that a report that was handed in is frozen.                      *)

FreshOps == Op \cap (BotPreloads \cup {"delete_task"}) = {}

\* Only the operations the clients use are in progress, and no report object is
\* in an identity map before its row was locked.
LoadedUnderLock ==
    \A s \in Session :
        /\ op[s] \in Op \cup {"none"}
        /\ at[s] # "preloaded"
        /\ at[s] \in {"idle", "lock", "insert"} => row[s] = NoReport

\* The object a session is about to save is the committed row or a draft it has
\* just inserted, and passed the check of its operation.
FreshRow ==
    \A s \in Session : WritesReport(s) =>
        /\ report.status # "absent" => row[s] = report
        /\ IF op[s] \in Decisions
           THEN report.status = "submitted" ELSE EditableReport(row[s])

FreshInv == TypeOK /\ LockInv /\ LoadedUnderLock /\ FreshRow

\* At first no session has loaded anything.
LEMMA InitFresh == Init => FreshInv
<1> SUFFICES ASSUME Init PROVE LoadedUnderLock /\ FreshRow
  BY InitType, InitLock DEF FreshInv
<1> QED
  BY DEF Init, LoadedUnderLock, FreshRow, WritesReport

\* A commit ends its session.
LEMMA CommitEnds == ASSUME NEW s \in Session, Commit(s) PROVE SessionEnds(s)
BY DEF Commit, Commits, SubmitForApproval, SubmitAndComplete, SaveComment,
       RequestPhotoUpload, ConfirmPhoto, DeletePhoto, ApproveReport, ReturnReport,
       UpdateTask, CancelTask, DeleteTask

\* A commit that is not a deletion changes the report only if it holds it.
LEMMA CommitKeepsReport ==
    ASSUME FreshOps, LoadedUnderLock, NEW s \in Session, Commit(s), ~WritesReport(s)
    PROVE  report' = report /\ photos' = photos
<1>1. op[s] # "delete_task"
  BY OpAssumption DEF LoadedUnderLock, FreshOps
<1> QED
  BY <1>1 DEF Commit, Commits, SubmitForApproval, SubmitAndComplete, SaveComment,
       RequestPhotoUpload, ConfirmPhoto, DeletePhoto, ApproveReport, ReturnReport,
       UpdateTask, CancelTask, DeleteTask, WritesReport, TaskChanges

\* Without preloads, a report at hand was loaded under the lock.
LEMMA LoadedStep ==
    ASSUME FreshOps, TypeOK, LoadedUnderLock, [Next]_vars PROVE LoadedUnderLock'
<1> USE DEF LoadedUnderLock
<1>0. /\ at \in [Session -> {"idle", "preloaded", "lock", "insert", "write"}]
      /\ op \in [Session -> AllOps \cup {"none"}] /\ row \in [Session -> ReportRow]
  BY DEF TypeOK
<1>1. ASSUME NEW s \in Session, Start(s) PROVE LoadedUnderLock'
  <2>1. PICK o \in Op : \/ Preload(s, o) \/ RequestReportEdit(s, o)
                        \/ RequestDecision(s, o) \/ RequestTaskChange(s, o)
    BY <1>1 DEF Start
  <2>2. ~Preload(s, o)
    BY DEF Preload, FreshOps
  <2> QED
    BY <1>0, <2>1, <2>2 DEF RequestReportEdit, RequestDecision, RequestTaskChange, ReadTask
<1>2. ASSUME NEW s \in Session, SessionEnds(s) PROVE LoadedUnderLock'
  BY <1>0, <1>2 DEF SessionEnds
<1>3. ASSUME NEW s \in Session, Proceed(s) PROVE LoadedUnderLock'
  <2>1. CASE ContinueBotRequest(s)
    BY <2>1 DEF ContinueBotRequest
  <2>2. CASE LockReport(s) \/ InsertReport(s)
    BY <1>0, <2>2 DEF LockReport, InsertReport, HoldReport
  <2>3. CASE FindNoReport(s)
    BY <1>0, <2>3 DEF FindNoReport
  <2>4. CASE Refuse(s) \/ Commit(s)
    BY <1>2, <2>4, CommitEnds DEF Refuse
  <2> QED
    BY <1>3, <2>1, <2>2, <2>3, <2>4 DEF Proceed
<1>4. CASE (\E s \in Session : Abort(s)) \/ MarkOverdue \/ RemindDeadline \/ Tick
  BY <1>2, <1>4 DEF Abort, MarkOverdue, RemindDeadline, Tick, sessionVars
<1>5. CASE UNCHANGED vars
  BY <1>5 DEF vars, sessionVars
<1> QED
  BY <1>1, <1>3, <1>4, <1>5 DEF Next

\* Every step keeps FreshInv.
LEMMA FreshStep == ASSUME FreshOps, FreshInv, [Next]_vars PROVE FreshInv'
<1>0. /\ TypeOK /\ LockInv /\ LoadedUnderLock /\ FreshRow /\ LockHeldByWriter
      /\ at \in [Session -> {"idle", "preloaded", "lock", "insert", "write"}]
      /\ op \in [Session -> AllOps \cup {"none"}] /\ row \in [Session -> ReportRow]
  BY DEF FreshInv, LockInv, TypeOK
<1>1. TypeOK' /\ LockInv' /\ LoadedUnderLock'
  BY <1>0, NextType, LockStep, LoadedStep
<1>2. FreshRow'
  <2> USE DEF FreshRow, WritesReport
  <2>1. ASSUME NEW s \in Session, Start(s) PROVE FreshRow'
    <3>1. PICK o \in Op : \/ Preload(s, o) \/ RequestReportEdit(s, o)
                          \/ RequestDecision(s, o) \/ RequestTaskChange(s, o)
      BY <2>1 DEF Start
    <3>2. ~Preload(s, o)
      BY DEF Preload, FreshOps
    <3>3. CASE RequestReportEdit(s, o) \/ RequestDecision(s, o)
      BY <1>0, <3>3 DEF RequestReportEdit, RequestDecision, ReadTask, dbVars
    <3>4. CASE RequestTaskChange(s, o)
      BY <1>0, <3>4 DEF RequestTaskChange, ReadTask, dbVars, TaskChanges
    <3> QED
      BY <3>1, <3>2, <3>3, <3>4
  <2>2. ASSUME NEW s \in Session, SessionEnds(s), report' = report PROVE FreshRow'
    BY <1>0, <2>2 DEF SessionEnds
  <2>3. ASSUME NEW s \in Session, Commit(s) PROVE FreshRow'
    <3>1. SessionEnds(s)
      BY <2>3, CommitEnds
    <3>2. CASE WritesReport(s)
      <4>1. \A t \in Session : ~WritesReport(t)'
        BY <1>0, <3>1, <3>2, OneWriter DEF SessionEnds
      <4> QED
        BY <4>1
    <3>3. CASE ~WritesReport(s)
      BY <1>0, <2>2, <2>3, <3>1, <3>3, CommitKeepsReport
    <3> QED
      BY <3>2, <3>3
  <2>4. ASSUME NEW s \in Session, Proceed(s) PROVE FreshRow'
    <3>1. CASE ContinueBotRequest(s)
      BY <1>0, <3>1 DEF ContinueBotRequest, LoadedUnderLock
    <3>2. CASE LockReport(s)
      <4>1. LockedRow(s) = report
        BY <1>0, <3>2 DEF LockReport, LockedRow, LoadedUnderLock, NoReport
      <4> QED
        BY <1>0, <3>2, <4>1 DEF LockReport, HoldReport, Accepts, dbVars
    <3>3. CASE FindNoReport(s)
      BY <1>0, <3>3 DEF FindNoReport, dbVars
    <3>4. CASE InsertReport(s)
      <4>1. op[s] \notin Decisions
        BY <3>4 DEF InsertReport, Accepts, DraftReport, NoReport
      <4>2. EditableReport(DraftReport)
        BY DEF EditableReport, DraftReport, NoReport
      <4> QED
        BY <1>0, <3>4, <4>1, <4>2 DEF InsertReport, HoldReport, dbVars
    <3>5. CASE Refuse(s)
      BY <2>2, <3>5 DEF Refuse, dbVars
    <3> QED
      BY <2>3, <2>4, <3>1, <3>2, <3>3, <3>4, <3>5 DEF Proceed
  <2>5. CASE (\E s \in Session : Abort(s)) \/ MarkOverdue \/ RemindDeadline \/ Tick
    BY <1>0, <2>2, <2>5 DEF Abort, MarkOverdue, RemindDeadline, Tick, dbVars, sessionVars
  <2>6. CASE UNCHANGED vars
    BY <1>0, <2>6 DEF vars, dbVars, sessionVars
  <2> QED
    BY <2>1, <2>4, <2>5, <2>6 DEF Next
<1> QED
  BY <1>1, <1>2 DEF FreshInv

\* One step of SubmittedReportFrozen.
Frozen ==
    report.status \in {"submitted", "approved"} =>
        /\ report'.comment = report.comment
        /\ photos' = photos
        /\ report'.status \in {"submitted", "approved", "returned"}
        /\ report.status = "approved" => report' = report

\* No step changes a report that is frozen.
LEMMA FrozenStep == ASSUME FreshOps, FreshInv, [Next]_vars PROVE Frozen
<1>0. TypeOK /\ LoadedUnderLock /\ FreshRow /\ report \in ReportRow
  BY DEF FreshInv, TypeOK
<1>1. ASSUME report' = report, photos' = photos PROVE Frozen
  BY <1>1 DEF Frozen
<1>2. ASSUME NEW s \in Session, Commit(s) PROVE Frozen
  <2> SUFFICES ASSUME WritesReport(s), report.status \in {"submitted", "approved"}
               PROVE  Frozen
    BY <1>0, <1>1, <1>2, CommitKeepsReport DEF Frozen
  <2>1. row[s] = report /\ report.status = "submitted" /\ op[s] \in Decisions
    BY <1>0 DEF FreshRow, EditableReport
  <2>2. ApproveReport(s) \/ ReturnReport(s)
    BY <1>2, <2>1 DEF Commit, Commits, SubmitForApproval, SubmitAndComplete, SaveComment,
       RequestPhotoUpload, ConfirmPhoto, DeletePhoto, UpdateTask, CancelTask, DeleteTask,
       Decisions
  <2>3. photos' = photos
    BY <2>2 DEF ApproveReport, ReturnReport
  <2>4. report'.comment = report.comment /\ report'.status \in {"approved", "returned"}
    <3>1. PICK new \in ReportRow :
             /\ new.comment = report.comment /\ new.status \in {"approved", "returned"}
             /\ SaveReport(s, new)
      <4>1. CASE ApproveReport(s)
        <5> DEFINE new == [row[s] EXCEPT !.status = "approved", !.approved = TRUE,
                                         !.returned = FALSE]
        <5>1. new \in ReportRow /\ new.comment = report.comment /\ new.status = "approved"
          BY <1>0, <2>1 DEF ReportRow, ReportStatus
        <5> QED
          BY <4>1, <5>1 DEF ApproveReport
      <4>2. CASE ReturnReport(s)
        <5> DEFINE new == [row[s] EXCEPT !.status = "returned", !.returned = TRUE,
                                         !.approved = FALSE]
        <5>1. new \in ReportRow /\ new.comment = report.comment /\ new.status = "returned"
          BY <1>0, <2>1 DEF ReportRow, ReportStatus
        <5> QED
          BY <4>2, <5>1 DEF ReturnReport
      <4> QED
        BY <2>2, <4>1, <4>2
    <3> QED
      BY <2>1, <3>1 DEF SaveReport, FlushReport, Column
  <2> QED
    BY <2>1, <2>3, <2>4 DEF Frozen
<1>3. ASSUME NEW s \in Session, Start(s) \/ Abort(s) \/ (Proceed(s) /\ ~Commit(s)) PROVE Frozen
  BY <1>1, <1>3 DEF Start, Preload, RequestReportEdit, RequestDecision, RequestTaskChange,
     ReadTask, Abort, Proceed, ContinueBotRequest, LockReport, FindNoReport, InsertReport,
     HoldReport, Refuse, dbVars
<1>4. CASE MarkOverdue \/ RemindDeadline \/ Tick \/ UNCHANGED vars
  BY <1>1, <1>4 DEF MarkOverdue, RemindDeadline, Tick, vars, dbVars
<1> QED
  BY <1>2, <1>3, <1>4 DEF Next

\* As long as no client uses the bot's report_submit and report_photo_delete, and
\* nobody deletes the task, a report that was handed in is frozen: the check
\* under the row lock is enough although the task is read without a lock.
THEOREM FrozenTheorem == ASSUME FreshOps PROVE Spec => SubmittedReportFrozen
<1>1. Init => FreshInv
  BY InitFresh
<1>2. FreshInv /\ [Next]_vars => FreshInv'
  BY FreshStep
<1>3. FreshInv /\ [Next]_vars => [Frozen]_vars
  BY FrozenStep
<1>4. Spec => [][Frozen]_vars
  BY <1>1, <1>2, <1>3, PTL DEF Spec
<1> QED
  BY <1>4 DEF SubmittedReportFrozen, Frozen
===============================================================================
