---------------------------- MODULE TaskReviewProofs ----------------------------
(* What the review of a report leaves behind in the task, its report and its  *)
(* event: theorems about TaskReports that relate rows read at different        *)
(* moments.                                                                   *)
EXTENDS TaskReportsProofs

-------------------------------------------------------------------------------
(* The effect of every step.                                                  *)

\* Only the commit of a request and the deadline job change committed rows.
LEMMA WhoWrites ==
    ASSUME [Next]_vars
    PROVE  \/ UNCHANGED dbVars
           \/ \E s \in Session : Commit(s)
           \/ MarkOverdue
           \/ RemindDeadline
<1>1. ASSUME NEW s \in Session, Start(s) \/ Abort(s) \/ (Proceed(s) /\ ~Commit(s))
      PROVE  UNCHANGED dbVars
  BY <1>1 DEF Start, Preload, RequestReportEdit, RequestDecision, RequestTaskChange,
     ReadTask, Abort, Proceed, ContinueBotRequest, LockReport, FindNoReport, InsertReport,
     HoldReport, Refuse
<1>2. CASE Tick \/ UNCHANGED vars
  BY <1>2 DEF Tick, vars
<1> QED
  BY <1>1, <1>2 DEF Next

-------------------------------------------------------------------------------
(* The records of the event are kept long enough.                             *)

\* The later of two times the archive period has to count from.
LEMMA RetentionCovers ==
    ASSUME NEW t \in TaskRow
    PROVE  /\ t.completedAt # Never => Retention(t) >= t.completedAt + ArchivePeriod
           /\ t.cancelledAt # Never => Retention(t) >= t.cancelledAt + ArchivePeriod
<1>1. t.completedAt \in Stamp /\ t.cancelledAt \in Stamp
  BY DEF TaskRow
<1> QED
  BY <1>1, TimeAssumption DEF Retention, Later, Stamp, Never

\* Every step that closes the task moves the retention behind it.
LEMMA RetentionStep ==
    ASSUME TypeOK, RetentionCoversClosure, [Next]_vars
    PROVE  RetentionCoversClosure'
<1>1. ASSUME task'.completedAt = task.completedAt, task'.cancelledAt = task.cancelledAt,
             retainUntil' = retainUntil
      PROVE  RetentionCoversClosure'
  BY <1>1 DEF RetentionCoversClosure
<1>2. ASSUME NEW s \in Session, Commit(s) PROVE RetentionCoversClosure'
  <2>1. CASE SubmitAndComplete(s) \/ ApproveReport(s) \/ CancelTask(s)
    <3>1. task' \in TaskRow /\ retainUntil' = Retention(task')
      BY <1>2, <2>1, CommitType DEF TypeOK, SubmitAndComplete, ApproveReport, CancelTask
    <3> QED
      BY <3>1, RetentionCovers DEF RetentionCoversClosure
  <2>2. CASE DeleteTask(s)
    BY <2>2 DEF DeleteTask, RetentionCoversClosure, NoTask
  <2>3. CASE SubmitForApproval(s) \/ ReturnReport(s)
    BY <1>1, <2>3
       DEF SubmitForApproval, ReturnReport, SaveTask, FlushTask, Column, TypeOK, TaskRow
  <2>4. CASE UpdateTask(s)
    BY <1>1, <2>4 DEF UpdateTask, SaveTask, FlushTask, Column, TypeOK, TaskRow
  <2>5. CASE \/ SaveComment(s) \/ RequestPhotoUpload(s) \/ ConfirmPhoto(s) \/ DeletePhoto(s)
    BY <1>1, <2>5 DEF SaveComment, RequestPhotoUpload, ConfirmPhoto, DeletePhoto
  <2> QED
    BY <1>2, <2>1, <2>2, <2>3, <2>4, <2>5 DEF Commit
<1>3. CASE UNCHANGED dbVars
  BY <1>1, <1>3 DEF dbVars
<1>4. CASE MarkOverdue \/ RemindDeadline
  BY <1>1, <1>4 DEF MarkOverdue, RemindDeadline, TypeOK, TaskRow
<1> QED
  BY <1>2, <1>3, <1>4, WhoWrites

\* A request that completes or cancels the task writes only the columns it changed,
\* but computes the retention from the row as it is then: the records are kept for
\* the archive period after every closure, whichever of two closures came last.
THEOREM RetentionTheorem == Spec => []RetentionCoversClosure
<1>1. Init => RetentionCoversClosure
  BY DEF Init, RetentionCoversClosure, NoTask
<1> QED
  BY <1>1, RetentionStep, TypeCorrect, PTL DEF Spec
-------------------------------------------------------------------------------
(* A decision is taken once, on a report that was handed in.                  *)

Points == {"idle", "preloaded", "lock", "insert", "write"}

\* A decision finds no report in its identity map, so that what it locks is the
\* committed row.
NothingPreloaded ==
    \A s \in Session :
        /\ at[s] = "idle" => row[s] = NoReport
        /\ at[s] = "preloaded" => op[s] \in BotPreloads
        /\ at[s] = "lock" /\ op[s] \in Decisions => row[s] = NoReport

\* The report a decision is about stays submitted until it is committed, and a
\* session about to change a report that is not committed has just created it.
HeldReport ==
    \A s \in Session : WritesReport(s) =>
        /\ op[s] \in Decisions => report.status = "submitted"
        /\ report.status = "absent" => row[s] = DraftReport

\* The kind of a task never changes, so that every request knows it.
KnowsKind ==
    \A s \in Session :
        at[s] \in {"lock", "insert", "write"} =>
            seen[s].kind = task.kind \/ task.status = "absent"

ReadsInv == NothingPreloaded /\ HeldReport /\ KnowsKind

DecisionInv == TypeOK /\ LockInv /\ ReadsInv

\* The types of the variables of a session, opened.
LEMMA SessionTypes ==
    ASSUME TypeOK
    PROVE  /\ at \in [Session -> Points]
           /\ op \in [Session -> AllOps \cup {"none"}]
           /\ seen \in [Session -> TaskRow] /\ row \in [Session -> ReportRow]
           /\ task \in TaskRow /\ report \in ReportRow
BY DEF TypeOK, Points

\* What a step does to the sessions: one goes on, and the others stay where they are.
LEMMA CommitChangesKind ==
    ASSUME NEW s \in Session, Commit(s)
    PROVE  task'.kind = task.kind \/ task'.status = "absent"
BY DEF Commit, SubmitForApproval, SubmitAndComplete, SaveComment, RequestPhotoUpload,
       ConfirmPhoto, DeletePhoto, ApproveReport, ReturnReport, UpdateTask, CancelTask,
       DeleteTask, SaveTask, FlushTask, NoTask

\* A commit that does not hold the report leaves it alone, or deletes it while
\* nobody holds it.
LEMMA OtherCommits ==
    ASSUME LockInv, NEW s \in Session, Commit(s), ~WritesReport(s)
    PROVE  report' = report \/ \A t \in Session : ~WritesReport(t)
<1>1. op[s] \in TaskChanges
  BY DEF WritesReport, Commit, Commits, SubmitForApproval, SubmitAndComplete, SaveComment,
         RequestPhotoUpload, ConfirmPhoto, DeletePhoto, ApproveReport, ReturnReport,
         UpdateTask, CancelTask, DeleteTask
<1>2. CASE DeleteTask(s)
  BY <1>2, SessionAssumption DEF DeleteTask, ReportFree, LockInv, LockHeldByWriter
<1>3. CASE ~DeleteTask(s)
  BY <1>1, <1>3 DEF Commit, Commits, SubmitForApproval, SubmitAndComplete, SaveComment,
         RequestPhotoUpload, ConfirmPhoto, DeletePhoto, ApproveReport, ReturnReport,
         UpdateTask, CancelTask, TaskChanges
<1> QED
  BY <1>2, <1>3

\* At first nobody decides anything.
LEMMA InitDecision == Init => DecisionInv
<1> SUFFICES ASSUME Init PROVE ReadsInv
  BY InitType, InitLock DEF DecisionInv
<1> QED
  BY DEF Init, ReadsInv, NothingPreloaded, HeldReport, KnowsKind, WritesReport

\* Every step keeps DecisionInv.
LEMMA DecisionStep == ASSUME DecisionInv, [Next]_vars PROVE DecisionInv'
<1>0. /\ TypeOK /\ LockInv /\ LockHeldByWriter /\ NothingPreloaded /\ HeldReport /\ KnowsKind
  BY DEF DecisionInv, ReadsInv, LockInv
<1>1. TypeOK' /\ LockInv'
  BY <1>0, NextType, LockStep
<1>2. ASSUME NEW s \in Session, Start(s) PROVE ReadsInv'
  <2>1. PICK o \in Op : \/ Preload(s, o) \/ RequestReportEdit(s, o)
                        \/ RequestDecision(s, o) \/ RequestTaskChange(s, o)
    BY <1>2 DEF Start
  <2>2. CASE Preload(s, o)
    BY <1>0, <2>2, SessionTypes DEF ReadsInv, NothingPreloaded, HeldReport, KnowsKind,
             WritesReport, Preload, dbVars
  <2>3. CASE RequestReportEdit(s, o)
    BY <1>0, <2>3, SessionTypes DEF ReadsInv, NothingPreloaded, HeldReport, KnowsKind,
             WritesReport, RequestReportEdit, ReadTask, dbVars
  <2>4. CASE RequestDecision(s, o)
    BY <1>0, <2>4, SessionTypes DEF ReadsInv, NothingPreloaded, HeldReport, KnowsKind,
             WritesReport, RequestDecision, ReadTask, dbVars
  <2>5. CASE RequestTaskChange(s, o)
    BY <1>0, <2>5, SessionTypes DEF ReadsInv, NothingPreloaded, HeldReport, KnowsKind,
             WritesReport, RequestTaskChange, ReadTask, dbVars
  <2> QED
    BY <2>1, <2>2, <2>3, <2>4, <2>5
<1>3. ASSUME NEW s \in Session, SessionEnds(s), UNCHANGED dbVars PROVE ReadsInv'
  BY <1>0, <1>3, SessionTypes DEF ReadsInv, NothingPreloaded, HeldReport, KnowsKind,
             WritesReport, SessionEnds, dbVars
<1>4. ASSUME NEW s \in Session, Commit(s) PROVE ReadsInv'
  <2>1. SessionEnds(s)
    BY <1>4, CommitEnds
  <2>2. NothingPreloaded'
    BY <1>0, <2>1, SessionTypes DEF SessionEnds, NothingPreloaded
  <2>3. KnowsKind'
    <3>1. task.status # "absent"
      BY <1>4 DEF Commit, Commits, SubmitForApproval, SubmitAndComplete, SaveComment,
         RequestPhotoUpload, ConfirmPhoto, DeletePhoto, ApproveReport, ReturnReport,
         UpdateTask, CancelTask, DeleteTask
    <3> QED
      BY <1>0, <1>4, <2>1, <3>1, SessionTypes, CommitChangesKind DEF SessionEnds, KnowsKind
  <2>4. HeldReport'
    <3>1. CASE WritesReport(s)
      <4>1. \A t \in Session : ~WritesReport(t)'
        BY <1>0, <2>1, <3>1, OneWriter, SessionTypes DEF SessionEnds, WritesReport
      <4> QED
        BY <4>1 DEF HeldReport
    <3>2. CASE ~WritesReport(s)
      <4>1. report' = report \/ \A t \in Session : ~WritesReport(t)
        BY <1>0, <1>4, <3>2, OtherCommits
      <4> QED
        BY <1>0, <2>1, <4>1, SessionTypes DEF SessionEnds, HeldReport, WritesReport
    <3> QED
      BY <3>1, <3>2
  <2> QED
    BY <2>2, <2>3, <2>4 DEF ReadsInv
<1>5. ASSUME NEW s \in Session, Proceed(s) PROVE ReadsInv'
  <2>1. CASE ContinueBotRequest(s)
    BY <1>0, <2>1, SessionTypes DEF ReadsInv, NothingPreloaded, HeldReport, KnowsKind,
             WritesReport, ContinueBotRequest, ReadTask, dbVars, BotPreloads, Decisions
  <2>2. CASE LockReport(s)
    <3>1. op[s] \in Decisions => LockedRow(s) = report
      BY <1>0, <2>2 DEF LockReport, LockedRow, NoReport, NothingPreloaded
    <3> QED
      BY <1>0, <2>2, <3>1, SessionTypes DEF ReadsInv, NothingPreloaded, HeldReport, KnowsKind,
             WritesReport, LockReport, HoldReport, Accepts, dbVars
  <2>3. CASE FindNoReport(s)
    BY <1>0, <2>3, SessionTypes DEF ReadsInv, NothingPreloaded, HeldReport, KnowsKind,
             WritesReport, FindNoReport, dbVars
  <2>4. CASE InsertReport(s)
    <3>1. op[s] \notin Decisions
      BY <2>4 DEF InsertReport, Accepts, DraftReport, NoReport
    <3> QED
      BY <1>0, <2>4, <3>1, SessionTypes DEF ReadsInv, NothingPreloaded, HeldReport, KnowsKind,
             WritesReport, InsertReport, HoldReport, dbVars
  <2>5. CASE Refuse(s)
    BY <1>3, <2>5 DEF Refuse
  <2> QED
    BY <1>4, <1>5, <2>1, <2>2, <2>3, <2>4, <2>5 DEF Proceed
<1>6. ASSUME NEW s \in Session, Abort(s) PROVE ReadsInv'
  BY <1>3, <1>6 DEF Abort
<1>7. ASSUME UNCHANGED <<report, lock, sessionVars>>, task'.kind = task.kind,
             task.status = "absent" => task'.status = "absent"
      PROVE  ReadsInv'
  BY <1>0, <1>7 DEF ReadsInv, NothingPreloaded, HeldReport, KnowsKind,
             WritesReport, sessionVars
<1>8. ASSUME MarkOverdue \/ RemindDeadline \/ Tick \/ UNCHANGED vars PROVE ReadsInv'
  <2>1. UNCHANGED <<report, lock, sessionVars>>
    BY <1>8 DEF MarkOverdue, RemindDeadline, Tick, vars, dbVars
  <2>2. task'.kind = task.kind /\ (task.status = "absent" => task'.status = "absent")
    BY <1>0, <1>8, SessionTypes
       DEF MarkOverdue, Deadlined, RemindDeadline, Tick, vars, dbVars, TaskRow
  <2> QED
    BY <1>7, <2>1, <2>2
<1>9. ReadsInv'
  BY <1>2, <1>5, <1>6, <1>8 DEF Next
<1> QED
  BY <1>1, <1>9 DEF DecisionInv

\* One step of DecidedOnlyWhenSubmitted.
DecisionStands ==
    /\ task.kind = "group"
    /\ report'.status # report.status
    /\ report'.status \in {"approved", "returned"}
    => report.status = "submitted"

\* A step that decides finds the committed report submitted.
LEMMA DecisionStandsStep == ASSUME DecisionInv, [Next]_vars PROVE DecisionStands
<1>0. TypeOK /\ LockInv /\ HeldReport /\ KnowsKind
  BY DEF DecisionInv, ReadsInv
<1>1. ASSUME NEW s \in Session, Commit(s) PROVE DecisionStands
  <2>1. CASE SubmitForApproval(s)
    BY <2>1 DEF DecisionStands, SubmitForApproval, SaveReport, FlushReport, Column
  <2>2. CASE SubmitAndComplete(s)
    <3>1. at[s] = "write" /\ task.status # "absent" /\ seen[s].kind = "individual"
      BY <2>2 DEF SubmitAndComplete, Commits
    <3> QED
      BY <1>0, <3>1 DEF DecisionStands, KnowsKind
  <2>3. CASE SaveComment(s) \/ RequestPhotoUpload(s) \/ ConfirmPhoto(s)
    <3>1. WritesReport(s)
      BY <2>3 DEF WritesReport, SaveComment, RequestPhotoUpload, ConfirmPhoto, Commits,
                  TaskChanges
    <3>2. report.status = "absent" => row[s].status = "draft"
      BY <1>0, <3>1 DEF HeldReport, DraftReport, NoReport
    <3>3. PICK new : new.status = row[s].status /\ SaveReport(s, new)
      BY <1>0, <2>3 DEF SaveComment, RequestPhotoUpload, ConfirmPhoto, TypeOK, ReportRow
    <3> QED
      BY <3>2, <3>3 DEF DecisionStands, SaveReport, FlushReport, Column
  <2>4. CASE ApproveReport(s) \/ ReturnReport(s)
    <3>1. WritesReport(s) /\ op[s] \in Decisions
      BY <2>4 DEF WritesReport, ApproveReport, ReturnReport, Commits, TaskChanges, Decisions
    <3> QED
      BY <1>0, <3>1 DEF HeldReport, DecisionStands
  <2>5. CASE DeleteTask(s)
    BY <2>5 DEF DeleteTask, NoReport, DecisionStands
  <2>6. CASE DeletePhoto(s) \/ UpdateTask(s) \/ CancelTask(s)
    BY <2>6 DEF DeletePhoto, UpdateTask, CancelTask, DecisionStands
  <2> QED
    BY <1>1, <2>1, <2>2, <2>3, <2>4, <2>5, <2>6 DEF Commit
<1>2. CASE UNCHANGED dbVars \/ MarkOverdue \/ RemindDeadline
  BY <1>2 DEF MarkOverdue, RemindDeadline, dbVars, DecisionStands
<1> QED
  BY <1>1, <1>2, WhoWrites

\* Whatever the members, managers and bot do meanwhile, stale objects and deletions
\* included, a group report is approved or returned only while it is submitted: the
\* leader's decision locks the row before it looks at the status, and never looks at
\* an object loaded earlier.
THEOREM DecisionTheorem == Spec => DecidedOnlyWhenSubmitted
<1>1. Spec => [][DecisionStands]_vars
  BY InitDecision, DecisionStep, DecisionStandsStep, PTL DEF Spec
<1> QED
  BY <1>1 DEF DecidedOnlyWhenSubmitted, DecisionStands
-------------------------------------------------------------------------------
(* The task and its report tell the same story, as long as the clients use the *)
(* operations of the API (FreshOps) and nobody cancels the task.               *)

ReviewOps == FreshOps /\ "cancel_task" \notin Op

\* A request works with the task as its check accepted it, however long ago.
SeenInTime ==
    \A s \in Session : at[s] \in {"lock", "insert", "write"} =>
        /\ op[s] \in ReportEdits => EditableTask(seen[s])
        /\ op[s] \in Decisions => seen[s].status = "submitted"

StoryInv == FreshInv /\ DecisionInv /\ SeenInTime /\ TaskFollowsReport

\* At first there is no report and the task is active.
LEMMA InitStory == Init => StoryInv
<1> SUFFICES ASSUME Init PROVE SeenInTime /\ TaskFollowsReport
  BY InitFresh, InitDecision DEF StoryInv
<1> QED
  BY DEF Init, SeenInTime, TaskFollowsReport, NoTask, NoReport

\* The report a session is about to save is the one that is stored, so that what it
\* commits is what it meant.
LEMMA SavesWhatItMeans ==
    ASSUME StoryInv, NEW s \in Session, WritesReport(s), NEW new \in ReportRow,
           SaveReport(s, new)
    PROVE  report' = new
<1>1. report \in ReportRow /\ (report.status # "absent" => row[s] = report)
  BY DEF StoryInv, FreshInv, FreshRow, TypeOK
<1>2. CASE report.status = "absent"
  BY <1>2 DEF SaveReport, FlushReport
<1>3. CASE report.status # "absent"
  BY <1>1, <1>3 DEF SaveReport, FlushReport, Column, ReportRow
<1> QED
  BY <1>2, <1>3

\* Before a session changes the report, the task is open, or submitted if the
\* session decides about it.
LEMMA WriterFindsTask ==
    ASSUME StoryInv, NEW s \in Session, WritesReport(s)
    PROVE  /\ row[s] \in ReportRow
           /\ op[s] \in Decisions => report.status = "submitted" /\ row[s] = report
           /\ op[s] \notin Decisions =>
                  /\ row[s].status \in {"draft", "returned"}
                  /\ ~row[s].approved
                  /\ row[s].returned <=> row[s].status = "returned"
                  /\ report.status \notin {"submitted", "approved"}
                  /\ report.status = "absent" \/ report = row[s]
<1>1. /\ row[s] \in ReportRow /\ report \in ReportRow
      /\ report.status # "absent" => row[s] = report
      /\ report.status = "absent" => row[s] = DraftReport
      /\ op[s] \in Decisions => report.status = "submitted"
      /\ op[s] \notin Decisions => EditableReport(row[s])
      /\ TaskFollowsReport
  BY DEF StoryInv, FreshInv, FreshRow, DecisionInv, ReadsInv, HeldReport, TypeOK
<1> QED
  BY <1>1 DEF EditableReport, DraftReport, NoReport, TaskFollowsReport, ReportRow

\* The three ways to change the report, and the change of the task alone.
HandsIn ==
    /\ task.status \notin {"submitted", "completed"} /\ photos' = photos
    /\ report'.comment \in Comments /\ ~report'.returned
    /\ \/ task'.status = "submitted" /\ report'.status = "submitted" /\ ~report'.approved
       \/ task'.status = "completed" /\ report'.status = "approved" /\ report'.approved

Edits ==
    /\ task.status \notin {"submitted", "completed"} /\ task' = task
    /\ \/ report' = report
       \/ /\ report'.status \in {"draft", "returned"} /\ ~report'.approved
          /\ report'.returned <=> report'.status = "returned"

Decides ==
    /\ task.status = "submitted" /\ photos' = photos
    /\ report'.comment = report.comment
    /\ \/ /\ task'.status = "returned" /\ report'.status = "returned"
          /\ report'.returned /\ ~report'.approved
       \/ /\ task'.status = "completed" /\ report'.status = "approved"
          /\ report'.approved /\ ~report'.returned

Reschedules ==
    /\ UNCHANGED <<report, photos>>
    /\ task'.status = task.status
    /\ task'.completedAt = task.completedAt /\ task'.cleanupAt = task.cleanupAt

\* A commit hands in, edits, decides or reschedules, and nothing else.
LEMMA CommitOutcome ==
    ASSUME ReviewOps, StoryInv, NEW s \in Session, Commit(s)
    PROVE  HandsIn \/ Edits \/ Decides \/ Reschedules
<1>0. /\ TypeOK /\ TaskFollowsReport /\ SeenInTime /\ op[s] \in Op
      /\ report \in ReportRow /\ text[s] \in Comments
  <2>1. op[s] \in Op \cup {"none"} /\ TypeOK /\ TaskFollowsReport /\ SeenInTime
    BY DEF StoryInv, FreshInv, LoadedUnderLock
  <2>2. op[s] # "none"
    BY DEF Commit, Commits, SubmitForApproval, SubmitAndComplete, SaveComment,
           RequestPhotoUpload, ConfirmPhoto, DeletePhoto, ApproveReport, ReturnReport,
           UpdateTask, CancelTask, DeleteTask
  <2> QED
    BY <2>1, <2>2 DEF TypeOK
<1>1. ASSUME WritesReport(s), op[s] \notin Decisions
      PROVE  task.status \notin {"submitted", "completed"}
  BY <1>0, <1>1, WriterFindsTask DEF StoryInv, TaskFollowsReport
<1>2. ASSUME WritesReport(s), op[s] \in Decisions PROVE task.status = "submitted"
  BY <1>0, <1>2, WriterFindsTask DEF StoryInv, TaskFollowsReport
<1>3. CASE SubmitForApproval(s)
  <2>1. WritesReport(s) /\ op[s] \notin Decisions /\ EditableTask(seen[s])
    BY <1>0, <1>3 DEF SubmitForApproval, Commits, WritesReport, TaskChanges, Decisions,
                      SeenInTime, ReportEdits
  <2> DEFINE new == [row[s] EXCEPT !.status = "submitted", !.comment = text[s],
                                   !.returned = FALSE, !.approved = FALSE]
  <2>2. new \in ReportRow
    BY <1>0, <2>1, WriterFindsTask DEF ReportRow, ReportStatus
  <2>3. report' = new
    BY <1>3, <2>1, <2>2, SavesWhatItMeans DEF SubmitForApproval
  <2>4. task'.status = "submitted" /\ photos' = photos
    BY <1>0, <1>3, <2>1 DEF SubmitForApproval, SaveTask, FlushTask, Column, EditableTask,
                            TypeOK, TaskRow
  <2>5. /\ new.status = "submitted" /\ new.comment = text[s]
        /\ new.returned = FALSE /\ new.approved = FALSE
    BY <2>1, WriterFindsTask DEF ReportRow
  <2> QED
    BY <1>0, <1>1, <2>1, <2>3, <2>4, <2>5 DEF HandsIn
<1>4. CASE SubmitAndComplete(s)
  <2>1. WritesReport(s) /\ op[s] \notin Decisions /\ EditableTask(seen[s])
    BY <1>0, <1>4 DEF SubmitAndComplete, Commits, WritesReport, TaskChanges, Decisions,
                      SeenInTime, ReportEdits
  <2> DEFINE new == [row[s] EXCEPT !.status = "approved", !.comment = text[s],
                                   !.returned = FALSE, !.approved = TRUE]
  <2>2. new \in ReportRow
    BY <1>0, <2>1, WriterFindsTask DEF ReportRow, ReportStatus
  <2>3. report' = new
    BY <1>4, <2>1, <2>2, SavesWhatItMeans DEF SubmitAndComplete
  <2>4. task'.status = "completed" /\ photos' = photos
    BY <1>0, <1>4, <2>1 DEF SubmitAndComplete, SaveTask, FlushTask, Column, EditableTask,
                            Completed, TypeOK, TaskRow
  <2>5. /\ new.status = "approved" /\ new.comment = text[s]
        /\ new.returned = FALSE /\ new.approved = TRUE
    BY <2>1, WriterFindsTask DEF ReportRow
  <2> QED
    BY <1>0, <1>1, <2>1, <2>3, <2>4, <2>5 DEF HandsIn
<1>5. CASE SaveComment(s) \/ RequestPhotoUpload(s) \/ ConfirmPhoto(s)
  <2>1. WritesReport(s) /\ op[s] \notin Decisions /\ task' = task
    BY <1>5 DEF SaveComment, RequestPhotoUpload, ConfirmPhoto, Commits, WritesReport,
                TaskChanges, Decisions
  <2>2. row[s] \in ReportRow
    BY <2>1, WriterFindsTask
  <2>3. PICK new \in ReportRow : /\ SaveReport(s, new)
                                 /\ new.status = row[s].status
                                 /\ new.returned = row[s].returned
                                 /\ new.approved = row[s].approved
    <3>1. CASE SaveComment(s)
      <4> DEFINE saved == [row[s] EXCEPT !.comment = text[s]]
      <4>1. /\ saved \in ReportRow /\ saved.status = row[s].status
            /\ saved.returned = row[s].returned /\ saved.approved = row[s].approved
        BY <1>0, <2>2 DEF ReportRow
      <4> QED
        BY <3>1, <4>1 DEF SaveComment
    <3>2. CASE RequestPhotoUpload(s) \/ ConfirmPhoto(s)
      BY <2>2, <3>2 DEF RequestPhotoUpload, ConfirmPhoto
    <3> QED
      BY <1>5, <3>1, <3>2
  <2>4. report' = new
    BY <2>1, <2>3, SavesWhatItMeans
  <2> QED
    BY <1>1, <2>1, <2>3, <2>4, WriterFindsTask DEF Edits
<1>6. CASE DeletePhoto(s)
  <2>1. op[s] = "delete_report_photo" /\ at[s] = "write"
    BY <1>0, <1>6 DEF DeletePhoto, Commits, ReviewOps, FreshOps, BotPreloads
  <2>2. WritesReport(s) /\ op[s] \notin Decisions /\ report' = report /\ task' = task
    BY <1>6, <2>1 DEF DeletePhoto, WritesReport, TaskChanges, Decisions
  <2> QED
    BY <1>1, <2>2 DEF Edits
<1>7. CASE ApproveReport(s)
  <2>1. WritesReport(s) /\ op[s] \in Decisions /\ seen[s].status = "submitted"
    BY <1>0, <1>7 DEF ApproveReport, Commits, WritesReport, TaskChanges, Decisions, SeenInTime
  <2> DEFINE new == [row[s] EXCEPT !.status = "approved", !.approved = TRUE, !.returned = FALSE]
  <2>2. /\ new \in ReportRow /\ new.status = "approved" /\ new.comment = report.comment
        /\ new.approved = TRUE /\ new.returned = FALSE
    BY <2>1, WriterFindsTask DEF ReportRow, ReportStatus
  <2>3. report' = new
    BY <1>7, <2>1, <2>2, SavesWhatItMeans DEF ApproveReport
  <2>4. task'.status = "completed" /\ photos' = photos
    BY <1>0, <1>7, <2>1
       DEF ApproveReport, SaveTask, FlushTask, Column, Completed, TypeOK, TaskRow
  <2> QED
    BY <1>2, <2>1, <2>2, <2>3, <2>4 DEF Decides
<1>8. CASE ReturnReport(s)
  <2>1. WritesReport(s) /\ op[s] \in Decisions /\ seen[s].status = "submitted"
    BY <1>0, <1>8 DEF ReturnReport, Commits, WritesReport, TaskChanges, Decisions, SeenInTime
  <2> DEFINE new == [row[s] EXCEPT !.status = "returned", !.returned = TRUE, !.approved = FALSE]
  <2>2. /\ new \in ReportRow /\ new.status = "returned" /\ new.comment = report.comment
        /\ new.approved = FALSE /\ new.returned = TRUE
    BY <2>1, WriterFindsTask DEF ReportRow, ReportStatus
  <2>3. report' = new
    BY <1>8, <2>1, <2>2, SavesWhatItMeans DEF ReturnReport
  <2>4. task'.status = "returned" /\ photos' = photos
    BY <1>0, <1>8, <2>1 DEF ReturnReport, SaveTask, FlushTask, Column, TypeOK, TaskRow
  <2> QED
    BY <1>2, <2>1, <2>2, <2>3, <2>4 DEF Decides
<1>9. CASE UpdateTask(s)
  BY <1>0, <1>9 DEF UpdateTask, SaveTask, FlushTask, Column, Reschedules, TypeOK, TaskRow
<1>10. ~CancelTask(s) /\ ~DeleteTask(s)
  BY <1>0 DEF CancelTask, DeleteTask, Commits, ReviewOps, FreshOps
<1> QED
  BY <1>3, <1>4, <1>5, <1>6, <1>7, <1>8, <1>9, <1>10 DEF Commit

\* Every step keeps SeenInTime: a check that was passed holds of the task as seen.
LEMMA SeenStep ==
    ASSUME ReviewOps, StoryInv, [Next]_vars
    PROVE  SeenInTime'
<1>0. TypeOK /\ SeenInTime /\ LoadedUnderLock
  BY DEF StoryInv, FreshInv
<1>1. ASSUME NEW s \in Session, Start(s) PROVE SeenInTime'
  <2>1. PICK o \in Op : \/ Preload(s, o) \/ RequestReportEdit(s, o)
                        \/ RequestDecision(s, o) \/ RequestTaskChange(s, o)
    BY <1>1 DEF Start
  <2>2. ~Preload(s, o)
    BY DEF Preload, ReviewOps, FreshOps
  <2>3. CASE RequestReportEdit(s, o)
    BY <1>0, <2>3, SessionTypes
       DEF RequestReportEdit, ReadTask, Startable, SeenInTime, ReportEdits, Decisions
  <2>4. CASE RequestDecision(s, o)
    BY <1>0, <2>4, SessionTypes
       DEF RequestDecision, ReadTask, Startable, SeenInTime, ReportEdits, Decisions
  <2>5. CASE RequestTaskChange(s, o)
    BY <1>0, <2>5, SessionTypes
       DEF RequestTaskChange, ReadTask, SeenInTime, ReportEdits, Decisions, TaskChanges
  <2> QED
    BY <2>1, <2>2, <2>3, <2>4, <2>5
<1>2. ASSUME NEW s \in Session, SessionEnds(s) PROVE SeenInTime'
  BY <1>0, <1>2, SessionTypes DEF SessionEnds, SeenInTime
<1>3. ASSUME NEW s \in Session, Proceed(s) PROVE SeenInTime'
  <2>1. CASE ContinueBotRequest(s)
    BY <1>0, <2>1 DEF ContinueBotRequest, LoadedUnderLock
  <2>2. CASE LockReport(s) \/ InsertReport(s)
    BY <1>0, <2>2, SessionTypes DEF LockReport, InsertReport, HoldReport, SeenInTime
  <2>3. CASE FindNoReport(s)
    BY <1>0, <2>3, SessionTypes DEF FindNoReport, SeenInTime
  <2>4. CASE Refuse(s) \/ Commit(s)
    BY <1>2, <2>4, CommitEnds DEF Refuse
  <2> QED
    BY <1>3, <2>1, <2>2, <2>3, <2>4 DEF Proceed
<1>4. CASE MarkOverdue \/ RemindDeadline \/ Tick \/ UNCHANGED vars
  <2>1. UNCHANGED sessionVars
    BY <1>4 DEF MarkOverdue, RemindDeadline, Tick, vars
  <2> QED
    BY <1>0, <2>1 DEF SeenInTime, sessionVars
<1> QED
  BY <1>1, <1>2, <1>3, <1>4 DEF Next, Abort

\* The deadline job may make an open task late, and nothing else.
LEMMA DeadlineOutcome ==
    ASSUME TypeOK, MarkOverdue \/ RemindDeadline
    PROVE  /\ UNCHANGED <<report, photos>>
           /\ task.status \in {"active", "returned"}
           /\ task'.status \in {"overdue", task.status}
BY DEF MarkOverdue, RemindDeadline, Deadlined, TypeOK, TaskRow

\* Every step keeps StoryInv.
LEMMA StoryStep == ASSUME ReviewOps, StoryInv, [Next]_vars PROVE StoryInv'
<1>0. FreshOps /\ FreshInv /\ DecisionInv /\ TypeOK /\ TaskFollowsReport
  BY DEF ReviewOps, StoryInv, FreshInv
<1>1. FreshInv' /\ DecisionInv' /\ SeenInTime'
  BY <1>0, FreshStep, DecisionStep, SeenStep
<1>2. TaskFollowsReport'
  <2>1. CASE UNCHANGED dbVars
    BY <1>0, <2>1 DEF dbVars, TaskFollowsReport
  <2>2. CASE MarkOverdue \/ RemindDeadline
    BY <1>0, <2>2, DeadlineOutcome DEF TaskFollowsReport
  <2>3. CASE \E s \in Session : Commit(s)
    <3>1. HandsIn \/ Edits \/ Decides \/ Reschedules
      BY <2>3, CommitOutcome
    <3> QED
      BY <1>0, <3>1 DEF HandsIn, Edits, Decides, Reschedules, TaskFollowsReport
  <2> QED
    BY <2>1, <2>2, <2>3, WhoWrites
<1> QED
  BY <1>1, <1>2 DEF StoryInv

\* The task awaits its leader exactly while its report is submitted, and is completed
\* exactly when it is approved, for any number of requests and any course of the
\* deadline: the task is read without a lock, but the report is checked under one.
THEOREM StoryTheorem == ASSUME ReviewOps PROVE Spec => []TaskFollowsReport
<1>1. StoryInv /\ [Next]_vars => StoryInv'
  BY StoryStep
<1>2. StoryInv => TaskFollowsReport
  BY DEF StoryInv
<1> QED
  BY <1>1, <1>2, InitStory, PTL DEF Spec

\* One step of CompletedForGood.
StaysCompleted ==
    task.status = "completed" =>
        /\ task'.status = "completed"
        /\ task'.completedAt = task.completedAt
        /\ task'.cleanupAt = task.cleanupAt

\* No step takes back a completion.
LEMMA StaysCompletedStep == ASSUME ReviewOps, StoryInv, [Next]_vars PROVE StaysCompleted
<1>0. TypeOK
  BY DEF StoryInv, FreshInv
<1>1. CASE UNCHANGED dbVars
  BY <1>1 DEF dbVars, StaysCompleted
<1>2. CASE MarkOverdue \/ RemindDeadline
  BY <1>0, <1>2, DeadlineOutcome DEF StaysCompleted
<1>3. CASE \E s \in Session : Commit(s)
  BY <1>3, CommitOutcome DEF HandsIn, Edits, Decides, Reschedules, StaysCompleted
<1> QED
  BY <1>1, <1>2, <1>3, WhoWrites

\* No request that read the task while it was open reopens it once it is completed,
\* or moves its closure and its cleanup.
THEOREM CompletedTheorem == ASSUME ReviewOps PROVE Spec => CompletedForGood
<1>1. StoryInv /\ [Next]_vars => StoryInv'
  BY StoryStep
<1>2. StoryInv /\ [Next]_vars => [StaysCompleted]_vars
  BY StaysCompletedStep
<1>3. Spec => [][StaysCompleted]_vars
  BY <1>1, <1>2, InitStory, PTL DEF Spec
<1> QED
  BY <1>3 DEF CompletedForGood, StaysCompleted
-------------------------------------------------------------------------------
(* The operations of the API implement ReportReview.                          *)

\* The initial states are initial states of ReportReview.
LEMMA ReviewInit == Init => Review!Init
BY DEF Init, Review!Init, Phase, NoTask, NoReport, Comments

\* Every step is a step of ReportReview, or changes nothing it speaks of.
LEMMA ReviewStep ==
    ASSUME ReviewOps, StoryInv, PhotoInv, PhotoInv', [Next]_vars
    PROVE  [Review!Next]_(Review!vars)
<1>0. /\ TypeOK /\ TypeOK' /\ PhotoLimitHeld'
      /\ report' \in ReportRow /\ report'.comment \in Comments /\ photos' \in SUBSET Photo
  BY DEF PhotoInv, TypeOK, ReportRow
<1> USE DEF Review!Next, Review!vars, Phase
<1>1. CASE UNCHANGED dbVars
  BY <1>1 DEF dbVars
<1>2. CASE MarkOverdue \/ RemindDeadline
  BY <1>0, <1>2, DeadlineOutcome
<1>3. CASE \E s \in Session : Commit(s)
  <2>1. HandsIn => Review!HandIn
    BY <1>0 DEF HandsIn, Review!HandIn
  <2>2. ASSUME Edits PROVE Review!Edit
    <3>1. Phase = "open" /\ Phase' = "open"
      BY <2>2 DEF Edits
    <3>2. /\ (report.comment)' \in Comments /\ photos' \in SUBSET Photo
          /\ Cardinality(photos') <= PhotoLimit
      BY <1>0 DEF PhotoLimitHeld
    <3> QED
      BY <3>1, <3>2 DEF Review!Edit, Cardinality, Review!Cardinality
  <2>3. Decides => Review!Decide
    BY <1>0 DEF Decides, Review!Decide
  <2>4. Reschedules => UNCHANGED Review!vars
    BY DEF Reschedules
  <2> QED
    BY <1>3, <2>1, <2>2, <2>3, <2>4, CommitOutcome
<1> QED
  BY <1>1, <1>2, <1>3, WhoWrites

\* The operations of the API, with everything they read at different moments, do what
\* ReportReview promises: every step is an edit of an open report, a report handed in,
\* a decision, or nothing a user of the report could see.
THEOREM ReviewTheorem == ASSUME ReviewOps PROVE Spec => ReviewSpec
<1>1. StoryInv /\ [Next]_vars => StoryInv'
  BY StoryStep
<1>2. Init => PhotoInv
  BY InitType, InitLock, InitPhotos DEF PhotoInv, LockInv
<1>3. PhotoInv /\ [Next]_vars => PhotoInv'
  BY NextType, LockStep, PhotoStep DEF PhotoInv, LockInv
<1>4. StoryInv /\ PhotoInv /\ PhotoInv' /\ [Next]_vars => [Review!Next]_(Review!vars)
  BY ReviewStep
<1>5. Spec => Review!Init /\ [][Review!Next]_(Review!vars)
  BY <1>1, <1>2, <1>3, <1>4, InitStory, ReviewInit, PTL DEF Spec
<1> QED
  BY <1>5 DEF ReviewSpec, Review!Spec
===============================================================================
