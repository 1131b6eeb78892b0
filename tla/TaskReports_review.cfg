SPECIFICATION Spec
CONSTANTS
  Session = {s1, s2, s3}
  NoSession = NoSession
  Comment = {c1}
  NoComment = NoComment
  Photo = {p1, p2}
  NoPhoto = NoPhoto
  PhotoLimit = 1
  Op = {"submit_report", "report_comment_save", "confirm_photo_upload", "delete_report_photo", "approve", "return", "update_task"}
  Deadline = {1, 2}
  ReminderWindow = 1
  CleanupDelay = 3
  ArchivePeriod = 10
  MaxTime = 0
SYMMETRY Symmetry
INVARIANTS
  TaskFollowsReport
PROPERTIES
  SubmittedReportFrozen
  CompletedForGood
  ReviewSpec
\* a completed task accepts no further request
CHECK_DEADLOCK FALSE
