SPECIFICATION Spec
CONSTANTS
  Session = {s1, s2}
  NoSession = NoSession
  Comment = {}
  NoComment = NoComment
  Photo = {p1, p2}
  NoPhoto = NoPhoto
  PhotoLimit = 1
  Op = {"submit_report", "report_comment_save", "request_photo_upload", "confirm_photo_upload", "delete_report_photo", "approve", "return", "report_submit", "report_photo_delete", "update_task", "cancel_task", "delete_task"}
  Deadline = {1}
  ReminderWindow = 1
  CleanupDelay = 3
  ArchivePeriod = 10
  MaxTime = 2
SYMMETRY Symmetry
INVARIANTS
  TypeOK
  PhotoLimitHeld
  RetentionCoversClosure
PROPERTIES
  DecidedOnlyWhenSubmitted
\* a closed or deleted task accepts no further request
CHECK_DEADLOCK FALSE
