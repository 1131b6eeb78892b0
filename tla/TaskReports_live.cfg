SPECIFICATION FairSpec
CONSTANTS
  Session = {s1, s2}
  NoSession = NoSession
  Comment = {}
  NoComment = NoComment
  Photo = {p1}
  NoPhoto = NoPhoto
  PhotoLimit = 1
  Op = {"submit_report", "confirm_photo_upload", "report_photo_delete", "approve", "return", "delete_task"}
  Deadline = {1}
  ReminderWindow = 1
  CleanupDelay = 3
  ArchivePeriod = 10
  MaxTime = 2
INVARIANTS
  TaskFollowsReport
PROPERTIES
  RequestsEnd
\* a closed or deleted task accepts no further request
CHECK_DEADLOCK FALSE
