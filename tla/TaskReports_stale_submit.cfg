SPECIFICATION Spec
CONSTANTS
  Session = {s1, s2}
  NoSession = NoSession
  Comment = {c1}
  NoComment = NoComment
  Photo = {p1, p2}
  NoPhoto = NoPhoto
  PhotoLimit = 2
  Op = {"report_comment_save", "submit_report", "report_submit", "approve"}
  Deadline = {1, 4}
  ReminderWindow = 1
  CleanupDelay = 3
  ArchivePeriod = 10
  MaxTime = 2
PROPERTY
  SubmittedReportFrozen
CHECK_DEADLOCK FALSE
