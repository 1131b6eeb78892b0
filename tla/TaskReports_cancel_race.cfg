SPECIFICATION Spec
CONSTANTS
  Session = {s1, s2}
  NoSession = NoSession
  Comment = {c1}
  NoComment = NoComment
  Photo = {p1, p2}
  NoPhoto = NoPhoto
  PhotoLimit = 2
  Op = {"submit_report", "cancel_task"}
  Deadline = {1, 4}
  ReminderWindow = 1
  CleanupDelay = 3
  ArchivePeriod = 10
  MaxTime = 2
INVARIANT
  CancelledStaysCancelled
CHECK_DEADLOCK FALSE
