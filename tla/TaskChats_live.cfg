SPECIFICATION FairSpec
CONSTANTS
    Worker = {w1, w2}
    Cleaner = {c1}
    Manager = {m1}
    NoRun = NoRun
    ManagerOp = {"recover", "update"}
    Fault = {"retryable", "permanent", "lost_reply"}
    MaxAttempts = 2
    MaxEvents = 2
    MaxGroups = 2
    MaxCrashes = 1
PROPERTY EventsSettle
PROPERTY OutboxSpec
PROPERTY GroupIsDeleted
CHECK_DEADLOCK FALSE
