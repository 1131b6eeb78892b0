SPECIFICATION FairSpec
CONSTANTS
    Worker = {w1, w2}
    Bot = {b1}
    Fault = {"retryable", "lost_reply", "permanent"}
    MaxAttempts = 2
    MaxLinks = 4
    MaxEdits = 2
    MaxOverlap = 1
    MaxIncidents = 1
INVARIANT TypeOK
INVARIANT OneWayIn
PROPERTY AssignedAreReached
PROPERTY StrangersLeave
PROPERTY RowsAreReconciled
CHECK_DEADLOCK FALSE
