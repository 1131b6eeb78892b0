SPECIFICATION Spec
CONSTANTS
    Worker = {w1, w2}
    Cleaner = {c1}
    Manager = {m1}
    NoRun = NoRun
    ManagerOp = {"retry", "recover", "update", "delete"}
    Fault = {"retryable", "permanent", "lost_reply", "undeletable", "storage"}
    MaxAttempts = 2
    MaxEvents = 2
    MaxGroups = 2
    MaxCrashes = 1
SYMMETRY Symmetry
INVARIANT TypeOK
INVARIANT NoSilentStall
CHECK_DEADLOCK FALSE
