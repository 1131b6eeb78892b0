SPECIFICATION Spec
CONSTANTS
    Worker = {w1, w2}
    Cleaner = {c1, c2}
    Manager = {m1, m2}
    NoRun = NoRun
    ManagerOp = {"recover", "update", "delete"}
    Fault = {"retryable", "permanent", "undeletable", "storage"}
    MaxAttempts = 2
    MaxEvents = 2
    MaxGroups = 2
    MaxCrashes = 0
SYMMETRY Symmetry
INVARIANT AtMostOneGroup
PROPERTY OutboxSpec
CHECK_DEADLOCK FALSE
