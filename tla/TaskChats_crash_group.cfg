SPECIFICATION Spec
CONSTANTS
    Worker = {w1, w2}
    Cleaner = {c1}
    Manager = {m1}
    NoRun = NoRun
    ManagerOp = {}
    Fault = {}
    MaxAttempts = 2
    MaxEvents = 2
    MaxGroups = 2
    MaxCrashes = 1
SYMMETRY Symmetry
INVARIANT AtMostOneGroup
CHECK_DEADLOCK FALSE
