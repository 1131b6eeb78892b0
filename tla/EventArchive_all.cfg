SPECIFICATION FairSpec
CONSTANTS
    Task = {t1, t2}
    Group = {t1}
    t1 = t1
    t2 = t2
    p1 = p1
    Photo = {p1}
    TaskOf <- TaskOfPhoto
    Retention = 3
    WarningDays = 1
    CleanupDelay = 3
    Extensions = {5}
    LastClosure = 2
    LastDay = 5
    MaxFaults = 2
INVARIANT TypeOK
INVARIANT PurgeOnlyWhenDue
INVARIANT ArchiveIsReadable
PROPERTY GroupNeedsArchive
PROPERTY RetentionSettles
PROPERTY ArchiveIsPurged
CHECK_DEADLOCK FALSE
