SPECIFICATION FairSpec
CONSTANTS
    p1 = p1
    Procs <- OneProc
    CacheLag = FALSE
    Period = 2
    Every = FALSE
    MinWait = 1
    HasApi = TRUE
    MaxCalls = 2
    MaxRetries = 2
    MaxHistory = 2
    Specs <- AnySpec
    CallsBefore = {0, 2}
    MayDelete = TRUE
    MaxTime = 4
    MaxEdits = 2
    MaxCrashes = 1
    MaxFaults = 1
    MaxStale = 0
INVARIANTS TypeOK RunsRecorded HistoryIsHonest NeverAsleep RunsAccounted
PROPERTIES NextTimeKept HistoryKept TimesAreServed
CONSTRAINTS OneDisturbance UntilServed
CHECK_DEADLOCK FALSE
