SPECIFICATION Spec
CONSTANTS
    p1 = p1
    Procs <- OneProc
    CacheLag = FALSE
    Period = 2
    Every = FALSE
    MinWait = 1
    HasRest = TRUE
    MaxRetries = 2
    MaxHistory = 2
    Specs <- AnySpec
    MayDelete = TRUE
    MaxTime = 3
    MaxEdits = 1
    MaxCrashes = 1
    MaxFaults = 1
    MaxStale = 0
    MaxCloses = 1
INVARIANTS TypeOK HistoryIsHonest OpenIsRecorded RunsAccounted NeverAsleep
CONSTRAINT OneMishap
CHECK_DEADLOCK FALSE
