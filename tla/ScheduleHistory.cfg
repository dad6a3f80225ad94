SPECIFICATION Spec
CONSTANTS
    p1 = p1
    Procs <- OneProc
    CacheLag = TRUE
    Period = 2
    Every = FALSE
    MinWait = 1
    HasApi = FALSE
    MaxCalls = 2
    MaxRetries = 2
    MaxHistory = 2
    Specs <- OnlyActive
    CallsBefore = {0}
    MayDelete = FALSE
    MaxTime = 3
    MaxEdits = 0
    MaxCrashes = 0
    MaxFaults = 0
    MaxStale = 1
PROPERTY HistoryKept
CHECK_DEADLOCK FALSE
