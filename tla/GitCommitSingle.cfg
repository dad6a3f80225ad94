SPECIFICATION Spec
CONSTANTS
    p1 = p1
    Procs <- OneProc
    CacheLag = FALSE
    MaxCalls = 2
    MaxRetries = 2
    ApiCounts = {1, 2}
    HasTTL = FALSE
    MayDelete = TRUE
    MaxEdits = 2
    MaxCrashes = 1
    MaxFaults = 1
    MaxStale = 0
INVARIANTS TypeOK PushesAccounted RequestsBounded
PROPERTY ImplementsLifecycle
CONSTRAINT TwoThings
CHECK_DEADLOCK FALSE
