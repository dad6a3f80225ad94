SPECIFICATION FairSpec
CONSTANTS
    p1 = p1
    Procs <- OneProc
    CacheLag = TRUE
    MaxCalls = 2
    MaxRetries = 2
    ApiCounts = {0, 1}
    HasTTL = TRUE
    MayDelete = FALSE
    MaxEdits = 0
    MaxCrashes = 1
    MaxFaults = 1
    MaxStale = 1
INVARIANTS CommittedIsPushed BreakerBound
PROPERTIES ShaNeverErased Settles ExpiredIsDeleted
CHECK_DEADLOCK FALSE
