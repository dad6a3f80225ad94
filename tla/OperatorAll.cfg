SPECIFICATION FairSpec
CONSTANTS
    p1 = p1
    Procs <- OneProc
    CacheLag = TRUE
    Names <- TwoNames
    Specs <- ThreeSpecs
    CrdChoices = {TRUE, FALSE}
    MaxRetries = 2
    MaxEdits = 2
    MaxDeletes = 1
    MaxTouches = 1
    MaxMishaps = 1
INVARIANTS TypeOK ObservedIsApplied QuietMeansApplied
PROPERTIES NothingForTheGone Converges DeletionEnds
CONSTRAINT TwoThings
CHECK_DEADLOCK FALSE
