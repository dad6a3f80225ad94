SPECIFICATION Spec
CONSTANTS
    p1 = p1
    Procs <- OneProc
    CacheLag = TRUE
    Names <- TwoNames
    Specs <- TwoSpecs
    CrdChoices = {TRUE}
    MaxRetries = 2
    MaxEdits = 1
    MaxDeletes = 0
    MaxTouches = 0
    MaxMishaps = 0
INVARIANT DisabledMetricsGone
CHECK_DEADLOCK FALSE
