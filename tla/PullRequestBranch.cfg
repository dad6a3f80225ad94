SPECIFICATION Spec
CONSTANTS
    p1 = p1
    Procs <- OneProc
    CacheLag = FALSE
    RestChoices = {FALSE}
    HasTTL = FALSE
    MayDelete = FALSE
    MaxUnmet = 0
    MaxCloses = 0
    MaxMishaps = 0
INVARIANT OwnChanges
CHECK_DEADLOCK FALSE
