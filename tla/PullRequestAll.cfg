SPECIFICATION FairSpec
CONSTANTS
    p1 = p1
    Procs <- OneProc
    CacheLag = TRUE
    RestChoices = {TRUE, FALSE}
    HasTTL = TRUE
    MayDelete = TRUE
    MaxUnmet = 1
    MaxCloses = 1
    MaxMishaps = 1
INVARIANTS TypeOK CreatedIsOpened AttemptsAccounted NoneLost
PROPERTIES FinalPhases Settles
CHECK_DEADLOCK FALSE
