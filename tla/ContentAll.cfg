SPECIFICATION Spec
CONSTANTS
    w1 = w1
    w2 = w2
    Workers <- TwoWorkers
    Jobs <- FourJobs
    DataKeys = {"k", "l"}
    Names = {"a", "b", "c"}
    Branches <- TwoBranches
    Default = "main"
    MaxRuns = 4
    MaxOthers = 2
INVARIANTS KeepsPromise ReportedStays SealedStaysSealed
SYMMETRY Symmetry
CHECK_DEADLOCK FALSE
