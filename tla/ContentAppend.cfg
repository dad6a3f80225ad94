SPECIFICATION Spec
CONSTANTS
    w1 = w1
    w2 = w2
    Workers <- TwoWorkers
    Jobs <- OnlyLogCollection
    DataKeys = {"k", "l"}
    Names = {"a", "b", "c"}
    Branches <- TwoBranches
    Default = "main"
    MaxRuns = 2
    MaxOthers = 0
INVARIANT KeepsPromise
CHECK_DEADLOCK FALSE
