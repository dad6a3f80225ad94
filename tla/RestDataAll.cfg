SPECIFICATION Spec
CONSTANTS
    Names = {"a", "b"}
    Specs <- SomeSpecs
    MaxCalls = 6
    MaxEdits = 2
INVARIANTS CommittedIsAnswered StatusIsCurrent
CHECK_DEADLOCK FALSE
