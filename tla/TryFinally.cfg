SPECIFICATION Spec
CONSTANTS
    Values = {a, undefined}
    Undefined = undefined
    MaxFrames = 3
    MaxStatements = 4
    LoopExits = {"break", "continue"}
    Overrides <- WorkingOverrides
    FinallyTries = FALSE
    TailCalls = FALSE
    DeepExits = FALSE
    AdjacentTries = FALSE
INVARIANTS
    NothingLeftPending
    DepthCoversPending
PROPERTY
    KeepsCompletions
CHECK_DEADLOCK FALSE
