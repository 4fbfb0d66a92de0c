SPECIFICATION FairSpec
CONSTANTS
    NumPromises = 3
    Fuel = 5
    Data = {v}
    Handlers = {"call", "pass"}
    Undefined = Undefined
    ErrText = ErrText
INVARIANTS
    Inv
    ResumptionFindsBody
    NoOrphan
    FirstRunSettles
PROPERTIES
    KeepsContract
    ScheduledRuns
CHECK_DEADLOCK FALSE
