SPECIFICATION Spec
CONSTANTS
    NumPromises = 3
    Fuel = 5
    Data = {v}
    Handlers = {"call", "pass"}
    Undefined = Undefined
    ErrText = ErrText
INVARIANT
    UncaughtAwaitRejects
CHECK_DEADLOCK FALSE
