SPECIFICATION FairParallelSpec
CONSTANTS
    entry = entry
    left = left
    right = right
    alias = alias
    missing = missing
    up = up
    down = down
    far = far
    NoModule = NoModule
    SyntaxError = SyntaxError
    Names <- MCNames
    Resolve <- MCResolve
    Programs <- MCPrograms
    Pool <- MCPool
    Entry = entry
    Workers = {w1, w2}
    JobBuffer = 2
    ResultBuffer = 1
    Disturbances = {"load", "clear"}
    MaxDisturbances = 2
INVARIANTS
    CountIsExact
    NoSendOnClosed
PROPERTIES
    LoadEnds
    WorkersStop
CHECK_DEADLOCK FALSE
