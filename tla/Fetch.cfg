SPECIFICATION FetchFairSpec
CONSTANTS
    Ops = {f1, f2}
    Signalled = {f1}
    Response = Response
    Undefined = Undefined
    Reason = Reason
    NoReason = NoReason
    NoOp = NoOp
INVARIANTS
    PendingIsExact
    SleeperIsWoken
    GivesUpWhenIdle
    ResumedOnceSettled
PROPERTIES
    AwaitEnds
    AbortEndsRequest
    PollersStop
CHECK_DEADLOCK FALSE
