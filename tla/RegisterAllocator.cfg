SPECIFICATION Spec
CONSTANTS
    NumRegs = 5
    VariableRegisterThreshold = 3
    MaxBlock = 3
INVARIANTS
    Inv
    CapturedStaysReserved
    FrameCoversLive
    AvailabilityIsExact
PROPERTY
    HandOutIsFresh
CHECK_DEADLOCK FALSE
