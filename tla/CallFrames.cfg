SPECIFICATION FramesSpec
CONSTANTS
    Generators = {g}
    Values = {v}
    ErrText = ErrText
    Null = Null
    Sizes = {1, 2}
    Natives = {"propagates"}
    MaxFrames = 7
    MaxSteps = 7
    Patterns = {}
INVARIANTS
    LoopsOwnFrames
    WindowsDisjoint
PROPERTIES
    KeepsCallStack
CHECK_DEADLOCK FALSE
