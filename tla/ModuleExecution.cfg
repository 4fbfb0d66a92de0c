SPECIFICATION Spec
CONSTANTS
    main = main
    left = left
    right = right
    data = data
    root = root
    script = script
    Specifiers <- MCSpecifiers
    Json = {data}
    Files = {main, left, right, data, root}
    Root = root
    Target <- SameEverywhere
    Programs <- MCPrograms
    None = None
    Script = script
    Names = {main, left, right, data}
    Export <- OwnNames
    Unset = Unset
    MaxFrames = 2
    MaxSteps = 4
    Patterns = {}
INVARIANTS
    LoadOrder
    ControlReturns
PROPERTIES
    KeepsEvaluation
CHECK_DEADLOCK FALSE
