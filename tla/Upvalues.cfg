SPECIFICATION Spec
CONSTANTS
    Values = {undefined, v}
    Undefined = undefined
    Generators = {g}
    NoGenerator = none
    Sizes = {1, 2}
    RegFileSize = 3
    MaxFrames = 3
    MaxVariables = 2
    MaxUpvalues = 2
    Patterns = {}
INVARIANT
    VariablesAreShared
CHECK_DEADLOCK FALSE
