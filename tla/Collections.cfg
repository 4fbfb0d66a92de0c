SPECIFICATION Spec
CONSTANTS
    Keys = {k1, k2, k3}
    Dead = dead
    None = none
    Cursors = {c1, c2}
    MaxOrder = 5
    Patterns = {}
PROPERTY
    KeepsInsertionOrder
CHECK_DEADLOCK FALSE
