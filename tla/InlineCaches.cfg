SPECIFICATION Spec
CONSTANTS
    Objects = {a, b}
    Keys = {x, y, z}
    Null = null
    Hole = hole
    MaxShapes = 4
    Descriptors <- SomeDescriptors
    MaxReshapes = 3
    MaxDepth = 1
    MaxEntries = 2
SYMMETRY Interchangeable
INVARIANTS
    ShapesAreSound
    ReadsFindTheSlot
    WritesLandInOwnSlot
PROPERTIES
    FrozenStaysFrozen
    KeepsKeys
