SPECIFICATION Spec
CONSTANTS
    Files = {f1, f2}
    NoFile = NoFile
    StackSize = 3
    MaxBlocks = 5
SYMMETRY Symmetry
INVARIANTS
    Consistent
    PointersAreOpen
PROPERTIES
    ExitIsDeserved
CHECK_DEADLOCK FALSE
