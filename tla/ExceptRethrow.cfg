SPECIFICATION Spec
CONSTANTS
    Files = {f1, f2}
    NoFile = NoFile
    StackSize = 3
    MaxBlocks = 5
PROPERTY ThrowLeavesHandler
CHECK_DEADLOCK FALSE
