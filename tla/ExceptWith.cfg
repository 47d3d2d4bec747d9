SPECIFICATION Spec
CONSTANTS
    Files = {f1, f2}
    NoFile = NoFile
    StackSize = 3
    MaxBlocks = 5
INVARIANT WithClosesItsFile
CHECK_DEADLOCK FALSE
