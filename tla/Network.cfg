SPECIFICATION Spec
CONSTANTS
    TopBit = 4
    Xored <- MCXor
    Short = 1
    Long = 2
    Messages <- MCMessages
    Masks <- MCMasks
    MaskLen = 2
    MaxFrame = 8
    Keys <- MCKeys
    KeyMax = 2
    MaxSent = 2
    Clients = {c1, c2}
    Paths <- MCPaths
    Handlers = {h1}
    Backlog = 1
    PathMax = 2
    None = None
    Null = Null
INVARIANTS
    FramesAreKept
    ServesOneByOne
PROPERTIES
    EverythingArrives
    ClientsServed
CHECK_DEADLOCK FALSE
