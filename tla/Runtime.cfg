SPECIFICATION Spec
CONSTANTS
    click = click
    close = close
    five = five
    ptr = ptr
    h1 = h1
    h2 = h2
    a = a
    b = b
    Null = Null
    None = None
    Error = Error
    Keys <- MCKeys
    Hash <- MCHash
    Events <- MCEvents
    Handlers <- MCHandlers
    Args <- MCArgs
    KeyOf <- MCKeyOf
    F <- MCF
    Items = {1, 2}
    Sources <- MCSources
    Ranges <- MCRanges
    LongMax = 7
    InitCap = 1
    MaxOps = 4
    MaxDepth = 4
    MaxOut = 4
INVARIANTS
    Consistent
    CrashNeedsNull
    MemoIsExact
    IteratorsAreExact
PROPERTIES
    EmitRunsAll
CHECK_DEADLOCK FALSE
