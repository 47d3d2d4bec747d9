SPECIFICATION FairSpec
CONSTANTS
    k1 = k1
    k2 = k2
    k3 = k3
    Keys = {k1, k2, k3}
    Values = {v1, v2}
    NULL = NULL
    ABSENT = ABSENT
    EMPTY = EMPTY
    TOMBSTONE = TOMBSTONE
    Home <- MCHome
    MinCap = 2
    MaxCap = 8
    FreeFn = TRUE
INVARIANTS
    TableOK
    OwnedIsStored
    ForeachExact
PROPERTIES
    ImplementsMap
    CallsReturn
