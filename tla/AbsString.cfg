SPECIFICATION FairSpec
CONSTANTS
    SizeMax = 127
    FirstCap = 16
    Lens <- MCLens
    FmtLens = {0, 1, 20}
    Reserves <- MCReserves
INVARIANTS
    BufferOK
    WriteFits
PROPERTIES
    AppendReturns
CHECK_DEADLOCK FALSE
