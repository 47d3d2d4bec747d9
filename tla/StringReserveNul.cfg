SPECIFICATION Spec
CONSTANTS
    SizeMax = 127
    FirstCap = 16
    Lens <- MCLens
    FmtLens = {0, 1, 20}
    Reserves <- MCReserves
INVARIANT AlwaysTerminated
CHECK_DEADLOCK FALSE
