SPECIFICATION Spec
CONSTANTS
    SizeMax = 63
    ElemSize = 3
    ZERO = ZERO
    JUNK = JUNK
    Elems = {a, ZERO}
    Reserves <- MCReserves
    Lengths <- MCLengths
INVARIANTS
    BufferOK
PROPERTIES
    ImplementsVector
