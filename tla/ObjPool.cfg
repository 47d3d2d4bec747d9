SPECIFICATION FairSpec
CONSTANTS
    Main = Main
    Workers = {w1, w2}
    NULL = NULL
    BlockSize = 2
    MaxBlocks = 2
INVARIANTS
    Consistent
    FreedExactlyOnce
PROPERTIES
    CleanupEnds
