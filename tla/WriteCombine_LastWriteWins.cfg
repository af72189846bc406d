CONSTANTS
    w1 = w1
    w2 = w2
    s1 = s1
    s2 = s2
    NULL = NULL
    Writers <- MCOneWriter
    Slices <- MCSlices
    Blocks <- MCBlocks
    BLOCK_SIZE = 3
    PAGE_SIZE = 1
    SKIP_SIZE = 2
    SKIP_LAST_MERGED = 1
    MIN_WAIT = 1
    MAX_WAIT = 2
    DataThreads = 2
    MaxWrites = 3
    MaxTime = 4
SPECIFICATION Spec
INVARIANT LastWriteWins
SYMMETRY Symm
