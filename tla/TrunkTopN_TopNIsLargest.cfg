CONSTANTS
    TRUNK_SIZE = 4
    BLOCK_SIZE = 2
    MaxTrunks = 4
    MaxCount = 3
SPECIFICATION Spec
INVARIANT
    TopNIsLargest
