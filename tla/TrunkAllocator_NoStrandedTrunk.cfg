CONSTANTS
    TrunkIds <- MCTrunkIds
    TRUNK_SIZE = 4
    WriteThreads = 1
    PREALLOC = 2
    DISCARD = 2
    ALIGN = 2
    MaxRequest = 3
SPECIFICATION Spec
INVARIANT
    NoStrandedTrunk
