CONSTANTS
    Blocks <- MCBlocks
    MasterCount = 2
    SlaveCount = 1
    OP_SLAB = 2
    MaxOps = 5
    MaxRoleChanges = 2
SPECIFICATION Spec
INVARIANTS
    TypeOK
    PerBlockOrderWithinPool
