CONSTANTS
    Blocks <- MCBlocks
    MasterCount = 2
    SlaveCount = 1
    OP_SLAB = 2
    MaxOps = 4
    MaxRoleChanges = 1
SPECIFICATION Spec
INVARIANT
    PerBlockOrder
