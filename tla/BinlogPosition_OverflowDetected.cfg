CONSTANTS
    MaxIndex = 2
    MaxDv = 4
SPECIFICATION Spec
INVARIANTS
    OverflowDetected
