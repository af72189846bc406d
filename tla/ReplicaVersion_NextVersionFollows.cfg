CONSTANTS
    r1 = r1
    r2 = r2
    r3 = r3
    Setters <- MCSetters
    MaxVersion = 4
    MaxCalls = 2
SPECIFICATION Spec
SYMMETRY Symm
INVARIANT
    NextVersionFollows
