CONSTANTS
    r1 = r1
    r2 = r2
    r3 = r3
    Setters <- MCSetters3
    MaxVersion = 5
    MaxCalls = 2
SPECIFICATION Spec
PROPERTIES
    CallsReturn
    ImplementsAtomicStore
