SPECIFICATION Spec
CONSTANTS
    N = 3
    Names <- MCNames
    NameOf <- MCDistinct
    Jobs = 2
CHECK_DEADLOCK FALSE
INVARIANTS
    TypeOK
PROPERTIES
    ImplementsTaskPool
