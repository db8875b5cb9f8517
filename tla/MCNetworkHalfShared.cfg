SPECIFICATION Spec
CONSTANTS
    N = 4
    Names <- MCNames
    NameOf <- MCShared
    Jobs = 2
CHECK_DEADLOCK FALSE
INVARIANTS
    SharedRepositoryExclusive
PROPERTIES
    FetchedOnce
    NetworkHalfReturns
