SPECIFICATION Spec
CONSTANTS
    N = 5
    Parent <- MCNested
    Jobs = 2
CHECK_DEADLOCK FALSE
INVARIANTS
    TypeOK
    NoSendOnClosedChannel
    WaitGroupNotNegative
    FailureIsReported
PROPERTIES
    WorkersExit
    ImplementsTaskPool
