CONSTANTS
    Processes = {"p1", "p2"}
    Actors = {"a1", "a2", "a3"}
    ProcessOf <- TwoProcesses
    Operations <- MCOperations
    PoolSize = 1
    MaxStarts = 2
    MaxFailures = 1
SPECIFICATION Spec
INVARIANTS
    TypeOK
    DayRowsBounded
    RepliesTrue
PROPERTIES
    ImplementsStore
    TransactionsEnd
CHECK_DEADLOCK FALSE
