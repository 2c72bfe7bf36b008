CONSTANTS
    Processes = {"p1", "p2"}
    Actors = {"a1", "a2", "a3"}
    ProcessOf <- TwoProcesses
    Operations <- MCOperations
    LogLimit = 2
    LogKept = 2
    MaxStarts = 3
    MaxCrashes = 1
SPECIFICATION Spec
INVARIANTS
    TypeOK
    TornOnlyByCollision
    TenantsUnique
    LogBounded
PROPERTIES
    RevocationHolds
    ImplementsStore
CHECK_DEADLOCK FALSE
