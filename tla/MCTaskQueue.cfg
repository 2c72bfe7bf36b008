CONSTANTS
    Tasks <- MCTasks
    TypeOf <- MCTypeOf
    PriorityOf <- MCPriorityOf
    Workers = {w1, w2}
    Embedded = {w2}
    MaxOutages = 1
    MaxCrashes = 1
SPECIFICATION Spec
INVARIANTS
    TypeOK
    AnswerIsTrue
PROPERTIES
    PoisonIsFatal
    ImplementsLedger
    CallsReturn
    PolledQueuesDrain
CHECK_DEADLOCK FALSE
