CONSTANTS
    Tasks <- OneTask
    TypeOf <- MCTypeOf
    PriorityOf <- MCPriorityOf
    Workers = {w1}
    Embedded = {}
    MaxOutages = 0
    MaxCrashes = 0
SPECIFICATION Spec
PROPERTY
    StoredIsProcessed
CHECK_DEADLOCK FALSE
