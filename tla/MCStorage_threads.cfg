CONSTANTS
    Processes = {"p1"}
    Actors = {"a1", "a2"}
    ProcessOf <- OneProcess
    Operations <- Webhooks
    LogLimit = 2
    LogKept = 2
    MaxStarts = 2
    MaxCrashes = 0
SPECIFICATION ThreadsSpec
INVARIANTS
    CreatedStays
CHECK_DEADLOCK FALSE
