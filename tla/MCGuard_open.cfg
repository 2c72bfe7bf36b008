CONSTANTS
    Keys = {"k1", "k2"}
    Lifetime = 1
    Offsets = {1}
    Postgres = FALSE
    MaxTime = 2
    MaxOutages = 1
    Guards = {"careful", "watching"}
    KeyOf <- TwoKeys
    Strict = {"careful", "watching"}
    BlockOnError = {"careful", "watching"}
    Handlers = {"watching"}
    Calls = {"c1", "c2", "c3"}
    GuardOf <- ThreeCalls
    Items <- ThreePrompts
    Exempt = {"c3"}
SPECIFICATION OpenSpec
INVARIANTS
    EveryActionEvaluated
CHECK_DEADLOCK FALSE
