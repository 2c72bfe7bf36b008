CONSTANTS
    Keys = {"k1", "k2"}
    Lifetime = 1
    Offsets = {0, 1}
    Postgres = FALSE
    MaxTime = 2
    MaxOutages = 1
    Guards = {"careful", "watching"}
    KeyOf <- TwoKeys
    Strict = {"careful", "watching"}
    BlockOnError = {"careful"}
    Handlers = {"watching"}
    Calls = {"c1", "c2", "c3"}
    GuardOf <- ThreeCalls
    Items <- TwoPromptsFirst
    Exempt = {"c3"}
SPECIFICATION Spec
INVARIANTS
    TypeOK
    UncheckedNeedsToken
PROPERTIES
    RevokedKeyExpires
CHECK_DEADLOCK FALSE
