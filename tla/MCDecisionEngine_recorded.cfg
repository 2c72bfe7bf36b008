CONSTANTS
    Absent = Absent
    NoRule = NoRule
    Prompts <- EveryLevel
    ToolCalls <- MCToolCalls
    OperatorRules <- MCOperatorRules
    GlobalRisks <- NoGlobalRisk
    MLEnabled = FALSE
    HealingEnabled = TRUE
    AutoApply = FALSE
    GenerationInterval = 2
    GenerationLimit = 2
    HealInterval = 1
    MinSamples = 1
    Repeated = {}
    WindowSize = 2
    MinDecisions = 1
    FPThreshold = 500
    FPTarget = 500
    FNTarget = 200
    Step = 50
    RollbackCooldown = 1
    AdjustCooldown = 0
    MaxDecisions = 4
    Feedback <- FalsePositive
SPECIFICATION Spec
PROPERTY
    OverblockedIsRecorded
CHECK_DEADLOCK FALSE
