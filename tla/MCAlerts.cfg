CONSTANTS
    Rules = {"any", "bad", "ratio"}
    NameOf <- Names
    Condition <- Conditions
    Cooldown <- Cooldowns
    Level <- Levels
    ChannelsOf <- Routes
    ChannelNames = {"email", "pagerduty"}
    MinLevel <- MinLevels
    Catching = {"email"}
    Window = 1
    MaxTime = 2
    MaxEvents = 1
SPECIFICATION Spec
INVARIANTS
    TypeOK
PROPERTIES
    OneAlertPerCooldown
    SilenceBounded
