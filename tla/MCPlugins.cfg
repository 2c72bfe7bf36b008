CONSTANTS
    PluginObjects = {"old", "new", "newer", "audit", "unnamed"}
    NameOf <- Names
    Hooks = {"pre_decision"}
    Handlers <- MCHandlers
    Files <- MCFiles
    MaxDepth = 2
    MaxSlots = 3
SPECIFICATION Spec
INVARIANTS
    TypeOK
PROPERTIES
    HandlersReached
    ShutDownOnce
