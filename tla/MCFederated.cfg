CONSTANTS
    Tenants = {t1, t2, off}
    Enabled = {t1, t2}
    Aggregators = {"averages"}
    Repositories = {"patterns"}
    AggregatorOf <- OneAggregator
    RepositoryOf <- OneRepository
    ContributionInterval = 2
    SyncInterval = 1
    Window = 1
    MinContributions = 2
    MaxPatterns = 2
    MaxTime = 3
    MaxContributions = 2
    MaxIngested = 3
    MaxSetBacks = 1
SPECIFICATION Spec
SYMMETRY Alike
INVARIANTS
    TypeOK
    NewestKept
    ContributionsSpaced
CHECK_DEADLOCK FALSE
