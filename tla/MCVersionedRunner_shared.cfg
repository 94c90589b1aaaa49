SPECIFICATION Spec
CONSTANTS
    None = None
    NoLimit = NoLimit
    Missing = Missing
    NumLayers = 3
    Plans <- SharedPlans
    Strategies <- SharedStrategies
    Cfg <- MCCfg
    Scope = "global_workload"
    CachedVersion = 1
    Steps = {1, 2, 3}
    NormSteps = {2, 3}
    Latencies <- MCLatencies
    FullSize = 2
    ComponentSize = 1
    MaxEntries = 3
    MaxBytes = 5
    Policy = "lru"
INVARIANTS
    PutsAccepted
    CacheIsInManager
CHECK_DEADLOCK FALSE
