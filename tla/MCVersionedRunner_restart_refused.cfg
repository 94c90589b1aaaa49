SPECIFICATION Spec
CONSTANTS
    None = None
    NoLimit = NoLimit
    Missing = Missing
    NumLayers = 3
    Plans <- RestartPlans
    Strategies = {"adaptive"}
    Cfg <- MCCfg
    Scope = "condition"
    CachedVersion = 0
    Steps = {1, 2}
    NormSteps = {3}
    Latencies <- MCLatencies
    FullSize = 2
    ComponentSize = 1
    MaxEntries = NoLimit
    MaxBytes = NoLimit
    Policy = "lru"
INVARIANT
    RestartsAreServed
CHECK_DEADLOCK FALSE
