SPECIFICATION Spec
CONSTANTS
    None = None
    NoLimit = NoLimit
    Missing = Missing
    NumLayers = 3
    Plans <- MCPlans
    Strategies <- StrategyNames
    Cfg <- MCCfg
    Scope = "condition"
    CachedVersion = 1
    Steps = {1, 2, 4}
    NormSteps = {2, 3}
    Latencies <- MCLatencies
    FullSize = 2
    ComponentSize = 1
    MaxEntries = NoLimit
    MaxBytes = NoLimit
    Policy = "lru"
INVARIANTS
    ExactBlocksAreExact
    UnexaminedOutputsAreExact
    ThresholdBoundsDrift
    CommittedRefreshesCounted
PROPERTY
    EveryStepRecorded
CHECK_DEADLOCK FALSE
