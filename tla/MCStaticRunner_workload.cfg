SPECIFICATION Spec
CONSTANTS
    None = None
    NoLimit = NoLimit
    Missing = Missing
    NumLayers = 2
    Plans <- MCPlans
    Sequences <- MCSequences
    Strategies <- StrategyNames
    Cfg <- MCCfg
    Scope = "global_workload"
    NormOf <- MCNorms
    Latencies <- MCLatencies
    FullSize = 2
    ComponentSize = 1
    MaxEntries = 4
    MaxBytes = 9
    Policy = "fifo"
INVARIANTS
    ExactStrategiesStayExact
    LatestIsInManager
    RebuildsBounded
CHECK_DEADLOCK FALSE
