SPECIFICATION Spec
CONSTANTS
    Layers = 2
    Blocks = 3
    StartLayer = 0
    Direct <- MCDirect
    Conditions <- MCFittedConditions
    Unit = 12
    StaleScore = 12
    NaN = NaN
    NoPolicy = NoPolicy
    RouterScores <- MCRouterScores
    Scores <- MCScores
    Policies <- MCPolicies
    Share = 12
    MinStaleKl = 3
    ProbeMargins = {0, 1, 2}
    PoolSize = 2
    CommittedPoolSize = 2
    Quantiles = {500, 1000}
    MinimumGains = {0, 1}
    SelectorNames <- MCSelectorNames
    MaxEntropy = 100
    BaselineSelectors = {"norm"}
INVARIANT
    GuardRejectsHarm
