SPECIFICATION Spec
CONSTANTS
    None = None
    Configs <- MCConfigs
    Names <- StrategyNames
    Targets <- MCTargets
    Runtimes <- MCRuntimes
    GapSteps = {1, 2}
    NormSteps = {0, 2, 3}
    MaxGap = 9
    MaxNorm = 8
INVARIANTS
    DecisionExecutable
    ExactOnlyWhenCurrent
    AgeBounded
    DriftBounded
    BudgetsRespected
    MapReuseIsMeasuredSafe
PROPERTY
    OnceRefreshedAlways
CHECK_DEADLOCK FALSE
