SPECIFICATION Spec
CONSTANTS
    Conditions = 2
    Tables <- MCTables
    Strategies <- MCStrategies
    Decides <- MCDecides
    MaxAttempts = 3
    None = None
INVARIANTS
    CompletedMeansAll
    CsvNeverAhead
    ProgressWithinOne
PROPERTY
    NothingLost
CHECK_DEADLOCK FALSE
