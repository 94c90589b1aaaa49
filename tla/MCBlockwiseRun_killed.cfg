SPECIFICATION Spec
CONSTANTS
    Groups = 2
    Sizes = 2
    MaxAttempts = 3
INVARIANTS
    OneAttemptEach
    FinishedMeansAll
PROPERTY
    SearchKept
CHECK_DEADLOCK FALSE
