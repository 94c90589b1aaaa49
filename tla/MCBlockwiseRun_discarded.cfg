SPECIFICATION Spec
CONSTANTS
    Groups = 2
    Sizes = 2
    MaxAttempts = 3
PROPERTY
    CompletedSearchKept
CHECK_DEADLOCK FALSE
