SPECIFICATION FairSpec
CONSTANTS
    Runs <- MCRuns
    Calibration <- MCCalibration
    MaxReboots = 1
    MaxSignals = 1
INVARIANTS
    DevicesExclusive
    DoneMeansAllSucceeded
    SettledBeforeSummary
PROPERTIES
    SuccessIsFinal
    Ends
CHECK_DEADLOCK FALSE
