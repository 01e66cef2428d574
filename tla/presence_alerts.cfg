CONSTANTS
    Grace = 1
    Repeat = 2
    SilentRepeat = 2
    None = None
    MaxNow = 4
    MaxOutages = 2
    MaxReports = 2
SPECIFICATION FairSpec
CHECK_DEADLOCK FALSE
INVARIANTS AlertsAreSpaced BackAnswersAway
PROPERTIES AwayIsReal AwayIsReported
