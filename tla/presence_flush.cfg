CONSTANTS
    Grace = 1
    Repeat = 2
    SilentRepeat = 2
    None = None
    MaxNow = 2
    MaxOutages = 2
    MaxReports = 0
SPECIFICATION Spec
CHECK_DEADLOCK FALSE
INVARIANT WatchSeesAbsence
