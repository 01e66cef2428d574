CONSTANTS
    TypingMax = 1
    MaxCalls = 4
SPECIFICATION FairSpec
CHECK_DEADLOCK FALSE
INVARIANTS OneRefresher QuietWhenOver
PROPERTIES ReportIsSilence IndicatorEnds
