SPECIFICATION Spec
CONSTANTS
    Calls = {c1, c2}
    none = none
    TxCap = 1
    EventsCap = 1
    QueueCap = 1
    WireCap = 1
    Sizes = {1}
    MaxSize = 2
    MaxBytes = 1
    MaxStops = 1
    MaxEvents = 1
INVARIANTS PathIsWhole AnswerIsOwn RunsOnce FileIsWhole SpoolAccounted NoneForgotten
SYMMETRY CallsAlike
CHECK_DEADLOCK FALSE
