SPECIFICATION Spec
CONSTANTS
    Calls = {c1}
    none = none
    TxCap = 1
    EventsCap = 1
    QueueCap = 1
    WireCap = 1
    Sizes = {1}
    MaxSize = 1
    MaxBytes = 1
    MaxStops = 0
    MaxEvents = 1
INVARIANT NeverHangs
CHECK_DEADLOCK FALSE
