CONSTANTS
    e1 = e1
    e2 = e2
    e3 = e3
    c1 = c1
    c2 = c2
    NoConn = NoConn
    Result = Result
    Event <- MCEvent
    Conn <- MCConn
    Ts <- MCTs
    Media = {e1}
    BacklogMax = 2
    MaxAge = 0
    SessionQueue = 1
    LeftoverMaxAge = 0
    MaxNow = 2
    MaxCommands = 0
SPECIFICATION Spec
SYMMETRY ConnSymmetry
INVARIANTS OneOwner NothingVanishes OnePlace WithinLimits SpoolKept
PROPERTIES LostOnlyAtALimit ImplementsDelivery
