CONSTANTS
    e1 = e1
    e2 = e2
    e3 = e3
    c1 = c1
    c2 = c2
    NoConn = NoConn
    Result = Result
    Event <- TwoEvents
    Conn <- MCConn
    Ts <- MCTs
    Media = {}
    BacklogMax = 2
    MaxAge = 1
    SessionQueue = 1
    LeftoverMaxAge = 1
    MaxNow = 3
    MaxCommands = 0
SPECIFICATION Spec
SYMMETRY ConnSymmetry
INVARIANT WaitsOnlyWhileAway
