CONSTANTS
    e1 = e1
    e2 = e2
    e3 = e3
    e4 = e4
    r1 = r1
    r2 = r2
    s1 = s1
    s2 = s2
    NoMark = NoMark
    NoFile = NoFile
    Garbage = Garbage
    Room <- MCRoom
    Event <- FourEvents
    Ts <- FourTs
    RoomOf <- FourRooms
    Session = {s1}
    Owner <- SameOwner
    Window = 0
    MaxStart = 2
    Keep = 1
    MaxCommands = 3
    MaxLogins = 2
    MaxMade = 2
    MaxTaken = 2
SYMMETRY Twins
SPECIFICATION DirSpec
CHECK_DEADLOCK FALSE
INVARIANTS MarksMeanAcked AckedStaysCovered MarksStayOnDisk StoreIsOneDevice CopiesAreWhole
PROPERTIES NoRedelivery IdentityReplacedOnce
