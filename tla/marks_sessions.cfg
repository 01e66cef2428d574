CONSTANTS
    e1 = e1
    e2 = e2
    e3 = e3
    e4 = e4
    r1 = r1
    r2 = r2
    s1 = s1
    s2 = s2
    NoMark = NoMark
    NoFile = NoFile
    Garbage = Garbage
    Room <- MCRoom
    Event <- TwoEvents
    Ts <- TwoTs
    RoomOf <- TwoRooms
    Session = {s1, s2}
    Owner <- TwoOwners
    Window = 1
    MaxStart = 1
    Keep = 1
    MaxCommands = 1
    MaxLogins = 1
    MaxMade = 0
    MaxTaken = 0
SPECIFICATION DirSpec
CHECK_DEADLOCK FALSE
INVARIANT MarksStayOnDisk
