CONSTANTS
    u1 = u1  u2 = u2
    m1 = m1  m2 = m2  m3 = m3  m4 = m4
    f1 = f1  f2 = f2
    w1 = w1  w2 = w2
    Users = {u1, u2}
    Messages = {m1, m3, m4}
    Owner <- EndlessOwner
    Files = {f1}
    FilesOf <- EndlessFiles
    Broken = {m3}
    Endless = {m4}
    Workers = {w1, w2}
    NoUser = NoUser
    NoMessage = NoMessage
    MaxFaults = 1
    MaxCrashes = 2
    MaxTouches = 0
SPECIFICATION FairSpec
PROPERTIES EveryMessageHandled ShutdownEnds ImplementsIntake
CHECK_DEADLOCK FALSE
