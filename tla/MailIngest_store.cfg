CONSTANTS
    u1 = u1  u2 = u2
    m1 = m1  m2 = m2  m3 = m3  m4 = m4
    f1 = f1  f2 = f2
    w1 = w1  w2 = w2
    Users = {u1, u2}
    Messages = {m1, m2, m3}
    Owner <- TwoOwner
    Files = {f1, f2}
    FilesOf <- TwoFiles
    Broken = {m3}
    Endless = {}
    Workers = {w1, w2}
    NoUser = NoUser
    NoMessage = NoMessage
    MaxFaults = 2
    MaxCrashes = 1
    MaxTouches = 1
SPECIFICATION Spec
SYMMETRY WorkerSymmetry
INVARIANTS TypeOK SeenIsStored SeenIsComplete SecondOrderExplained DocumentsAreStored
           OneWorkerPerUser
CHECK_DEADLOCK FALSE
