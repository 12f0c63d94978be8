SPECIFICATION BackgroundSpec
CONSTANTS
    p1 = p1
    p2 = p2
    NoJob = NoJob
    Projects = {p1, p2}
    Responsive = {p1}
    NumEvents = 3
    MaxAttempts = 3
    ProjectOf <- MCProjectOf
    Rooms = {r1, r2}
    Workers = {w1, w2, w3}
    FirstWorkers = {w1}
    NoWorker = NoWorker
    NoRoom = NoRoom
    MaxRouters = 2
    MaxDeaths = 2
INVARIANTS TypeOK NothingOvertakes PoolInv
PROPERTIES ImplementsFifo DeliveriesEnd RecoveryEnds
CHECK_DEADLOCK FALSE
