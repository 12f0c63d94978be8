SPECIFICATION Spec
CONSTANTS
    Sources = {"camera", "screen"}
    QueueLimit = 2
    MaxStarts = 2
    MaxDrops = 1
    MaxResets = 1
    r1 = r1
    r2 = r2
    r3 = r3
    Requests = {r1, r2, r3}
    Wishes <- MCWishes
    MaxFalls = 1
    Cameras = {c1, c2}
    MaxEvents = 4
    Myself = me
    Remotes = {p1, p2}
    StageSizes <- MCStageSizes
    MaxAudience = 14
    MaxConfirms = 3
    MaxRequests = 4
    Ids = {x, y}
    MaxVersion = 2
    MaxStrokes = 3
    MaxPeer = 2
    MaxReports = 2
INVARIANTS ClientInv AnswerIsTrue PermissionIsCurrent StageShowsAll JoinIsMeant
CHECK_DEADLOCK FALSE
