SPECIFICATION Spec
CONSTANTS
    t1 = t1
    t2 = t2
    t3 = t3
    d1 = d1
    d2 = d2
    p1 = p1
    p2 = p2
    Tabs = {t1, t2, t3}
    Devices = {d1, d2}
    DeviceOf <- MCDeviceOf
    Home = d1
    Admins = {me, you}
    Me = me
    MaxAttempts = 2
    MaxSlots = 2
    MaxMoves = 3
    People = {p1, p2}
    UserName <- MCUserName
    MaxSuffix = 2
    Keys = {k1, k2}
    ProjectRooms = {r1}
    MaxDeals = 9
    Writers = {w1, w2}
    MaxParts = 2
    MaxChunks = 2
    Times = 3
    RowIds = {1, 2, 3, 4}
    PageLimit = 2
    MaxChanges = 5
    Users = {o, g}
    Owner = o
    Guests = {g}
    MaxEdits = 2
    MaxMounts = 2
    MaxTrouble = 1
    MaxToggles = 1
    Slugs = {r1, r2}
    MaxGuests = 2
    MaxTurns = 2
INVARIANTS AuthInv AccessInv RecordingInv PageInv IdentityInv BoardInv
CHECK_DEADLOCK FALSE
