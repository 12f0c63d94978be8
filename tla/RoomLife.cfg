SPECIFICATION FairSpec
CONSTANTS
    OwnerTabs = {t1}
    Chatters = {o, g}
    TheGuest = g
    MaxActs = 3
    PageSize = 1
    MaxAsks = 2
    MaxPolls = 2
INVARIANTS RoomLifeInv
PROPERTY GuestIsAnswered
CHECK_DEADLOCK FALSE
