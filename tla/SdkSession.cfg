SPECIFICATION FairSpec
CONSTANTS
    MaxRejoins = 2
    HasProvider = TRUE
    MaxAttempts = 3
    MaxDrops = 4
    Watched = {u1}
    Readings <- MCReadings
    Interval = 5
    Debounce = 3
    MaxMoves = 4
    Users = {u1}
    Me = me
    Levels = {0, 2, 3}
    Hold = 2
    MaxTracks = 2
    MaxDeeds = 6
INVARIANTS OverIsOver NoSwitchIsMissed PlayoutIsAsChosen
PROPERTIES RecoveryEnds CamerasAreDriven SilenceIsReported
CHECK_DEADLOCK FALSE
