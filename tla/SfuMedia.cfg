SPECIFICATION MediaRoomSpec
CONSTANTS
    Sockets = {a, b}
    Producers = {p, q}
    None = None
    MaxTurns = 3
    MaxCalls = 2
    Capabilities = {"mute-users", "lock-room"}
    MaxMoves = 3
    MaxBlips = 1
SYMMETRY Symmetric
INVARIANTS MediaInv EveryoneHears RosterInv
CHECK_DEADLOCK FALSE
