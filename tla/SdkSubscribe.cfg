SPECIFICATION Spec
CONSTANTS
    u1 = u1
    u2 = u2
    p1 = p1
    p2 = p2
    Users = {u1, u2}
    Producers = {p1, p2}
    Owner <- MCOwner
    Screens = {p2}
    Nobody = Nobody
    MaxDrops = 1
    MaxResets = 1
    MaxWire = 2
INVARIANTS EveryoneIsHeard
CHECK_DEADLOCK FALSE
