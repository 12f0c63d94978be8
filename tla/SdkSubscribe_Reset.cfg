SPECIFICATION Spec
CONSTANTS
    u1 = u1
    u2 = u2
    p1 = p1
    p2 = p2
    Users = {u1, u2}
    Producers = {p1, p2}
    Owner <- MCOwner
    Screens = {p2}
    Nobody = Nobody
    MaxDrops = 0
    MaxResets = 1
    MaxWire = 2
INVARIANT ResetRebuilds
CHECK_DEADLOCK FALSE
