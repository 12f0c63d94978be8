SPECIFICATION Spec
CONSTANTS
    h1 = h1
    a1 = a1
    a2 = a2
    b1 = b1
    host = host
    ann = ann
    bob = bob
    Sockets = {h1, a1, a2, b1}
    Users = {host, ann, bob}
    UserOf <- MCUserOf
    Hosts = {host}
    Owner = host
    MaxPending = 1
    MaxArrivals = 2
SYMMETRY MCSymmetry
INVARIANTS
    TypeOK
    MembershipAgrees
    StateEndsWithRoom
    NoPhantomPeer
    NoUnmatchedLeft
PROPERTY KickIsTerminal
CHECK_DEADLOCK FALSE
