SPECIFICATION EgressFairSpec
CONSTANTS
    Sessions = {s1}
    Ports = {q1}
    Procs = {f1, f2}
    Builds = {b1, b2}
    MaxTaps = 1
    MaxRestarts = 1
    None = None
    m1 = m1
    v1 = v1
    v2 = v2
    Sources = {m1, v1, v2}
    KindOf <- MCKindOf
    Requested = {"rtmp", "record"}
    MaxTiles = 4
    MaxExits = 1
INVARIANTS PortsInv OneProgram OrderlyStopIsClean ProgramInv
PROPERTY StopEnds
CHECK_DEADLOCK FALSE
