CONSTANTS
    c1 = c1
    c2 = c2
    k1 = k1
    k2 = k2
    Conns = {c1}
    Clients = {k1}
    Owner <- OwnerDistinct
    Allowed = {k1}
    Ips = {i1}
    MaxCounter = 1
    MaxFrames = 3
    MaxRot = 1
    SeqMod = 1
    Failures = {}
    NoIp = NoIp
    NoKey = NoKey
SPECIFICATION Spec
INVARIANT
    AcceptedCountersIncrease
CHECK_DEADLOCK FALSE
