CONSTANTS
    c1 = c1
    c2 = c2
    k1 = k1
    k2 = k2
    Conns = {c1}
    Clients = {k1}
    Owner <- OwnerDistinct
    Allowed = {k1}
    Ips = {i1}
    MaxCounter = 0
    MaxFrames = 1
    MaxRot = 1
    SeqMod = 1
    Failures = {"crypto"}
    NoIp = NoIp
    NoKey = NoKey
SPECIFICATION Spec
INVARIANT
    NoOrphanKey
CHECK_DEADLOCK FALSE
