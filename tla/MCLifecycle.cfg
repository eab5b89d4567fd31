CONSTANTS
    c1 = c1
    c2 = c2
    k1 = k1
    k2 = k2
    Conns = {c1, c2}
    Clients = {k1, k2}
    Owner <- OwnerDistinct
    Allowed = {k1, k2}
    Ips = {i1, i2}
    MaxCounter = 0
    MaxFrames = 1
    MaxRot = 0
    SeqMod = 1
    Failures = {"alloc", "crypto", "new"}
    NoIp = NoIp
    NoKey = NoKey
SPECIFICATION Spec
PROPERTIES
    LifecycleRefined
CHECK_DEADLOCK FALSE
