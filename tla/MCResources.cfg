CONSTANTS
    c1 = c1
    c2 = c2
    k1 = k1
    k2 = k2
    Conns = {c1, c2}
    Clients = {k1, k2}
    Owner <- OwnerDistinct
    Allowed = {k1, k2}
    Ips = {i1}
    MaxCounter = 0
    MaxFrames = 2
    MaxRot = 1
    SeqMod = 1
    Failures = {"alloc", "crypto"}
    NoIp = NoIp
    NoKey = NoKey
SPECIFICATION Spec
INVARIANTS
    TypeOK
    IpLeasedOnce
    NoIpLeak
    SessionRegistered
    KeysAgree
CHECK_DEADLOCK FALSE
