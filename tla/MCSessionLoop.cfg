CONSTANTS
    c1 = c1
    c2 = c2
    k1 = k1
    k2 = k2
    Conns = {c1}
    Clients = {k1}
    Owner <- OwnerDistinct
    Allowed = {k1}
    Ips = {i1}
    MaxCounter = 2
    MaxFrames = 4
    MaxRot = 2
    SeqMod = 2
    Failures = {"alloc", "crypto", "new"}
    NoIp = NoIp
    NoKey = NoKey
SPECIFICATION Spec
INVARIANTS
    NoNonzeroReplay
    StopObservedWithinOneFrame
PROPERTIES
    BrokenLeadsToEnd
CHECK_DEADLOCK FALSE
