CONSTANTS
    c1 = c1
    c2 = c2
    c3 = c3
    k1 = k1
    k2 = k2
    Conns = {c1, c2, c3}
    Clients = {k1, k2}
    Owner <- OwnerTwoHolders
    Allowed = {k1, k2}
    Addr <- AddrDistinct
    NoKey = NoKey
SPECIFICATION Spec
INVARIANTS
    ChallengeBoundToConnection
CHECK_DEADLOCK FALSE
