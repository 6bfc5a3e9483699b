SPECIFICATION Spec
CONSTANTS
    Nil = Nil
    u1 = u1
    u2 = u2
    n1 = n1
    a1 = a1
    a2 = a2
    IDs = {u1, u2}
    Names = {n1}
    Addrs = {a1, a2}
    Units = {t1, t2}
    Rows <- MCRows
    OtherRows <- MCOtherRows
    Pools = {1, 2}
    Backends = {"memory", "postgres"}
    DBFaults = TRUE
INVARIANTS
    TypeOK
    ConnectionsReturned
PROPERTIES
    AtomicSpec
    WaitsEnd
