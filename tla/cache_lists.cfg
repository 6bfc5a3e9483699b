SPECIFICATION Spec
CONSTANTS
    Nil = Nil
    Instances = {i1}
    Objects = {u1, p1}
    IDs = {u1}
    Reqs = {r1, r2}
    RedisOn = TRUE
    RedisFaults = FALSE
    DBFaults = FALSE
    BufCap = 1
    MaxWrites = 2
    MaxRestarts = 0
INVARIANTS
    TypeOK
    ListFresh
SYMMETRY MCSymmetry
VIEW MCListView
