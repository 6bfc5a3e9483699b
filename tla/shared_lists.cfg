SPECIFICATION Spec
CONSTANTS
    Nil = Nil
    Instances = {i1, i2}
    Objects = {u1, u2, p1}
    IDs = {u1, u2}
    Reqs = {r1}
    RedisOn = TRUE
    RedisFaults = FALSE
    DBFaults = FALSE
    BufCap = 2
    MaxWrites = 2
    MaxRestarts = 0
INVARIANT ListFresh
