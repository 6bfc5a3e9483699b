SPECIFICATION Spec
CONSTANTS
    Nil = Nil
    Instances = {i1}
    Objects = {u1}
    IDs = {u1}
    Reqs = {r1, r2}
    RedisOn = FALSE
    RedisFaults = FALSE
    DBFaults = FALSE
    BufCap = 2
    MaxWrites = 2
    MaxRestarts = 0
INVARIANT UserCurrent
