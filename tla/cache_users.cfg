SPECIFICATION FairSpec
CONSTANTS
    Nil = Nil
    Instances = {i1}
    Objects = {u1}
    IDs = {u1}
    Reqs = {r1, r2}
    RedisOn = TRUE
    RedisFaults = TRUE
    DBFaults = TRUE
    BufCap = 2
    MaxWrites = 2
    MaxRestarts = 1
INVARIANTS
    UserCurrentUnlessTainted
PROPERTY
    RequestsComplete
