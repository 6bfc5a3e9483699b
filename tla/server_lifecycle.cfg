SPECIFICATION Spec
CONSTANTS
    Reqs = {r1, r2}
    Programs = {"server", "api"}
    Grace = 4
    ApiGrace = 1
    HandlerTimeout = 6
    HeaderTimeout = 1
    ReadTimeout = 2
    WriteTimeout = 3
INVARIANTS
    TypeOK
    CutOnlyAfterGrace
    StoreOutlivesHandlers
    LostWriteCaused
PROPERTIES
    Terminates
