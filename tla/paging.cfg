SPECIFICATION Spec
CONSTANTS
    IDs = {u1, u2}
    MaxTime = 2
    MaxInt = 7
    MaxInt32 = 3
    DefaultSize = 1
    MemorySize = 2
    MaxSize = 3
    Backends = {"memory", "postgres"}
    APIs = {"rest", "gqlgen", "graphql-go"}
    Caching = TRUE
    MaxEra = 3
    DBFaults = TRUE
INVARIANTS
    TypeOK
    TotalAgrees
    WalkCovers
PROPERTIES
    PageRight
SYMMETRY MCSymmetry
