SPECIFICATION Spec
CONSTANTS
    Nil = Nil
    n1 = n1
    n2 = n2
    a1 = a1
    IDs = {u1, u2}
    Names = {n1}
    Addrs = {a1}
    NameInputs <- MCNameInputs
    EmailInputs <- MCEmailInputs
    Reqs = {r1, r2}
    Backends = {"memory", "postgres"}
    DBFaults = TRUE
    MaxClock = 1
INVARIANTS
    TypeOK
    TimestampsOrdered
    PlainAddressUnique
PROPERTIES
    DirectorySpec
    RefusalChangesNothing
SYMMETRY MCSymmetry
