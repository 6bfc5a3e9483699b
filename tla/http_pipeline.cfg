SPECIFICATION Spec
CONSTANTS
    Nil = Nil
    k1 = k1
    k2 = k2
    k3 = k3
    Keys = {k1, k2, k3}
    CurrentKeys = {k1}
    OldKeys = {k2}
    Expiry <- MCExpiry
    MaxDay = 1
INVARIANTS
    TypeOK
    StatusDelivered
    LogIsTrue
    HeadersSurvive
    KeyHolders
    GzipWellFormed
