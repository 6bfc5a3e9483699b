SPECIFICATION Spec
CONSTANTS
    Nil = Nil
    n1 = n1
    n2 = n2
    a1 = a1
    IDs = {u1, u2}
    Names = {n1, n2}
    Addrs = {a1}
    NameInputs <- MCTwoNames
    EmailInputs <- MCPlainEmails
    Reqs = {r1, r2}
    Backends = {"postgres"}
    DBFaults = FALSE
    MaxClock = 1
PROPERTY MergePatchTouchesNamedFields
