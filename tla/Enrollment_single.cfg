SPECIFICATION Spec
CONSTANTS
    a1 = a1
    o1 = o1
    o2 = o2
    Procs = {p1}
    Orders <- TwoOrders
    Accounts <- OneAccount
    Owner <- OwnerTwo
    Keys = {k1, k2}
    Finalizes = {f1, f2}
    Reqs = {r1, r2}
    None = None
    MaxWorkers = 2
    MaxPending = 1
    MaxGeneration = 2
    OperatorChecksOutstanding = TRUE
SYMMETRY Symmetry
CHECK_DEADLOCK FALSE
INVARIANTS
    TypeOK
    OneLiveCertificatePerOrder
    IssuedIsAccountedFor
    ReopenedOrderIsClean
    SubmitsForCurrentAccount
    OrderAndRowAgree
