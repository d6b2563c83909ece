SPECIFICATION FairSpec
CONSTANTS
    a1 = a1
    o1 = o1
    o2 = o2
    Procs = {p1}
    Orders <- TwoOrders
    Accounts <- OneAccount
    Owner <- OwnerTwo
    Keys = {k1}
    Finalizes = {f1, f2}
    Reqs = {r1}
    None = None
    MaxWorkers = 2
    MaxPending = 2
    MaxGeneration = 2
    OperatorChecksOutstanding = TRUE
CHECK_DEADLOCK FALSE
PROPERTIES
    EnrollmentEnds
    WedgedOrderIsRecovered
