SPECIFICATION Spec
CONSTANTS
    a1 = a1
    o1 = o1
    o2 = o2
    Procs = {p1, p2}
    Orders <- OneOrder
    Accounts <- OneAccount
    Owner <- OwnerOne
    Keys = {k1, k2}
    Finalizes = {f1, f2}
    Reqs = {r1, r2}
    None = None
    MaxWorkers = 2
    MaxPending = 2
    MaxGeneration = 3
    OperatorChecksOutstanding = FALSE
SYMMETRY Symmetry
CHECK_DEADLOCK FALSE
INVARIANTS
    LeaseExclusive
    OneRequestPerLease
    ValidOrderServesHonoured
PROPERTIES
    EnrollmentKeepsLifecycle
