SPECIFICATION Spec
CONSTANTS
    a1 = a1
    a2 = a2
    d1 = d1
    Procs = {p1, p2}
    Orders = {o1, o2}
    Names = {n1, n2}
    Accounts <- TwoAccounts
    Kids <- OneKid
    KidOf <- SharedKid
    Requests = {q1, q2}
    None = None
    KidLimit <- LimitOne
    GlobalLimit = 0
SYMMETRY Symmetry
CHECK_DEADLOCK FALSE
INVARIANTS
    OrderCeilingsHold
    ReadyIsAuthorized
    PendingForAReason
PROPERTIES
    IntakeKeepsLifecycle
