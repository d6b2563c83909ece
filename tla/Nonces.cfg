SPECIFICATION Spec
CONSTANTS
    Nonces = {n1, n2, n3}
    Requests = {q1, q2}
    None = None
    Capacity = 2
    Scale = 3
    Refill = 2
    MaxTime = 3
    MaxRestarts = 1
SYMMETRY Symmetry
CHECK_DEADLOCK FALSE
INVARIANTS
    AdmitsOnce
    MintsArePaidFor
    RateHolds
