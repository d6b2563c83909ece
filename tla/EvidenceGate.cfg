SPECIFICATION FairSpec
CONSTANTS
    Keys = {k1, k2, k3}
    Callers = {c1, c2}
    Futures = {f1, f2, f3}
    None = None
    MaxWorkers = 1
    MaxPending = 2
CHECK_DEADLOCK FALSE
INVARIANTS
    SingleFlight
    AdmissionBound
PROPERTIES
    CapacityReturns
