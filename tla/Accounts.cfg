SPECIFICATION Spec
CONSTANTS
    Procs = {p1, p2}
    Accounts = {a1, a2, a3}
    Keys = {k1, k2, k3}
    Kids = {d1, d2}
    ShortKids = {d2}
    Requests = {q1, q2}
    Rows = {r1, r2}
    None = None
    MaxAccountsPerKid = 2
    KeyChangeLimit = 1
SYMMETRY Symmetry
CHECK_DEADLOCK FALSE
INVARIANTS
    OneAccountPerKey
    CeilingsHold
PROPERTIES
    RolloverIsCurrent
    WeakKidNotIntroduced
