SPECIFICATION Spec
CONSTANTS
    Keys = {k1, k2}
    NoKey = NoKey
    Cap = 1
    QueueMax = 2
    Workers = 2
    OffboxRequired = TRUE
    MaxDenials = 3
    MaxPlain = 1
    Callers = 2
    MaxArchives = 1
    MaxRuns = 2
SYMMETRY Symmetry
CHECK_DEADLOCK FALSE
INVARIANTS
    DenialsConserved
    GapIsMarked
    ExportsAccounted
