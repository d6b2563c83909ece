SPECIFICATION FairSpec
CONSTANTS
    Certs = {c1, c2}
    Foreign = {}
    Holds = {}
    Requests = {q1}
    None = None
    MaxCrl = 3
    PageLimit = 2
    RequireEvidence = TRUE
    EnforceMonotonic = TRUE
CHECK_DEADLOCK FALSE
INVARIANTS
    TrailMatchesEvidence
PROPERTIES
    RevocationsDrain
