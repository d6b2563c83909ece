SPECIFICATION Spec
CONSTANTS
    Certs = {c1, c2}
    Foreign = {}
    Holds = {c1}
    Requests = {q1, q2}
    None = None
    MaxCrl = 2
    PageLimit = 2
    RequireEvidence = FALSE
    EnforceMonotonic = TRUE
CHECK_DEADLOCK FALSE
INVARIANTS
    TypeOK
    ConfirmedWasRevoked
    TrailMatchesEvidence
    WatermarkIsNewestActedOn
PROPERTIES
    FirstConfirmationStands
