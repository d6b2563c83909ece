SPECIFICATION FairSpec
CHECK_DEADLOCK FALSE
INVARIANTS
    TypeOK
    KeepsContract
    EvidenceFollowsProgress
PROPERTIES
    LegEnds
