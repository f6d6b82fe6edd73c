SPECIFICATION Spec
CONSTANTS
    Deadline = TRUE
    MaxFaults = 3
CHECK_DEADLOCK FALSE
INVARIANTS
    QuiescedGroupDead
    SentinelTruthful
PROPERTIES
    KilledGroupEnds
    LeaseNotHeld
    FrontEnds
