\* One slot, a nested batch, every kind of fault twice.  A finished tree stops.
SPECIFICATION Spec
CONSTANTS
    a = a
    b = b
    c = c
    d = d
    root = root
    Calls <- Family
    Root <- root
    Parent <- BatchParent
    MaxConcurrent = 1
    FaultBudget <- TwoFaults
INVARIANTS
    SlotCapRespected
    LiveIsControlled
    CutoffReachesAll
    WaitingYieldsSlot
    LeaseIsBacked
    WorkingHoldsSlot
    WorkConserving
CHECK_DEADLOCK FALSE
