\* A cancelled suspend-slot request.  A finished tree stops.
SPECIFICATION Spec
CONSTANTS
    a = a
    b = b
    c = c
    d = d
    root = root
    Calls <- Family
    Root <- root
    Parent <- NestedParent
    MaxConcurrent = 1
    FaultBudget <- Canceling
INVARIANTS
    WorkingCapRespected
CHECK_DEADLOCK FALSE
