SPECIFICATION Spec
CONSTANTS
    a = a
    b = b
    Calls <- TwoCalls
    MaxGenerations = 2
    FaultBudget <- FaultsTwice
SYMMETRY Symmetry
CHECK_DEADLOCK FALSE
INVARIANTS
    LaunchedWhereAdmitted
    CutoffComplete
    TerminationComplete
PROPERTIES
    Irrevocable
