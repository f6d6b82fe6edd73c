SPECIFICATION Spec
CONSTANTS
    a = a
    b = b
    i1 = i1
    i2 = i2
    i3 = i3
    Writers <- Processes
    Inodes <- Numbers
    Stranger = stranger
    Target = target
    None = none
    MaxOperations = 3
    FaultBudget <- SomeFaults
SYMMETRY Symmetry
CHECK_DEADLOCK FALSE
INVARIANTS
    CreatedWhole
    FailedInvisible
    SuccessDurable
PROPERTIES
    SuccessorKept
