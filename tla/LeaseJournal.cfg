SPECIFICATION Spec
CONSTANTS
    owner = owner
    r1 = r1
    r2 = r2
    Owner <- owner
    Recoveries <- TwoRecoveries
    Nobody = Nobody
    MaxWrites = 4
    FaultBudget <- SomeFaults
SYMMETRY Symmetry
CHECK_DEADLOCK FALSE
INVARIANTS
    JournalReadable
PROPERTIES
    ImplementsLog
