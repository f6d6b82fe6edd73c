SPECIFICATION Spec
CONSTANTS
    a = a
    b = b
    d = d
    p1 = p1
    p2 = p2
    r1 = r1
    r2 = r2
    Free = Free
    Broken = Broken
    Calls <- ThreeCalls
    Processes = {p1, p2}
    OwnerOf <- OwnersThree
    Recoveries = {r1, r2}
    Names <- SomeNames
    Fold <- LowerCase
    Files <- SomeFiles
    Request <- Requests
    MaxParallelImplementers = 2
    Faults = {"io", "timeout", "torn"}
    Mortal = {p1, p2, r1, r2}
    CrashStages <- EveryStage
    CrashBudget = 2
    MaxEdits = 1
    MaxCommits = 1
CONSTRAINT Scenarios
INVARIANTS TypeOK AdmittedTogether LiveChildUndisturbed NothingOrphaned WorkSalvageable
PROPERTIES AttemptSpec
CHECK_DEADLOCK FALSE
