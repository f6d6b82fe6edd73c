SPECIFICATION FairSpec
CONSTANTS
    a = a
    b = b
    d = d
    p1 = p1
    p2 = p2
    r1 = r1
    r2 = r2
    Free = Free
    Broken = Broken
    Calls <- TwoCalls
    Processes = {p1, p2}
    OwnerOf <- OwnersTwo
    Recoveries = {r1}
    Names <- SomeNames
    Fold <- LowerCase
    Files <- SomeFiles
    Request <- Requests
    MaxParallelImplementers = 2
    Faults = {}
    Mortal = {p1}
    CrashStages <- EveryStage
    CrashBudget = 1
    MaxEdits = 1
    MaxCommits = 0
PROPERTIES OwnersUndisturbed Recovered
CHECK_DEADLOCK FALSE
