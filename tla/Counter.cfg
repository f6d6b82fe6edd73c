\* Two roots in one proof envelope, a nested call, each fault once.  Generations are bounded.
SPECIFICATION Spec
CONSTANTS
    a = a
    b = b
    c = c
    d = d
    first = first
    second = second
    Calls <- Quad
    Roots <- TwoRoots
    Parent <- MixedParent
    Root <- MixedRoot
    Envelope = TRUE
    MaxCalls = 3
    MaxGenerations = 4
    FaultBudget <- EachFault
INVARIANTS
    GenerationNumbersUnique
    FileCoversNumbers
    RootNumbersUnique
CHECK_DEADLOCK FALSE
