\* One slot, a full batch that nests, ends of the tree.  A finished tree stops.
SPECIFICATION FairSpec
CONSTANTS
    a = a
    b = b
    c = c
    d = d
    root = root
    Calls <- TwoFamilies
    Root <- root
    Parent <- FullBatchParent
    MaxConcurrent = 1
    FaultBudget <- EndOfTree
PROPERTIES
    CallsEnd
    CutoffEndsTree
CHECK_DEADLOCK FALSE
