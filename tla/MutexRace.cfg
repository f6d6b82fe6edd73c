\* Two holders and two cleaners, all but one cleaner mortal, with fairness.  The system stops when the bound on claims is reached.
SPECIFICATION FairLockSpec
CONSTANTS
    h1 = h1
    h2 = h2
    c1 = c1
    c2 = c2
    Nobody = Nobody
    Holders <- TwoHolders
    Cleaners <- TwoCleaners
    Killable <- AllButOneCleaner
    MaxClaims = 4
INVARIANTS
    MutualExclusion
PROPERTIES
    StaleClaimRetired
CHECK_DEADLOCK FALSE
