SPECIFICATION Spec
CONSTANTS
    fork = fork
    plain = plain
    Calls <- Pair
    Forks <- Forked
    MaxWrites = 2
    MaxSession = 2
    MaxFaults = 2
CHECK_DEADLOCK FALSE
INVARIANTS
    ReceiptProves
    PassIsProof
    NoFalseAlarm
