SPECIFICATION FairSpec
CONSTANTS
    Callers = {c1, c2}
    Execs = {e1, e2}
    NoExec = none
    MaxPending = 2
    MaxSubjects = 1
    StoreLimit = 9
    MaxMinted = 4
    MaxFaults = 2
INVARIANTS CredentialInv
PROPERTIES StartCompletes
CHECK_DEADLOCK FALSE
