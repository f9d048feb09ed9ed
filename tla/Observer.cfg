SPECIFICATION FairSpec
CONSTANTS
    r1 = r1
    c1 = c1
    NoJob = none
    Dead = dead
    Workers = {w1, w2}
    Jobs = {r1, c1}
    Parent <- Family
    Capacity = 2
    TurnLimit = 4
    MaxFailures = 2
    MaxAttempts = 2
    MaxFaults = 1
INVARIANTS SlotInv ParentReleasedFirst TurnBudget StoppedIsReleased
PROPERTIES JobsEnd
CHECK_DEADLOCK FALSE
