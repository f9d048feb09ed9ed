SPECIFICATION FairSpec
CONSTANTS
    c1 = c1
    c2 = c2
    h1 = h1
    h2 = h2
    NoProcess = NoProcess
    Callers = {c1}
    Hosts = {h1}
    HostOf <- OneCaller
    Operations = {}
    FinishActions = {"complete", "handoff", "release"}
    MaxHandles = 1
    MaxGeneration = 1
    MaxOther = 1
    MaxLost = 1
    MaxCrashes = 1
INVARIANTS CompactInv ReplayIsExact FinishReadsNewestLease
PROPERTIES RecordForward FinishEnds
CHECK_DEADLOCK FALSE
