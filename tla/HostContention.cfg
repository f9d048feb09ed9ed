CONSTANTS
    d1 = d1
    d2 = d2
    n1 = n1
    Device = {d1, d2}
    Domain = {n1}
    DomainsOf <- OneDomain
    Background = {b1, b2}
    Service = {}
    Foreground = {f1}
    Core4 = {}
    Proc = {p1}
    NoProc = NoProc
    Request <- ContentionRequests
    CallerClass = {"foreground_gpu"}
    CpuLimit = 2
    StaleAge = 1
SYMMETRY ContentionSymmetry
SPECIFICATION Spec
INVARIANT Exclusive RowsHaveLiveOwners BackgroundWithinLimit
PROPERTY IntentFence PreemptionStands
