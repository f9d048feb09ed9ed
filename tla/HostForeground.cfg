CONSTANTS
    d1 = d1
    d2 = d2
    n1 = n1
    Device = {d1}
    Domain = {}
    DomainsOf <- NoDomain
    Background = {b1, b2}
    Service = {}
    Foreground = {f1}
    Core4 = {}
    Proc = {p1, p2}
    NoProc = NoProc
    Request <- ForegroundRequests
    CallerClass = {"foreground_gpu"}
    CpuLimit = 2
    StaleAge = 2
SPECIFICATION FairSpec
PROPERTY ForegroundServed
