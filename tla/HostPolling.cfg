CONSTANTS
    d1 = d1
    d2 = d2
    n1 = n1
    Device = {d1}
    Domain = {}
    DomainsOf <- NoDomain
    Background = {b1}
    Service = {s1}
    Foreground = {}
    Core4 = {}
    Proc = {p1, p2}
    NoProc = NoProc
    Request <- ForegroundRequests
    CallerClass = {"active_local_delegation"}
    CpuLimit = 2
    StaleAge = 2
SPECIFICATION PollingSpec
PROPERTY DeadOwnersSwept
