CONSTANTS
    d1 = d1
    d2 = d2
    n1 = n1
    Device = {d1}
    Domain = {}
    DomainsOf <- NoDomain
    Background = {b1}
    Service = {s1}
    Foreground = {}
    Core4 = {s1}
    Proc = {p1, p2, p3}
    NoProc = NoProc
    Request <- ResidencyRequests
    CallerClass = {"idle_model_residency", "active_local_delegation"}
    CpuLimit = 2
    StaleAge = 1
SYMMETRY ProcSymmetry
SPECIFICATION Spec
INVARIANT TypeOK ModelKeepsDevices
PROPERTY ImplementsLeases
