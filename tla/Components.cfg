SPECIFICATION Spec
CONSTANTS
    \* packets
    Packets = {x1, x2}
    Hashes = {d1}
    Facts = {f1, f2}
    Owners = {y1, y2}
    Notes = {n1}
    recent_terminal_limit = 1
    MaxNotes = 1
    \* metadata
    Idents = {i1}
    Relations = {r1}
    Providers = {v1}
    Repos = {"a", "b"}
    NoRepo = "none"
    Names = {"workspace", "native", "foreign"}
    Ends <- MCEnds
    HostNames = {{"workspace"}, {"workspace", "native"}}
    Digests = {d1, d2}
    Trusts = {x1, x2}
    Ops = {q1, q2, q3}
    MaxRevision = 3
    \* migration
    FrontDoors = {"coding-workflow", "other"}
    MaxRuns = 4
    MaxCrashes = 2
    \* resource authorities
    Attempts = {a1}
    GPUs = {y1, y2}
    Wants = {x1, x2}
    NoOwner = noowner
    NoGpu = nogpu
    NoWant = nowant
    MaxSent = 2
    MaxRestarts = 1
    MaxSwitches = 2
SYMMETRY Symmetry
INVARIANTS PacketInv ParentsResolve MetadataInv CarriedOutAsReviewed MigrationInv AuthorityInv
PROPERTIES HistoryKept
CHECK_DEADLOCK FALSE
