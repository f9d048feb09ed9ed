SPECIFICATION Spec
CONSTANTS
    o1 = o1  a1 = a1  s1 = s1
    None = None
    Procs = {p1, p2}
    Ops = {o1}
    Attempts = {a1}
    Sources = {s1, s2}
    Leases = {l1}
    attempt_of <- OneOperation
    expected <- OneSource
SYMMETRY ProcSymmetry
INVARIANTS TypeOK AtMostOnce JournalIsTrue FenceHolds MarkerIsPinned
PROPERTIES ImplementsFence FenceIsFinal
