-------------------------- MODULE MCHostResources --------------------------
(* Small instances of HostResources for TLC. *)
EXTENDS HostResources, TLC

CONSTANTS d1, d2, n1    \* two devices on one NVLink domain

AnyOne  == [ids |-> {}, count |-> 1, exclusive |-> {}, isolate |-> FALSE,
            cpu_threads |-> 1, cpu_heavy |-> FALSE]
Both    == [AnyOne EXCEPT !.count = 2]
First   == [AnyOne EXCEPT !.count = 0, !.ids = {d1}]
Fabric  == [AnyOne EXCEPT !.isolate = TRUE]
HeavyCpu == [AnyOne EXCEPT !.count = 0, !.cpu_threads = 0, !.cpu_heavy = TRUE]

OneDomain == [d \in Device |-> {n1}]
NoDomain  == [d \in Device |-> {}]

ContentionRequests == {AnyOne, Both, Fabric, HeavyCpu}
ResidencyRequests  == {AnyOne}
ForegroundRequests == {First}

ProcSymmetry == Permutations(Proc)
ContentionSymmetry == Permutations(Background) \cup Permutations(Device)
=============================================================================
