---------------------------- MODULE ResourceLeases ----------------------------
(***************************************************************************)
(* What the host resource coordinator promises: exclusive, all-or-nothing  *)
(* leases of sets of resources.  In one step any number of owners may lose *)
(* their leases and one owner may then acquire a set of free resources,    *)
(* but a pinned owner loses nothing until it is unpinned, which gives its  *)
(* whole lease back.                                                       *)
(***************************************************************************)
CONSTANTS Owner, Resource

VARIABLES
    held,      \* resources leased to each owner
    pinned     \* owners whose lease cannot be taken away

Init ==
    /\ held = [o \in Owner |-> {}]
    /\ pinned = {}

Remaining(R) == [o \in Owner |-> IF o \in R THEN {} ELSE held[o]]

Lose(R) ==
    /\ R \cap pinned = {}
    /\ held' = Remaining(R)
    /\ UNCHANGED pinned

Acquire(R, o, S) ==
    /\ R \cap pinned = {}
    /\ Remaining(R)[o] = {}
    /\ \A x \in Owner : Remaining(R)[x] \cap S = {}
    /\ held' = [Remaining(R) EXCEPT ![o] = S]
    /\ UNCHANGED pinned

Pin(o) ==
    /\ held[o] # {}
    /\ pinned' = pinned \cup {o}
    /\ UNCHANGED held

Unpin(o) ==
    /\ o \in pinned
    /\ pinned' = pinned \ {o}
    /\ held' = [held EXCEPT ![o] = {}]

Next ==
    \/ \E R \in SUBSET Owner : Lose(R)
    \/ \E R \in SUBSET Owner, o \in Owner, S \in SUBSET Resource : Acquire(R, o, S)
    \/ \E o \in Owner : Pin(o) \/ Unpin(o)

Spec == Init /\ [][Next]_<<held, pinned>>
=============================================================================
