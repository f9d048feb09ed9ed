---------------------------- MODULE EffectFence ----------------------------
(***************************************************************************)
(* What Project Control promises about the authored commands of an         *)
(* attempt, with journals, locks, supervisors and crashes forgotten: a     *)
(* command runs at most once, an attempt is fenced only while none of its  *)
(* commands runs, and behind the fence none ever starts again.             *)
(***************************************************************************)
CONSTANTS
    Ops,           \* operation identities of authored commands
    Attempts,      \* the attempts they are authored for
    attempt_of     \* the attempt of each operation

VARIABLES
    running,       \* operations whose process tree is alive
    spent,         \* operations whose command has been started
    fenced         \* attempts attested complete or handed off

vars == <<running, spent, fenced>>

Of(a) == {op \in Ops : attempt_of[op] = a}

Init ==
    /\ running = {}
    /\ spent = {}
    /\ fenced = {}

Start(op) ==
    /\ op \notin spent
    /\ attempt_of[op] \notin fenced
    /\ spent' = spent \cup {op}
    /\ running' = running \cup {op}
    /\ UNCHANGED fenced

Stop(op) ==
    /\ op \in running
    /\ running' = running \ {op}
    /\ UNCHANGED <<spent, fenced>>

Fence(a) ==
    /\ Of(a) \cap running = {}
    /\ fenced' = fenced \cup {a}
    /\ UNCHANGED <<running, spent>>

Next ==
    \/ \E op \in Ops : Start(op) \/ Stop(op)
    \/ \E a \in Attempts : Fence(a)

Spec == Init /\ [][Next]_vars

=============================================================================
