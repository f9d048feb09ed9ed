-------------------------- MODULE MCAttemptEffects --------------------------
(* Instances of AttemptEffects for TLC.                                    *)
EXTENDS AttemptEffects, TLC

CONSTANTS o1, a1, s1

\* One operation of one attempt, authorized for its first source.
OneOperation == o1 :> a1
OneSource == o1 :> s1

ProcSymmetry == Permutations(Procs)
=============================================================================
