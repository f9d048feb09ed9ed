--------------------------- MODULE MCObserverJobs ---------------------------
(* An instance of ObserverJobs: a root job and the child it delegates to. *)
EXTENDS ObserverJobs, TLC

CONSTANTS r1, c1

Family == (r1 :> NoJob) @@ (c1 :> r1)
=============================================================================
