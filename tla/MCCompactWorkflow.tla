-------------------------- MODULE MCCompactWorkflow --------------------------
(* Instances of CompactWorkflow: which host serves which caller.  The runs have *)
(* one caller; two callers show the divergences the README lists.           *)
EXTENDS CompactWorkflow, TLC

CONSTANTS c1, c2, h1, h2

OneHost   == (c1 :> h1) @@ (c2 :> h1)
TwoHosts  == (c1 :> h1) @@ (c2 :> h2)
OneCaller == c1 :> h1
=============================================================================
