--------------------------- MODULE MCHostPolling ---------------------------
(* Behaviours of HostResources in which a background owner may crash while *)
(* a service of higher priority polls reserve_service for its device.      *)
EXTENDS MCHostResources

PollingNext ==
    \/ Tick
    \/ \E p \in Proc : Die(p)
    \/ sweep_stale
    \/ \E o \in Background, p \in Proc, req \in Request : reserve_background(o, p, req)
    \/ \E o \in Service, p \in Proc, req \in Request, cls \in CallerClass :
          reserve_service(o, p, req, cls)

PollingSpec ==
    /\ Init /\ [][PollingNext]_vars
    /\ WF_vars(Tick)
    /\ WF_vars(sweep_stale)
=============================================================================
