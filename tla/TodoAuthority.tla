---------------------------- MODULE TodoAuthority ----------------------------
(***************************************************************************)
(* The native Todo authority, as the compact workflow uses it (external:   *)
(* it is not part of this repository).  Every mutation carries an          *)
(* idempotency key and an expected revision; the authority keeps one       *)
(* semantic revision, the log of committed requests and, for each workflow *)
(* handle, the state and the lease of its attempt.  An exact repetition of *)
(* a committed request is answered from the log, a request with an old     *)
(* revision is refused before anything is committed.                       *)
(***************************************************************************)
EXTENDS Naturals, FiniteSets

\* The kinds of a workflow's phases.  A phase name is a pair of a kind and
\* a number (the generation of a lease renewal, the identity of a
\* coordinate operation, zero otherwise).
LeaseKinds  == {"heartbeat", "resume"}
FinishKinds == {"finish:handback", "finish:report", "finish:release"}
Kinds == {"create_workspace", "dispatch_attempt", "coordinate", "recover", "verify"}
           \cup LeaseKinds \cup FinishKinds

AttemptStates == {"none", "workspace", "running", "handed_back", "closed"}

NewAuthority(handles) ==
    [revision |-> 0, log |-> {},
     attempt |-> [h \in handles |-> [state |-> "none", lease |-> 0]]]

\* The identity of a request: the handle and the phase it is for, the
\* arguments when the key digests them, and the retry generation.
Key(h, name, i) ==
    [handle |-> h, name |-> name, generation |-> i.generation,
     arg |-> IF name[1] \in {"finish:handback", "finish:release"} THEN 0 ELSE i.arg]

Known(a, h, name, i) == {e \in a.log : e.key = Key(h, name, i)}

\* What the attempt must be for the mutation to make sense.
Permitted(t, kind, arg) ==
    CASE kind = "create_workspace"              -> t.state = "none"
      [] kind = "dispatch_attempt"              -> t.state = "workspace"
      [] kind \in LeaseKinds                    -> t.state = "running" /\ t.lease = arg
      [] kind \in {"coordinate", "verify"}      -> t.state = "running"
      [] kind = "recover"                       -> t.state \in {"running", "handed_back"}
      [] kind = "finish:handback"               -> t.state = "running" /\ t.lease = arg
      [] kind = "finish:report"                 -> t.state = "handed_back"
      [] kind = "finish:release"                -> t.state = "handed_back" /\ t.lease = arg

\* The attempt after the mutation: a dispatch and every renewal issue a new
\* lease, a handback ends the writing, a report, a release or a recovery
\* ends the attempt.
Effect(t, kind) ==
    CASE kind = "create_workspace"  -> [t EXCEPT !.state = "workspace"]
      [] kind = "dispatch_attempt"  -> [state |-> "running", lease |-> 1]
      [] kind \in LeaseKinds        -> [t EXCEPT !.lease = @ + 1]
      [] kind = "finish:handback"   -> [t EXCEPT !.state = "handed_back"]
      [] kind \in {"finish:report", "finish:release", "recover"} -> [t EXCEPT !.state = "closed"]
      [] kind \in {"coordinate", "verify"} -> t

\* The authority's answer to request i of phase name.
Verdict(a, h, name, i) ==
    IF Known(a, h, name, i) # {}
    THEN IF \E e \in Known(a, h, name, i) : e.revision = i.revision /\ e.arg = i.arg
         THEN "replayed" ELSE "rejected"
    ELSE IF i.revision # a.revision THEN "stale"
    ELSE IF Permitted(a.attempt[h], name[1], i.arg) THEN "committed" ELSE "rejected"

\* The lease a committed request is answered with.
AnsweredLease(a, h, name, i) ==
    IF Known(a, h, name, i) # {}
    THEN (CHOOSE e \in Known(a, h, name, i) : TRUE).lease
    ELSE Effect(a.attempt[h], name[1]).lease

\* The authority after committing request i.
Commit(a, h, name, i) ==
    [a EXCEPT !.revision = @ + 1,
              !.attempt[h] = Effect(@, name[1]),
              !.log = @ \cup {[key |-> Key(h, name, i), revision |-> i.revision, arg |-> i.arg,
                               lease |-> Effect(a.attempt[h], name[1]).lease]}]
=============================================================================
