-------------------------- MODULE SessionCredentials --------------------------
(***************************************************************************)
(* The credentials of attempts and of their delegated children.  A host    *)
(* process issues a one-use identity for a child, the authority            *)
(* authenticates and records it, and the bearer is kept in one private     *)
(* file that all sessions are opened from.  The identities live in the     *)
(* memory of the host process; the file and the authority survive it.      *)
(***************************************************************************)
EXTENDS Naturals, Sequences, FiniteSets

CONSTANTS
    Callers,        \* concurrent calls of the host
    Execs,          \* child executions of one parent attempt
    NoExec,
    MaxPending,     \* _MAX_PENDING_CREDENTIALS
    MaxSubjects,    \* _MAX_BOUND_IDENTITIES
    StoreLimit,     \* entries that fit into the largest store that is read
    MaxMinted,      \* bound: child subjects generated
    MaxFaults       \* bound: failed writes, expiries and crashes

ASSUME CredentialAssumption ==
    /\ NoExec \notin Execs /\ MaxPending \in Nat /\ MaxSubjects \in Nat \ {0}
    /\ StoreLimit \in Nat /\ MaxMinted \in Nat /\ MaxFaults \in Nat

VARIABLES
    parent,    \* the parent attempt at the authority
    child,     \* execution -> its state and actor at the authority
    store,     \* the credential file: the attempt's bearer, the children's
    subjects,  \* issuer: bindings and their subjects, oldest first
    pending,   \* issuer: calls whose credential was issued and not consumed
    call,      \* call -> its control state
    minted, faults

vars == <<parent, child, store, subjects, pending, call, minted, faults>>

NoActor == 0
Idle == [pc |-> "idle", tool |-> "none", e |-> NoExec, actor |-> NoActor]

Init ==
    /\ parent = "none"
    /\ child = [e \in Execs |-> [state |-> "none", actor |-> NoActor]]
    /\ store = [attempt |-> FALSE, children |-> {}]
    /\ subjects = <<>> /\ pending = {}
    /\ call = [c \in Callers |-> Idle]
    /\ minted = 0 /\ faults = 0

Fault == faults < MaxFaults /\ faults' = faults + 1

Entries(s) == Cardinality(s.children) + (IF s.attempt THEN 1 ELSE 0)
\* _read_store refuses a file beyond its size.
Readable == Entries(store) <= StoreLimit

-----------------------------------------------------------------------------
(* The parent attempt *)

\* todo_dispatch_attempt: the authority admits the attempt (or replays the
\* dispatch), then the bearer is stored.
Dispatch(c) ==
    /\ call[c].pc = "idle" /\ parent \in {"none", "active"} /\ ~store.attempt
    /\ parent' = "active"
    /\ call' = [call EXCEPT ![c] = [Idle EXCEPT !.pc = "dispatched", !.tool = "dispatch"]]
    /\ UNCHANGED <<child, store, subjects, pending, minted, faults>>

\* store_attempt_bearer: read, append and replace under the file lock.
StoreAttemptBearer(c) ==
    /\ call[c].pc = "dispatched" /\ Readable
    /\ store' = [store EXCEPT !.attempt = TRUE]
    /\ call' = [call EXCEPT ![c] = Idle]
    /\ UNCHANGED <<parent, child, subjects, pending, minted, faults>>

\* todo_finish_attempt, with the host's session: the authority finishes the
\* attempt, then its bearer is forgotten.  No bearer of a child is.
Finish(c) ==
    /\ call[c].pc = "idle" /\ parent \in {"active", "finished"} /\ Readable
    /\ parent' = "finished"
    /\ call' = [call EXCEPT ![c] = [Idle EXCEPT !.pc = "finished", !.tool = "finish"]]
    /\ UNCHANGED <<child, store, subjects, pending, minted, faults>>

ForgetAttemptBearer(c) ==
    /\ call[c].pc = "finished" /\ Readable
    /\ store' = [store EXCEPT !.attempt = FALSE]
    /\ call' = [call EXCEPT ![c] = Idle]
    /\ UNCHANGED <<parent, child, subjects, pending, minted, faults>>

-----------------------------------------------------------------------------
(* Starting a child *)

\* Child operations run in the parent's attempt session.
SessionOpens == Readable /\ store.attempt /\ parent = "active"

Bound(e) == \E i \in 1..Len(subjects) : subjects[i].e = e
SubjectOf(e) == subjects[CHOOSE i \in 1..Len(subjects) : subjects[i].e = e].actor

\* A table that is full loses its oldest binding.
Room(seq) == IF Len(seq) >= MaxSubjects /\ seq # <<>> THEN Tail(seq) ELSE seq

(* Mutant: a retried request gets a new subject. *)
SubjectFresh(e) ==
    /\ minted < MaxMinted /\ minted' = minted + 1
    /\ subjects' = Append(Room(SelectSeq(subjects, LAMBDA s : s.e # e)), [e |-> e, actor |-> minted + 1])

(* Mutant: the subject is retained for the host, not for the binding. *)
SubjectShared(e) ==
    IF subjects # <<>> THEN subjects' = Append(Room(subjects), [e |-> e, actor |-> Head(subjects).actor])
                            /\ UNCHANGED minted
    ELSE minted < MaxMinted /\ minted' = minted + 1 /\ subjects' = <<[e |-> e, actor |-> minted + 1]>>

\* issue: a request that was seen keeps its subject, a new one gets a random
\* subject and, when the table is full, evicts the oldest.
Subject(e) ==
    IF Bound(e) THEN UNCHANGED <<subjects, minted>>
    ELSE /\ minted < MaxMinted /\ minted' = minted + 1
         /\ subjects' = Append(Room(subjects), [e |-> e, actor |-> minted + 1])

\* issue: the credential of this call is pending until it is consumed.
Issue(c, e) ==
    /\ call[c].pc = "idle" /\ SessionOpens
    /\ Cardinality(pending) < MaxPending
    /\ Subject(e)
    /\ pending' = pending \cup {c}
    /\ call' = [call EXCEPT ![c] = [pc |-> "issued", tool |-> "start", e |-> e,
                                    actor |-> subjects'[CHOOSE i \in 1..Len(subjects') :
                                                            subjects'[i].e = e].actor]]
    /\ UNCHANGED <<parent, child, store, faults>>

\* session.start_child: the authority consumes the credential and starts the
\* child, replays the start for the same actor or refuses another one.
Authenticate(c) ==
    /\ call[c].pc = "issued"
    /\ pending' = pending \ {c}
    /\ LET e == call[c].e  ok == c \in pending /\ child[e].actor \in {NoActor, call[c].actor}
       IN  /\ child' = IF ok THEN [child EXCEPT ![e] = [state |-> "active", actor |-> call[c].actor]]
                       ELSE child
           /\ call' = [call EXCEPT ![c] = IF ok THEN [@ EXCEPT !.pc = "granted"] ELSE Idle]
    /\ UNCHANGED <<parent, store, subjects, minted, faults>>

\* store_child_bearer.
StoreChildBearer(c) ==
    /\ call[c].pc = "granted" /\ Readable
    /\ store' = [store EXCEPT !.children = @ \cup {<<call[c].e, call[c].actor>>}]
    /\ call' = [call EXCEPT ![c] = Idle]
    /\ UNCHANGED <<parent, child, subjects, pending, minted, faults>>

-----------------------------------------------------------------------------
(* The other operations on a child *)

ChildTools == {"read", "submit", "review", "cancel", "reconcile"}

\* Every other child tool names execution_id, which the branch of start_child
\* has made a local variable of the handler: it is unbound there, the handler
\* raises and the host answers native_operation_rejected.
ChildOperation(c, e, tool) ==
    /\ call[c].pc = "idle" /\ SessionOpens /\ child[e].state = "active"
    /\ call' = [call EXCEPT ![c] = [pc |-> "rejected", tool |-> tool, e |-> e, actor |-> NoActor]]
    /\ UNCHANGED <<parent, child, store, subjects, pending, minted, faults>>

Answer(c) ==
    /\ call[c].pc = "rejected"
    /\ call' = [call EXCEPT ![c] = Idle]
    /\ UNCHANGED <<parent, child, store, subjects, pending, minted, faults>>

-----------------------------------------------------------------------------
(* Faults *)

\* A credential file that cannot be written or read fails the call: after a
\* dispatch or a start the authority keeps what it committed.
StoreFails(c) ==
    /\ call[c].pc \in {"dispatched", "granted", "finished"}
    /\ IF Readable THEN Fault ELSE UNCHANGED faults
    /\ call' = [call EXCEPT ![c] = Idle]
    /\ UNCHANGED <<parent, child, store, subjects, pending, minted>>

\* A pending credential is not used within its sixty seconds.
CredentialExpires(c) ==
    /\ c \in pending /\ Fault
    /\ pending' = pending \ {c}
    /\ UNCHANGED <<parent, child, store, subjects, call, minted>>

\* The host process ends: calls and issuer are lost.
Crash ==
    /\ Fault
    /\ call' = [c \in Callers |-> Idle] /\ pending' = {} /\ subjects' = <<>>
    /\ UNCHANGED <<parent, child, store, minted>>

Next ==
    \/ \E c \in Callers :
          \/ Dispatch(c) \/ StoreAttemptBearer(c) \/ Finish(c) \/ ForgetAttemptBearer(c)
          \/ Authenticate(c) \/ StoreChildBearer(c) \/ Answer(c)
          \/ StoreFails(c) \/ CredentialExpires(c)
          \/ \E e \in Execs : Issue(c, e) \/ \E tool \in ChildTools : ChildOperation(c, e, tool)
    \/ Crash

Spec == Init /\ [][Next]_vars

\* Calls go on, and a client repeats a start that failed.
Fairness ==
    /\ \A c \in Callers :
          /\ WF_vars(Dispatch(c) \/ StoreAttemptBearer(c) \/ Authenticate(c) \/ Answer(c))
          /\ WF_vars(StoreChildBearer(c))
          /\ \A e \in Execs : SF_vars(Issue(c, e))

FairSpec == Spec /\ Fairness

-----------------------------------------------------------------------------
(* Properties *)

\* Types: the authority, the store and the issuer.
TypeOK ==
    /\ parent \in {"none", "active", "finished"}
    /\ child \in [Execs -> [state : {"none", "active"}, actor : 0..MaxMinted]]
    /\ store \in [attempt : BOOLEAN, children : SUBSET (Execs \X (1..MaxMinted))]
    /\ subjects \in Seq([e : Execs, actor : 1..MaxMinted]) /\ Len(subjects) <= MaxSubjects
    /\ pending \subseteq Callers
    /\ call \in [Callers -> [pc : {"idle", "dispatched", "finished", "issued", "granted", "rejected"},
                             tool : {"none", "dispatch", "finish", "start"} \cup ChildTools,
                             e : Execs \cup {NoExec}, actor : 0..MaxMinted]]
    /\ minted \in 0..MaxMinted /\ faults \in 0..MaxFaults

\* A child actor is bound to one execution: no two executions share one, and
\* a bearer that is kept belongs to the actor that the authority recorded,
\* after any crashes, expiries and repeated starts.
ActorPerExecution ==
    /\ \A e1, e2 \in Execs : child[e1].actor = child[e2].actor /\ child[e1].actor # NoActor => e1 = e2
    /\ \A b \in store.children : child[b[1]].actor = b[2]

\* Tables within their limits, and actors bound to one execution.
CredentialInv == TypeOK /\ ActorPerExecution

\* Who is said to act for which execution: at the issuer, in a start under
\* way, at the authority and in the file.
Claims ==
    {<<subjects[i].e, subjects[i].actor>> : i \in 1..Len(subjects)}
    \cup {<<call[c].e, call[c].actor>> : c \in {x \in Callers : call[x].pc \in {"issued", "granted"}}}
    \cup {<<e, child[e].actor>> : e \in {x \in Execs : child[x].actor # NoActor}}
    \cup store.children

\* Everyone agrees on the execution of an actor, and actors were minted.
ClaimsAgree == \A x, y \in Claims : x[2] \in 1..minted /\ (x[2] = y[2] => x[1] = y[1])

\* A start that was granted, and a bearer, name the recorded actor.
GrantsRecorded ==
    /\ \A c \in Callers : call[c].pc \in {"issued", "granted"} => call[c].e \in Execs
    /\ \A c \in Callers : call[c].pc = "granted" => child[call[c].e].actor = call[c].actor
    /\ \A b \in store.children : child[b[1]].actor = b[2]

\* The inductive invariant.
IInv == TypeOK /\ ClaimsAgree /\ GrantsRecorded

\* The issuer knows the subject that the authority recorded.
Remembered(e) == Bound(e) /\ SubjectOf(e) = child[e].actor

\* A child that was started gets its bearer kept, although writes fail and
\* credentials expire in between: the repeated start is an exact replay until
\* the parent finishes or the issuer has forgotten the execution.
StartCompletes ==
    \A e \in Execs :
       (child[e].state = "active" /\ Remembered(e))
          ~> (~Bound(e) \/ parent # "active" \/ \E a \in 1..MaxMinted : <<e, a>> \in store.children)

-----------------------------------------------------------------------------
(* What the tools promise and the code does not do: both are violated.     *)

\* Children can be coordinated: no call on an active child of the caller's
\* attempt is rejected.
ChildIsCoordinated ==
    \A c \in Callers : call[c].pc = "rejected" => child[call[c].e].state # "active"

\* A store that the host wrote can be read again: sessions can be opened.
StoreStaysReadable == Readable
=============================================================================
