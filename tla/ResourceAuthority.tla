-------------------------- MODULE ResourceAuthority --------------------------
(***************************************************************************)
(* The two authorities for physical resources: the local coordinator and   *)
(* the Device Scheduler, selected by one private file.  An owner (a        *)
(* background attempt and the process that runs it) opens a facade for the *)
(* authority selected at that moment; an operator switches the selector    *)
(* after checking that nothing is held.  The scheduler is external: a      *)
(* request may be lost, or handled long after the client gave it up, and   *)
(* is repeated under an idempotency key of the owner and what it wants.    *)
(***************************************************************************)
EXTENDS Naturals, FiniteSets

CONSTANTS
    Attempts,     \* background owners: one per project, job and attempt
    GPUs,
    Wants,        \* the resource requests that an attempt may make
    NoOwner, NoGpu, NoWant,
    MaxSent,      \* bound: requests on their way to the scheduler
    MaxRestarts,  \* bound: restarts of an owner's process
    MaxSwitches   \* bound: switches of the authority

AuthorityAssumption ==
    /\ NoOwner \notin Attempts /\ NoGpu \notin GPUs /\ NoWant \notin Wants
    /\ MaxRestarts \in Nat /\ MaxSwitches \in Nat /\ MaxSent \in Nat

VARIABLES
    selector,  \* resource-authority.json: "local" or "scheduler"
    switches,
    operator,  \* control state of the operator's select command
    local,     \* GPU -> the owner in the local registry and its process
    sent,      \* requests that the scheduler has not handled
    lease,     \* owner -> what it wants -> the lease in the scheduler's ledger
    proc       \* owner -> its process

vars == <<selector, switches, operator, local, sent, lease, proc>>

Free     == [owner |-> NoOwner, gen |-> 0]
NoLease  == [state |-> "none", gpu |-> NoGpu, gen |-> 0]
Starting == [pc |-> "start", gen |-> 0, want |-> NoWant, gpu |-> NoGpu, answer |-> NoLease, listed |-> {}]
LeaseStates == {"none", "active", "expired", "reclaiming", "released"}
Requests == [owner : Attempts, want : Wants, gpu : GPUs, gen : 0..MaxRestarts]

Init ==
    /\ selector = "local" /\ switches = 0 /\ operator = "idle"
    /\ local = [g \in GPUs |-> Free] /\ sent = {}
    /\ lease = [o \in Attempts |-> [k \in Wants |-> NoLease]]
    /\ proc = [o \in Attempts |-> Starting]

\* The process of o is at pc, and has forgotten the call it was in.
Step(o, pc) == proc' = [proc EXCEPT ![o] = [Starting EXCEPT !.pc = pc, !.gen = proc[o].gen]]

\* host_resource_facade: the authority is read once per process.
Construct(o) ==
    /\ proc[o].pc = "start"
    /\ Step(o, IF selector = "local" THEN "local" ELSE "scheduler")
    /\ UNCHANGED <<selector, switches, operator, local, sent, lease>>

-----------------------------------------------------------------------------
(* The local coordinator *)

\* connect: _assert_local_resource_authority, then the database is opened.
\* Under the scheduler's authority the call raises.
Connect(o, g) ==
    /\ proc[o].pc = "local" /\ selector = "local"
    /\ proc' = [proc EXCEPT ![o].pc = "connected", ![o].gpu = g]
    /\ UNCHANGED <<selector, switches, operator, local, sent, lease>>

\* The rows of a dead process are swept by the next transaction.
Vacant(g) == local[g] # Free => local[g].gen # proc[local[g].owner].gen

\* reserve_background: one transaction on the connection opened before.  It
\* may always be refused, as owners of other kinds use the registry too.
ReserveLocal(o) ==
    /\ proc[o].pc = "connected"
    /\ \/ /\ Vacant(proc[o].gpu)
          /\ local' = [local EXCEPT ![proc[o].gpu] = [owner |-> o, gen |-> proc[o].gen]]
          /\ proc' = [proc EXCEPT ![o].pc = "holds_local"]
       \/ Step(o, "local") /\ UNCHANGED local
    /\ UNCHANGED <<selector, switches, operator, sent, lease>>

\* release: connects again, so it raises once the scheduler is selected.
ReleaseLocal(o) ==
    /\ proc[o].pc = "holds_local" /\ selector = "local"
    /\ local' = [local EXCEPT ![proc[o].gpu] = Free]
    /\ Step(o, "local")
    /\ UNCHANGED <<selector, switches, operator, sent, lease>>

-----------------------------------------------------------------------------
(* The Device Scheduler's ledger and the client *)

\* A lease in one of _ACTIVE_LEASE_STATES.  Its states release_requested and
\* unknown are like reclaiming.
Held(o, k) == lease[o][k].state \in {"active", "expired", "reclaiming"}
ActiveKeys(o) == {k \in Wants : Held(o, k)}
Granted(g) == \E o \in Attempts : \E k \in ActiveKeys(o) : lease[o][k].gpu = g

\* _request: the owner asks for the GPU g that _requirements chose from the
\* inventory; the key stands for the owner and what it wants.
RequestOf(o, k, g) == [owner |-> o, want |-> k, gpu |-> g, gen |-> proc[o].gen]
SendRequest(o, k, g) ==
    /\ proc[o].pc \in {"scheduler", "freed"}
    /\ sent' = sent \cup {RequestOf(o, k, g)} /\ Cardinality(sent') <= MaxSent
    /\ proc' = [proc EXCEPT ![o] = [Starting EXCEPT !.pc = "asked", !.gen = proc[o].gen, !.want = k,
                                                    !.gpu = g]]
    /\ UNCHANGED <<selector, switches, operator, local, lease>>

\* The answer to a request reaches the process that still waits for it.
Waiting(r) == proc[r.owner].pc = "asked" /\ r = RequestOf(r.owner, proc[r.owner].want, proc[r.owner].gpu)
Answer(r, l) ==
    IF Waiting(r) THEN proc' = [proc EXCEPT ![r.owner].pc = "answered", ![r.owner].answer = l]
    ELSE UNCHANGED proc
Refuse(r) == IF Waiting(r) THEN Step(r.owner, "scheduler") ELSE UNCHANGED proc

\* leases.request at the scheduler: a new key is granted on a free GPU or
\* refused, as the scheduler has other users; a key it knows is answered with
\* the lease it stands for or, as the request may differ, with
\* idempotency_conflict.
HandleRequest(r) ==
    LET known == lease[r.owner][r.want]
    IN  /\ r \in sent /\ sent' = sent \ {r}
        /\ \/ known = NoLease /\ \E g \in GPUs :
                  LET l == [state |-> "active", gpu |-> g, gen |-> r.gen]
                  IN  ~Granted(g) /\ lease' = [lease EXCEPT ![r.owner][r.want] = l] /\ Answer(r, l)
           \/ known # NoLease /\ Answer(r, known) /\ UNCHANGED lease
           \/ Refuse(r) /\ UNCHANGED lease
        /\ UNCHANGED <<selector, switches, operator, local>>

\* A request never arrives.
LoseRequest(r) ==
    /\ r \in sent /\ sent' = sent \ {r}
    /\ UNCHANGED <<selector, switches, operator, local, lease, proc>>

\* The client gives up, the answer being late or lost.  The request, if it is
\* still on its way, is handled later.
Timeout(o) ==
    /\ proc[o].pc \in {"asked", "answered"}
    /\ Step(o, "scheduler")
    /\ UNCHANGED <<selector, switches, operator, local, sent, lease>>

\* A grant that is not active is none; one whose allocation or owner context
\* differs from the request's is rejected; any other is the reservation.
Verdict(o) ==
    IF proc[o].answer.state # "active" THEN "scheduler"
    ELSE IF proc[o].answer.gpu # proc[o].gpu \/ proc[o].answer.gen # proc[o].gen THEN "reject"
    ELSE "holds_lease"

\* reserve_background returns what the lease allocates.
Receive(o) ==
    /\ proc[o].pc = "answered"
    /\ IF Verdict(o) = "scheduler" THEN Step(o, "scheduler")
       ELSE proc' = [proc EXCEPT ![o].pc = Verdict(o), ![o].gpu = proc[o].answer.gpu]
    /\ UNCHANGED <<selector, switches, operator, local, sent, lease>>

\* A lease keeps what it allocates and enters the state s.
Becomes(o, k, s) == lease' = [lease EXCEPT ![o][k].state = s]

\* leases.release at the scheduler: the GPU is free only after its
\* reclamation is verified.
ReleaseAnswers(o, k) ==
    IF lease[o][k].state = "released" THEN {"released"} ELSE {"released", "reclaiming"}
Released(o, k, s) == s \in ReleaseAnswers(o, k) /\ Becomes(o, k, s)

\* _reject_grant: the lease is given back and the call raises; the call of the
\* scheduler may fail too.
RejectGrant(o) ==
    /\ proc[o].pc = "reject"
    /\ UNCHANGED lease \/ \E s \in LeaseStates : Released(o, proc[o].want, s)
    /\ Step(o, "scheduler")
    /\ UNCHANGED <<selector, switches, operator, local, sent>>

(* Mutant: any of the owner's active leases is taken for the current one. *)
SoleAny(o) == ActiveKeys(o)

\* _current_lease: the active lease, unless there are several.
Sole(o) == {k \in Wants : ActiveKeys(o) = {k}}

\* heartbeat: raises unless the one active lease is still active.
HeartbeatFails(o) ==
    /\ proc[o].pc = "holds_lease" /\ \A k \in Sole(o) : lease[o][k].state # "active"
    /\ Step(o, "scheduler")
    /\ UNCHANGED <<selector, switches, operator, local, sent, lease>>

\* release, first part: the owner's leases are listed.  None is active and
\* the call returns, one is and is to be released, or there are several and
\* the call raises.
Listing(o) == [Starting EXCEPT !.gen = proc[o].gen, !.listed = {k \in Wants : lease[o][k] # NoLease}]
ListLeases(o) ==
    /\ proc[o].pc \in {"holds_lease", "scheduler", "freed"}
    /\ \/ /\ ActiveKeys(o) = {}
          /\ proc' = [proc EXCEPT ![o] = [Listing(o) EXCEPT !.pc = "freed"]]
       \/ \E k \in Sole(o) :
             proc' = [proc EXCEPT ![o] = [Listing(o) EXCEPT !.pc = "releasing", !.want = k]]
       \/ ActiveKeys(o) # {} /\ Sole(o) = {} /\ Step(o, "scheduler")
    /\ UNCHANGED <<selector, switches, operator, local, sent, lease>>

\* release, second part: it returns only when the scheduler says released; a
\* pending reclamation and a lost answer raise, and the caller may call again.
ReleaseLease(o) ==
    /\ proc[o].pc = "releasing"
    /\ \/ /\ Released(o, proc[o].want, "released")
          /\ proc' = [proc EXCEPT ![o].pc = "freed", ![o].want = NoWant]
       \/ \E s \in LeaseStates : Released(o, proc[o].want, s) /\ Step(o, "scheduler")
       \/ UNCHANGED lease /\ Step(o, "scheduler")
    /\ UNCHANGED <<selector, switches, operator, local, sent>>

\* The scheduler's own steps: a lease not renewed in time expires, and an
\* allocation is reclaimed.
Expire(o, k) ==
    /\ lease[o][k].state = "active"
    /\ Becomes(o, k, "expired")
    /\ UNCHANGED <<selector, switches, operator, local, sent, proc>>
Reclaim(o, k) ==
    /\ lease[o][k].state \in {"expired", "reclaiming"}
    /\ Becomes(o, k, "released")
    /\ UNCHANGED <<selector, switches, operator, local, sent, proc>>

\* The process of an owner ends and the attempt is run by another one.
Restart(o) ==
    /\ proc[o].gen < MaxRestarts
    /\ proc' = [proc EXCEPT ![o] = [Starting EXCEPT !.gen = proc[o].gen + 1]]
    /\ UNCHANGED <<selector, switches, operator, local, sent, lease>>

-----------------------------------------------------------------------------
(* The operator's command *)

\* select-scheduler under the local authority: the local registry is empty.
\* (A retired one is a directory that no connection can be opened to; it has
\* no rows either.)
CheckLocalEmpty ==
    /\ operator = "idle" /\ selector = "local" /\ switches < MaxSwitches
    /\ \A g \in GPUs : local[g] = Free
    /\ operator' = "to_scheduler"
    /\ UNCHANGED <<selector, switches, local, sent, lease, proc>>

\* select-local under the scheduler's authority: every lease is released.
CheckNoLeases ==
    /\ operator = "idle" /\ selector = "scheduler" /\ switches < MaxSwitches
    /\ \A o \in Attempts : ActiveKeys(o) = {}
    /\ operator' = "to_local"
    /\ UNCHANGED <<selector, switches, local, sent, lease, proc>>

\* write_resource_authority.
WriteSelector ==
    /\ operator # "idle"
    /\ selector' = IF operator = "to_scheduler" THEN "scheduler" ELSE "local"
    /\ operator' = "idle" /\ switches' = switches + 1
    /\ UNCHANGED <<local, sent, lease, proc>>

Next ==
    \/ \E o \in Attempts, g \in GPUs : Connect(o, g) \/ \E k \in Wants : SendRequest(o, k, g)
    \/ \E r \in sent : HandleRequest(r) \/ LoseRequest(r)
    \/ \E o \in Attempts :
          \/ Construct(o) \/ ReserveLocal(o) \/ ReleaseLocal(o)
          \/ Timeout(o) \/ Receive(o) \/ RejectGrant(o)
          \/ HeartbeatFails(o) \/ ListLeases(o) \/ ReleaseLease(o) \/ Restart(o)
          \/ \E k \in Wants : Expire(o, k) \/ Reclaim(o, k)
    \/ CheckLocalEmpty \/ CheckNoLeases \/ WriteSelector

Spec == Init /\ [][Next]_vars

-----------------------------------------------------------------------------
(* Properties *)

LeaseType == [state : LeaseStates, gpu : GPUs \cup {NoGpu}, gen : 0..MaxRestarts]
Steps == {"start", "local", "connected", "holds_local", "scheduler", "asked", "answered", "reject",
          "holds_lease", "releasing", "freed"}
ProcType == [pc : Steps, gen : 0..MaxRestarts, want : Wants \cup {NoWant}, gpu : GPUs \cup {NoGpu},
             answer : LeaseType, listed : SUBSET Wants]

\* Types: the selector, the two ledgers and the processes.
TypeOK ==
    /\ selector \in {"local", "scheduler"} /\ switches \in 0..MaxSwitches
    /\ operator \in {"idle", "to_scheduler", "to_local"}
    /\ local \in [GPUs -> [owner : Attempts \cup {NoOwner}, gen : 0..MaxRestarts]]
    /\ sent \subseteq Requests
    /\ lease \in [Attempts -> [Wants -> LeaseType]]
    /\ proc \in [Attempts -> ProcType]

OwnReservation(o) ==
    proc[o].pc = "holds_lease" =>
        /\ proc[o].want \in Wants
        /\ lease[o][proc[o].want].gpu = proc[o].gpu
        /\ lease[o][proc[o].want].gen = proc[o].gen
Reclaimed(o) == proc[o].pc = "freed" => proc[o].listed \cap ActiveKeys(o) = {}

\* What reserve_background returned is a reservation of the process that made
\* the call: the lease of its request allocates the GPU that was returned and
\* carries this process as its owner, whatever an earlier process asked for,
\* lost or left behind.
ReservationIsOwn == \A o \in Attempts : OwnReservation(o)

\* A release that returned means that the scheduler verified the reclamation
\* of every lease the owner had when the release looked, those of earlier
\* processes and of other requests included.  (A request that is handled
\* later than that may still be granted.)
FreedIsReclaimed == \A o \in Attempts : Reclaimed(o)

\* Reservations are the caller's own, and end when their release returns.
AuthorityInv == TypeOK /\ ReservationIsOwn /\ FreedIsReclaimed

\* An answer on its way is about the allocation in the ledger, which a lease
\* keeps for good.
AnswerIsLedger(o) ==
    proc[o].pc \in {"answered", "reject", "holds_lease"} =>
        /\ proc[o].want \in Wants
        /\ lease[o][proc[o].want] # NoLease
        /\ lease[o][proc[o].want].gpu = proc[o].answer.gpu
        /\ lease[o][proc[o].want].gen = proc[o].answer.gen

\* What was listed is known to the scheduler, and what a release is about to
\* release is all of it that is active.
ListingHolds(o) ==
    /\ \A k \in proc[o].listed : lease[o][k] # NoLease
    /\ proc[o].pc = "asked" => proc[o].want \in Wants
    /\ proc[o].pc = "releasing" =>
          /\ proc[o].want \in Wants
          /\ lease[o][proc[o].want] # NoLease
          /\ proc[o].listed \cap ActiveKeys(o) \subseteq {proc[o].want}

CallConsistent(o) == OwnReservation(o) /\ Reclaimed(o) /\ AnswerIsLedger(o) /\ ListingHolds(o)

\* The operator checked the bound of the switch that is under way.
SwitchCounted == operator # "idle" => switches < MaxSwitches

\* A lease in the ledger has a state.
LedgerKept == \A o \in Attempts, k \in Wants : lease[o][k].state = "none" => lease[o][k] = NoLease

\* The inductive invariant.
IInv == TypeOK /\ SwitchCounted /\ LedgerKept /\ \A o \in Attempts : CallConsistent(o)

-----------------------------------------------------------------------------
(* What the documentation says and the code does not do: both are violated *)
(* by a change of the selector at the wrong moment.                        *)

\* The legacy coordinator is fenced after a cutover: no local reservation is
\* made while the scheduler is selected.
LocalFenced ==
    [][selector = "scheduler" => \A g \in GPUs : local'[g] # local[g] => local'[g] = Free]_vars

\* There is one authority at a time: no GPU is reserved by a live process in
\* the local registry and leased by the scheduler as well.
OneAuthority == \A g \in GPUs : ~(~Vacant(g) /\ Granted(g))
=============================================================================
