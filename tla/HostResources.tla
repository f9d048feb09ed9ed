---------------------------- MODULE HostResources ----------------------------
(***************************************************************************)
(* The host resource coordinator: a SQLite registry of devices, owners,    *)
(* reservations and foreground intents that every Project Control process  *)
(* on one host shares (host_resources/coordinator.py, facade.py).          *)
(*                                                                         *)
(* Every operation is one BEGIN IMMEDIATE transaction and is one action    *)
(* here.  The processes that own reservations, the clock and the model     *)
(* processes a service spawns are the environment.  An operation that      *)
(* raises, or whose transaction rolls back, changes nothing and is the     *)
(* stuttering step.                                                        *)
(***************************************************************************)
EXTENDS Integers, FiniteSets, FiniteSetsExt, Functions

CONSTANTS
    Device,        \* rows of host_resources: the accelerators
    Domain,        \* interference ids: PCIe roots and NVLink domains
    DomainsOf,     \* [Device -> SUBSET Domain], from the topology tags
    Background,    \* owner ids background:<project>:<job>:<attempt>
    Service,       \* owner ids service:<project>:<service>:<uuid>
    Foreground,    \* owner ids foreground:<uuid>
    Core4,         \* the services whose service_id starts with core4-local-
    Proc,          \* process generations: a pid together with its start time
    NoProc,        \* a NULL pid
    Request,       \* the resource requests callers make
    CallerClass,   \* the priority classes callers name
    CpuLimit,      \* 75% of the CPU capacity of the host
    StaleAge       \* heartbeat age, in clock ticks, at which an owner expires

Owner    == Background \cup Service \cup Foreground
Resource == Device \cup Domain

(* PRIORITY_CLASSES of policy.py *)
priority_value ==
    [idle_model_residency    |-> 20, background_cuda         |-> 40,
     foreground_gpu          |-> 60, active_local_delegation |-> 80,
     clean_cuda_foreground   |-> 100]

PriorityClass == DOMAIN priority_value

(* A normalised resource request: exact device ids, or a number of devices *)
(* (neither: no device), further exclusive ids, whether the interference   *)
(* domains of the chosen devices are taken too, declared CPU threads, and  *)
(* the cpu_heavy flag.  RAM is accounted exactly as CPU threads are.       *)
RequestType ==
    [ids : SUBSET Device, count : Nat, exclusive : SUBSET Resource,
     isolate : BOOLEAN, cpu_threads : Nat, cpu_heavy : BOOLEAN]

ASSUME OwnerAssumption ==
    /\ Background \cap Service = {}
    /\ Background \cap Foreground = {}
    /\ Service \cap Foreground = {}
    /\ Core4 \subseteq Service

ASSUME EnvironmentAssumption ==
    /\ NoProc \notin Proc
    /\ DomainsOf \in [Device -> SUBSET Domain]
    /\ Request \subseteq RequestType
    /\ CallerClass \subseteq PriorityClass
    /\ CpuLimit \in Nat \ {0}
    /\ StaleAge \in Nat \ {0}

VARIABLES
    enabled,    \* the enabled rows of host_resources
    state,      \* host_owners.state, "none" before the row exists
    pid,        \* host_owners.pid and process_start
    preempt,    \* host_owners.preempt_requested
    class,      \* host_owners.priority_class
    threads,    \* host_owners.cpu_threads
    age,        \* ticks since heartbeat_at, for a live owner
    held,       \* resources of the owner's active host_reservations rows
    past,       \* resources of the owner's released host_reservations rows
    bundle,     \* resources_json of the owner's foreground intent
    intents,    \* owners whose foreground intent row is active
    protected,  \* host_owners.residency_protected
    verified,   \* host_owners.residency_release_verified
    phase,      \* residency metadata: phase
    origin,     \* residency metadata: origin process
    model,      \* residency metadata: model_pid
    residents,  \* residency metadata: resource_ids
    proc,       \* environment: life of every process
    spawned,    \* environment: model process the origin really started
    observed    \* environment: owners with a quiescence proof at most 5 s old

ownerVars     == <<state, pid, preempt, class, threads, age>>
rowVars       == <<held, past, bundle, intents>>
residencyVars == <<protected, verified, phase, origin, model, residents>>
envVars       == <<proc, spawned, observed>>
vars          == <<enabled, ownerVars, rowVars, residencyVars, envVars>>

OwnerState == {"none", "active", "intent", "released", "stale", "orphaned"}
Live       == {"active", "intent"}

TypeOK ==
    /\ enabled \subseteq Device
    /\ state \in [Owner -> OwnerState]
    /\ pid \in [Owner -> Proc \cup {NoProc}]
    /\ preempt \in [Owner -> BOOLEAN]
    /\ class \in [Owner -> PriorityClass]
    /\ threads \in [Owner -> Nat]
    /\ age \in [Owner -> 0 .. StaleAge]
    /\ held \in [Owner -> SUBSET Resource]
    /\ past \in [Owner -> SUBSET Resource]
    /\ bundle \in [Owner -> SUBSET Resource]
    /\ intents \subseteq Owner
    /\ protected \in [Owner -> BOOLEAN]
    /\ verified \in [Owner -> BOOLEAN]
    /\ phase \in [Owner -> {"none", "reserved", "spawned"}]
    /\ origin \in [Owner -> Proc \cup {NoProc}]
    /\ model \in [Owner -> Proc \cup {NoProc}]
    /\ residents \in [Owner -> SUBSET Resource]
    /\ proc \in [Proc -> {"unborn", "alive", "dead"}]
    /\ spawned \in [Owner -> Proc \cup {NoProc}]
    /\ observed \subseteq Owner

Init ==
    /\ enabled = Device
    /\ state = [o \in Owner |-> "none"]
    /\ pid = [o \in Owner |-> NoProc]
    /\ preempt = [o \in Owner |-> FALSE]
    /\ class = [o \in Owner |-> "background_cuda"]
    /\ threads = [o \in Owner |-> 0]
    /\ age = [o \in Owner |-> 0]
    /\ held = [o \in Owner |-> {}]
    /\ past = [o \in Owner |-> {}]
    /\ bundle = [o \in Owner |-> {}]
    /\ intents = {}
    /\ protected = [o \in Owner |-> FALSE]
    /\ verified = [o \in Owner |-> FALSE]
    /\ phase = [o \in Owner |-> "none"]
    /\ origin = [o \in Owner |-> NoProc]
    /\ model = [o \in Owner |-> NoProc]
    /\ residents = [o \in Owner |-> {}]
    /\ proc \in [Proc -> {"unborn", "alive"}]
    /\ spawned = [o \in Owner |-> NoProc]
    /\ observed = {}

-----------------------------------------------------------------------------
(* Reading the tables. *)

alive(p) == p # NoProc /\ proc[p] = "alive"

(* Mutant: the triggers are not installed. *)
NoTriggers(o) == FALSE

(* The residency triggers: while an owner is protected and active, no      *)
(* statement of any client, old or new, changes its row or its reservation *)
(* and intent rows, except the verified release.                           *)
Guarded(o) == protected[o] /\ state[o] = "active"

(* Owners that _sweep_locked releases. *)
Expired ==
    {o \in Owner : /\ state[o] \in Live
                   /\ age[o] = StaleAge
                   /\ ~protected[o]
                   /\ ~alive(pid[o])}

(* Mutant: the statements of a release bypass the triggers. *)
ReleasedUnguarded(S) == S

(* _release_locked on every owner of S: the tables it leaves behind, with  *)
(* the rows that the triggers keep.                                        *)
Released(S) == {o \in S : ~Guarded(o)}
StateAfter(S, s) == [o \in Owner |-> IF o \in Released(S) THEN s ELSE state[o]]
HeldAfter(S) == [o \in Owner |-> IF o \in Released(S) THEN {} ELSE held[o]]
PastAfter(S) ==
    [o \in Owner |-> past[o] \cup (IF o \in Released(S) THEN held[o] ELSE {})]

(* Mutant: a release forgets the intent row. *)
IntentsKept(S) == intents

IntentsAfter(S) == intents \ Released(S)
AgeAfter(S) == [o \in Owner |-> IF o \in Released(S) THEN 0 ELSE age[o]]

release_locked(S, s) ==
    /\ state' = StateAfter(S, s)
    /\ held' = HeldAfter(S)
    /\ past' = PastAfter(S)
    /\ intents' = IntentsAfter(S)
    /\ age' = AgeAfter(S)

(* The tables as the sweep that opens most transactions leaves them; its   *)
(* second statement releases the intents of owners that are not live.      *)
SweptState   == StateAfter(Expired, "stale")
SweptHeld    == HeldAfter(Expired)
SweptPast    == PastAfter(Expired)
SweptAge     == AgeAfter(Expired)
SweptIntents == {o \in IntentsAfter(Expired) : SweptState[o] \in Live}

(* Mutant: a selection looks at reservations only. *)
reserved_resource_ids == UNION {SweptHeld[o] : o \in Owner}

active_resource_ids ==
    (UNION {SweptHeld[o] : o \in Owner}) \cup (UNION {bundle[o] : o \in SweptIntents})

request_threads(req) ==
    IF req.cpu_threads > 0 THEN req.cpu_threads
    ELSE IF req.cpu_heavy THEN CpuLimit ELSE 0

Load(S) == SumFunctionOnSet(threads, S)

(* Mutant: the request itself is not counted. *)
pressure_before_request(req) ==
    Load({o \in Owner : SweptState[o] \in Live}) <= CpuLimit

pressure_available(req) ==
    Load({o \in Owner : SweptState[o] \in Live}) + request_threads(req) <= CpuLimit

extra_ids(req, S) ==
    req.exclusive \cup (IF req.isolate THEN UNION {DomainsOf[d] : d \in S} ELSE {})

(* The bundles that satisfy a request, occupied ones included.  The order  *)
(* in which the code tries them (by id) is left open.                      *)
candidate_resources(req) ==
    LET chosen == IF req.ids # {} THEN {S \in {req.ids} : S \subseteq enabled}
                  ELSE IF req.count > 0 THEN kSubset(req.count, enabled)
                  ELSE {{}}
    IN  {S \cup extra_ids(req, S) : S \in chosen}

select(req) ==
    {c \in candidate_resources(req) :
        pressure_available(req) /\ c \cap active_resource_ids = {}}

preemptible(o) == o \notin Foreground

conflicting_owners(c) ==
    {o \in Owner : SweptState[o] = "active" /\ SweptHeld[o] \cap c # {}}

Outranks(cls, o) == preemptible(o) /\ priority_value[class[o]] < priority_value[cls]

(* Bundles all of whose holders may be preempted for cls, with the fewest  *)
(* victims and, among those, the lowest sum of priorities.                 *)
PreemptionBundles(req, cls) ==
    LET viable == {c \in candidate_resources(req) :
                      /\ conflicting_owners(c) # {}
                      /\ \A o \in conflicting_owners(c) : Outranks(cls, o)}
        victims(c) == Cardinality(conflicting_owners(c))
        ranks(c) == MapThenSumSet(LAMBDA o : priority_value[class[o]],
                                  conflicting_owners(c))
    IN  {c \in viable : \A d \in viable :
            \/ victims(c) < victims(d)
            \/ victims(c) = victims(d) /\ ranks(c) <= ranks(d)}

-----------------------------------------------------------------------------
(* Inventory. *)

(* replace_resources: discovery enables exactly the devices it found. *)
replace_resources(S) ==
    /\ enabled' = S
    /\ UNCHANGED <<ownerVars, rowVars, residencyVars, envVars>>

(* upsert_resources of one row. *)
upsert_resources(d, on) ==
    /\ enabled' = IF on THEN enabled \cup {d} ELSE enabled \ {d}
    /\ UNCHANGED <<ownerVars, rowVars, residencyVars, envVars>>

(* sweep_stale, and what compound_gpu_bundles does before it reads. *)
sweep_stale ==
    /\ state' = SweptState
    /\ held' = SweptHeld
    /\ past' = SweptPast
    /\ age' = SweptAge
    /\ intents' = SweptIntents
    /\ UNCHANGED <<enabled, pid, preempt, class, threads, bundle, residencyVars, envVars>>

(* reconcile_current_service_owners: process p has lost the slots of its   *)
(* core4 services that are not in known.                                   *)
Orphans(p, known) ==
    {o \in Core4 \ known : pid[o] = p /\ state[o] \in Live /\ ~protected[o]}

(* Mutant: the reconciliation writes a state no reader knows. *)
reconcile_to_unknown_state(p, known) ==
    /\ alive(p)
    /\ release_locked(Orphans(p, known), "orphan")
    /\ UNCHANGED <<enabled, pid, preempt, class, threads, bundle, residencyVars, envVars>>

reconcile_current_service_owners(p, known) ==
    /\ alive(p)
    /\ release_locked(Orphans(p, known), "orphaned")
    /\ UNCHANGED <<enabled, pid, preempt, class, threads, bundle, residencyVars, envVars>>

-----------------------------------------------------------------------------
(* Background and service reservations (_reserve_locked). *)

(* The rows a granted reservation inserts, after the sweep. *)
InsertOwner(o, s, p, cls, cpu) ==
    /\ state' = [SweptState EXCEPT ![o] = s]
    /\ pid' = [pid EXCEPT ![o] = p]
    /\ class' = [class EXCEPT ![o] = cls]
    /\ threads' = [threads EXCEPT ![o] = cpu]

ReserveGranted(o, p, req, cls) ==
    /\ state[o] = "none"        \* otherwise IntegrityError and rollback
    /\ alive(p)
    /\ \E c \in select(req) : held' = [SweptHeld EXCEPT ![o] = c]
    /\ InsertOwner(o, "active", p, cls, request_threads(req))
    /\ past' = SweptPast
    /\ age' = SweptAge
    /\ intents' = SweptIntents
    /\ UNCHANGED <<enabled, preempt, bundle, residencyVars, envVars>>

(* A refused reservation commits the sweep and a preemption request, which *)
(* also renews the heartbeats of the victims.                              *)
ReserveRefused(p, req, cls) ==
    LET victims(c) == conflicting_owners(c)
        Flag(V) == /\ preempt' = [o \in Owner |-> preempt[o] \/ o \in V]
                   /\ age' = [o \in Owner |-> IF o \in V THEN 0 ELSE SweptAge[o]]
    IN  /\ alive(p)
        /\ select(req) = {}
        /\ \/ PreemptionBundles(req, cls) = {} /\ Flag({})
           \/ \E c \in PreemptionBundles(req, cls) : Flag(victims(c))
        /\ state' = SweptState
        /\ held' = SweptHeld
        /\ past' = SweptPast
        /\ intents' = SweptIntents
        /\ UNCHANGED <<enabled, pid, class, threads, bundle, residencyVars, envVars>>

reserve_background(o, p, req) ==
    ReserveGranted(o, p, req, "background_cuda") \/ ReserveRefused(p, req, "background_cuda")

reserve_service(o, p, req, cls) ==
    ReserveGranted(o, p, req, cls) \/ ReserveRefused(p, req, cls)

-----------------------------------------------------------------------------
(* Foreground work: an intent first, the reservations once they are free. *)

(* Owners that begin_foreground tells to drain for bundle c. *)
ForegroundVictims(c, req, cls) ==
    LET pressure == Load({o \in Owner : SweptState[o] = "active"})
                        + req.cpu_threads > CpuLimit
    IN  {o \in Owner : /\ SweptState[o] = "active"
                       /\ Outranks(cls, o)
                       /\ pressure \/ SweptHeld[o] \cap c # {}}

(* The bundles an intent may name: a free one, else one that preemption    *)
(* can free, else any candidate, else nothing.                             *)
IntentBundles(req, cls) ==
    IF select(req) # {} THEN select(req)
    ELSE IF PreemptionBundles(req, cls) # {} THEN PreemptionBundles(req, cls)
    ELSE IF candidate_resources(req) # {} THEN candidate_resources(req)
    ELSE {{}}

begin_foreground(o, p, req, cls) ==
    /\ state[o] = "none"
    /\ alive(p)
    /\ \E c \in IntentBundles(req, cls) :
          LET V == ForegroundVictims(c, req, cls)
          IN  /\ bundle' = [bundle EXCEPT ![o] = c]
              /\ preempt' = [x \in Owner |-> preempt[x] \/ x \in V]
              /\ age' = [x \in Owner |-> IF x \in V THEN 0 ELSE SweptAge[x]]
    /\ InsertOwner(o, "intent", p, cls, req.cpu_threads)
    /\ intents' = SweptIntents \cup {o}
    /\ held' = SweptHeld
    /\ past' = SweptPast
    /\ UNCHANGED <<enabled, residencyVars, envVars>>

(* Mutant: only a device held by a foreground owner stops an activation. *)
OccupiedByForeground(c) == \E o \in Foreground : SweptHeld[o] \cap c # {}

Occupied(c) == \E o \in Owner : SweptHeld[o] \cap c # {}

(* A failed activation commits the sweep. *)
ActivateRefused(o) ==
    /\ state[o] # "none"
    /\ Occupied(bundle[o])
    /\ sweep_stale

(* activate_foreground does not look at the owner's state: only a row that *)
(* the owner once held for the same resource stops it (primary key).       *)
activate_foreground(o) ==
    /\ state[o] # "none"
    /\ ~Occupied(bundle[o])
    /\ bundle[o] \cap SweptPast[o] = {}
    /\ held' = [SweptHeld EXCEPT ![o] = bundle[o]]
    /\ state' = [SweptState EXCEPT ![o] = "active"]
    /\ age' = [SweptAge EXCEPT ![o] = 0]
    /\ past' = SweptPast
    /\ intents' = SweptIntents
    /\ UNCHANGED <<enabled, pid, preempt, class, threads, bundle, residencyVars, envVars>>

-----------------------------------------------------------------------------
(* Operations on one owner. *)

(* heartbeat, naming the process that takes over or, without a pid, none:  *)
(* then the row keeps its process, dead or alive.  The triggers drop a     *)
(* change of process of a protected owner.                                 *)
heartbeat(o, p) ==
    /\ state[o] # "none"
    /\ alive(p) \/ p = pid[o]
    /\ Guarded(o) => p = pid[o]
    /\ pid' = [pid EXCEPT ![o] = p]
    /\ age' = [age EXCEPT ![o] = 0]
    /\ UNCHANGED <<enabled, state, preempt, class, threads, rowVars, residencyVars, envVars>>

(* Mutant: a preempted owner may still change its priority. *)
set_priority_unchecked(o, cls) ==
    /\ state[o] = "active"
    /\ class' = [class EXCEPT ![o] = cls]
    /\ age' = [age EXCEPT ![o] = 0]
    /\ UNCHANGED <<enabled, state, pid, preempt, threads, rowVars, residencyVars, envVars>>

set_priority(o, cls) ==
    /\ state[o] = "active"
    /\ ~preempt[o]
    /\ class' = [class EXCEPT ![o] = cls]
    /\ age' = [age EXCEPT ![o] = 0]
    /\ UNCHANGED <<enabled, state, pid, preempt, threads, rowVars, residencyVars, envVars>>

request_preemption(o) ==
    /\ state[o] = "active"
    /\ preemptible(o)
    /\ preempt' = [preempt EXCEPT ![o] = TRUE]
    /\ age' = [age EXCEPT ![o] = 0]
    /\ UNCHANGED <<enabled, state, pid, class, threads, rowVars, residencyVars, envVars>>

(* release of an owner that is not protected, in any state. *)
release(o) ==
    /\ state[o] # "none"
    /\ ~protected[o]
    /\ release_locked({o}, "released")
    /\ UNCHANGED <<enabled, pid, preempt, class, threads, bundle, residencyVars, envVars>>

(* A client of an earlier release: its release has no residency check. *)
LegacyRelease(o) ==
    /\ state[o] # "none"
    /\ release_locked({o}, "released")
    /\ UNCHANGED <<enabled, pid, preempt, class, threads, bundle, residencyVars, envVars>>

(* drain_if_requested: the owner polls preempt_requested, drains its work  *)
(* in a callback and releases.                                             *)
drain_if_requested(o) ==
    /\ state[o] = "active"
    /\ preempt[o]
    /\ alive(pid[o])
    /\ release(o)

-----------------------------------------------------------------------------
(* Protected residency of a core4 service. *)

protect_residency(o, caller) ==
    /\ alive(caller)
    /\ state[o] = "active" /\ o \in Core4 /\ pid[o] = caller
    /\ held[o] \cap Device # {}
    /\ ~protected[o]
    /\ protected' = [protected EXCEPT ![o] = TRUE]
    /\ phase' = [phase EXCEPT ![o] = "reserved"]
    /\ origin' = [origin EXCEPT ![o] = caller]
    /\ model' = [model EXCEPT ![o] = NoProc]
    /\ residents' = [residents EXCEPT ![o] = held[o]]
    /\ UNCHANGED <<enabled, ownerVars, rowVars, verified, envVars>>

record_residency_process(o, caller, m) ==
    /\ alive(caller) /\ alive(m)
    /\ state[o] = "active" /\ protected[o]
    /\ origin[o] = caller
    /\ phase[o] = "spawned" => model[o] = m
    /\ phase[o] = "reserved" => pid[o] = caller
    /\ phase' = [phase EXCEPT ![o] = "spawned"]
    /\ model' = [model EXCEPT ![o] = m]
    /\ pid' = [pid EXCEPT ![o] = m]
    /\ age' = [age EXCEPT ![o] = 0]
    /\ UNCHANGED <<enabled, state, preempt, class, threads, rowVars, protected,
                   verified, origin, residents, envVars>>

(* _verify_residency_release: a fresh quiescence proof, the recorded model *)
(* process dead now, its identity and the reserved resources unchanged.    *)
verify_residency_release(o) ==
    /\ o \in observed
    /\ model[o] # NoProc => pid[o] = model[o] /\ ~alive(model[o])
    /\ held[o] = residents[o]

(* release of a protected owner by a caller that shows its capability. *)
ReleaseProtected(o, caller) ==
    /\ alive(caller)
    /\ protected[o]
    /\ phase[o] = "reserved" => origin[o] = caller
    /\ origin[o] = caller \/ ~alive(origin[o])
    /\ verify_residency_release(o)
    /\ ~verified[o]             \* the owner_update trigger
    /\ protected' = [protected EXCEPT ![o] = FALSE]
    /\ verified' = [verified EXCEPT ![o] = TRUE]
    /\ state' = [state EXCEPT ![o] = "released"]
    /\ held' = [held EXCEPT ![o] = {}]
    /\ past' = [past EXCEPT ![o] = @ \cup held[o]]
    /\ intents' = intents \ {o}
    /\ age' = [age EXCEPT ![o] = 0]
    /\ UNCHANGED <<enabled, pid, preempt, class, threads, bundle, phase, origin,
                   model, residents, envVars>>

-----------------------------------------------------------------------------
(* The environment. *)

(* Time passes; only the age of a live owner matters. *)
Tick ==
    /\ \E o \in Owner : state[o] \in Live /\ age[o] < StaleAge
    /\ age' = [o \in Owner |-> IF state[o] \in Live /\ age[o] < StaleAge
                               THEN age[o] + 1 ELSE age[o]]
    /\ UNCHANGED <<enabled, state, pid, preempt, class, threads, rowVars,
                   residencyVars, envVars>>

Die(p) ==
    /\ proc[p] = "alive"
    /\ proc' = [proc EXCEPT ![p] = "dead"]
    /\ UNCHANGED <<enabled, ownerVars, rowVars, residencyVars, spawned, observed>>

(* The origin starts the model on the protected devices, once and not      *)
(* after it has taken a quiescence observation to release them.            *)
SpawnModel(o, m) ==
    /\ protected[o] /\ phase[o] = "reserved" /\ spawned[o] = NoProc
    /\ alive(origin[o])
    /\ o \notin observed
    /\ proc[m] = "unborn"
    /\ proc' = [proc EXCEPT ![m] = "alive"]
    /\ spawned' = [spawned EXCEPT ![o] = m]
    /\ UNCHANGED <<enabled, ownerVars, rowVars, residencyVars, observed>>

(* An observation that finds the devices of o back at their baseline. *)
ObserveQuiescence(o) ==
    /\ protected[o]
    /\ ~alive(spawned[o])
    /\ observed' = observed \cup {o}
    /\ UNCHANGED <<enabled, ownerVars, rowVars, residencyVars, proc, spawned>>

ObservationExpires(o) ==
    /\ o \in observed
    /\ observed' = observed \ {o}
    /\ UNCHANGED <<enabled, ownerVars, rowVars, residencyVars, proc, spawned>>

-----------------------------------------------------------------------------

InventoryNext ==
    \/ \E S \in SUBSET Device : replace_resources(S)
    \/ \E d \in Device, on \in BOOLEAN : upsert_resources(d, on)

AdmissionNext ==
    \/ sweep_stale
    \/ \E o \in Background, p \in Proc, req \in Request : reserve_background(o, p, req)
    \/ \E o \in Service, p \in Proc, req \in Request, cls \in CallerClass :
          reserve_service(o, p, req, cls)
    \/ \E o \in Foreground, p \in Proc, req \in Request, cls \in CallerClass :
          begin_foreground(o, p, req, cls)
    \/ \E o \in Foreground : activate_foreground(o) \/ ActivateRefused(o)

OwnerNext ==
    \/ \E p \in Proc, known \in SUBSET Core4 : reconcile_current_service_owners(p, known)
    \/ \E o \in Owner, p \in Proc : heartbeat(o, p)
    \/ \E o \in Owner, cls \in CallerClass : set_priority(o, cls)
    \/ \E o \in Owner : request_preemption(o)
    \/ \E o \in Owner : release(o)
    \/ \E o \in Owner : LegacyRelease(o)
    \/ \E o \in Owner : drain_if_requested(o)

ResidencyNext ==
    \/ \E o \in Core4, p \in Proc : protect_residency(o, p)
    \/ \E o \in Core4, p \in Proc : record_residency_process(o, p, spawned[o])
    \/ \E o \in Core4, p \in Proc : ReleaseProtected(o, p)

EnvironmentNext ==
    \/ Tick
    \/ \E p \in Proc : Die(p)
    \/ \E o \in Core4, m \in Proc : SpawnModel(o, m)
    \/ \E o \in Core4 : ObserveQuiescence(o) \/ ObservationExpires(o)

Next == InventoryNext \/ AdmissionNext \/ OwnerNext \/ ResidencyNext \/ EnvironmentNext

Spec == Init /\ [][Next]_vars

(* The clock runs.  The rest are obligations of clients of the facade: a   *)
(* foreground client calls activate_foreground until it succeeds, and an   *)
(* owner's process polls drain_if_requested, whose callback drains at last.*)
Fairness ==
    /\ WF_vars(Tick)
    /\ \A o \in Foreground : WF_vars(activate_foreground(o) \/ ActivateRefused(o))
    /\ \A o \in Owner : WF_vars(drain_if_requested(o))

FairSpec == Spec /\ Fairness

-----------------------------------------------------------------------------
(* Safety. *)

(* No resource is reserved by two owners, whatever mix of background,      *)
(* service and foreground admissions, sweeps, revived intents and legacy   *)
(* releases led here.                                                      *)
Exclusive ==
    \A o1, o2 \in Owner : o1 # o2 => held[o1] \cap held[o2] = {}

(* An active reservation row belongs to an active owner and an active      *)
(* intent row to a live one: no release path leaves a row behind that      *)
(* blocks a resource for good.                                             *)
RowsHaveLiveOwners ==
    /\ \A o \in Owner : held[o] # {} => state[o] = "active"
    /\ \A o \in intents : state[o] \in Live

(* While a model process that was started under a protected residency is   *)
(* alive, its devices stay reserved for its owner: no sweep after a crash  *)
(* of the supervisor, reconciliation, preemption or old client frees them. *)
ModelKeepsDevices ==
    \A o \in Core4 : alive(spawned[o]) =>
        /\ protected[o] /\ state[o] = "active"
        /\ held[o] = residents[o] /\ residents[o] \cap Device # {}

(* Admission control: background and service owners together never hold    *)
(* more than the CPU limit.  A foreground owner is admitted regardless.    *)
BackgroundWithinLimit ==
    Load({o \in Background \cup Service : state[o] \in Live}) <= CpuLimit

(* A foreground intent fences its bundle: no step reserves one of those    *)
(* resources for a background or service owner while the intent is active. *)
IntentFence ==
    [][\A o \in Background \cup Service, i \in intents' :
            (held'[o] \ held[o]) \cap bundle'[i] = {}]_vars

(* An owner told to drain cannot talk its way out: until it releases, the  *)
(* request stands and its priority does not change.                        *)
PreemptionStands ==
    [][\A o \in Owner :
            preempt[o] /\ state[o] = "active" /\ state'[o] = "active"
                => preempt'[o] /\ class'[o] = class[o]]_vars

(* The inductive invariant behind these: a foreground owner holds nothing  *)
(* outside the bundle of its intent, ...                                   *)
ForegroundHoldsBundle ==
    \A o \in Foreground : held[o] \subseteq bundle[o]

(* ... a protected owner is an active core4 service that holds what its    *)
(* metadata lists, ...                                                     *)
ProtectedHoldsResidents ==
    \A o \in Owner : protected[o] =>
        /\ o \in Core4 /\ state[o] = "active"
        /\ held[o] = residents[o] /\ residents[o] \cap Device # {}

(* ... and a model process runs only under protection, and never while an  *)
(* observation says that it does not.                                      *)
ModelProtected ==
    \A o \in Owner :
        /\ spawned[o] # NoProc => proc[spawned[o]] # "unborn"
        /\ alive(spawned[o]) => protected[o] /\ o \notin observed

IInv ==
    /\ Exclusive
    /\ RowsHaveLiveOwners
    /\ ForegroundHoldsBundle
    /\ ProtectedHoldsResidents
    /\ ModelProtected

(* The coordinator implements exclusive all-or-nothing leases that a       *)
(* protected residency pins.                                               *)
Leases == INSTANCE ResourceLeases WITH pinned <- {o \in Owner : protected[o]}

ImplementsLeases == Leases!Spec

-----------------------------------------------------------------------------
(* Liveness. *)

(* From some point on, nobody renews the heartbeat of a dead owner.  Every *)
(* preemption request does, so a requester that polls can break this.      *)
DeadNotRenewed ==
    <>[][\A o \in Owner :
            state[o] \in Live /\ state'[o] = state[o] /\ ~alive(pid[o])
                => age'[o] >= age[o]]_vars

(* A foreground intent all of whose bundle's holders were told to drain is *)
(* served: they drain or die and are swept, the intent keeps everybody     *)
(* else out, and the intent's owner activates (or is itself given up).     *)
ForegroundServed ==
    DeadNotRenewed => \A f \in Foreground :
        (/\ state[f] = "intent"
         /\ \A o \in Owner : held[o] \cap bundle[f] # {} => preempt[o])
            ~> state[f] # "intent"

(* Dead owners do not poison the registry: while the clock runs and sweeps *)
(* are made, no unprotected owner whose process is dead stays active.      *)
DeadOwnersSwept ==
    \A o \in Owner :
        ~<>[](state[o] = "active" /\ ~protected[o] /\ ~alive(pid[o]))

=============================================================================
