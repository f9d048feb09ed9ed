------------------------- MODULE HostResourcesProofs -------------------------
(* Theorems about HostResources, for every set of devices, owners,         *)
(* processes and requests.                                                 *)
EXTENDS HostResources, SumTheorems, TLAPS

-----------------------------------------------------------------------------
(* Type correctness. *)

(* Every bundle a request can be answered with is a set of resources. *)
LEMMA CandidateType ==
    ASSUME TypeOK, NEW req \in Request
    PROVE  candidate_resources(req) \subseteq SUBSET Resource
<1>1. req \in RequestType
  BY EnvironmentAssumption
<1>2. ASSUME NEW S \in SUBSET Device
      PROVE  extra_ids(req, S) \subseteq Resource
  BY <1>1, EnvironmentAssumption DEF extra_ids, RequestType, Resource
<1>3. ASSUME NEW S \in SUBSET Device
      PROVE  S \cup extra_ids(req, S) \in SUBSET Resource
  BY <1>2 DEF Resource
<1>4. /\ {S \in {req.ids} : S \subseteq enabled} \subseteq SUBSET Device
      /\ kSubset(req.count, enabled) \subseteq SUBSET Device
      /\ {{}} \subseteq SUBSET Device
  BY <1>1 DEF TypeOK, RequestType, kSubset
<1> QED
  BY <1>3, <1>4 DEF candidate_resources

(* The tables after a release or a sweep keep their types. *)
LEMMA AfterType ==
    ASSUME TypeOK, NEW S \in SUBSET Owner, NEW s \in OwnerState
    PROVE  /\ StateAfter(S, s) \in [Owner -> OwnerState]
           /\ HeldAfter(S) \in [Owner -> SUBSET Resource]
           /\ PastAfter(S) \in [Owner -> SUBSET Resource]
           /\ AgeAfter(S) \in [Owner -> 0 .. StaleAge]
           /\ IntentsAfter(S) \subseteq Owner
<1>1. 0 \in 0 .. StaleAge
  BY EnvironmentAssumption
<1> QED
  BY <1>1 DEF TypeOK, StateAfter, HeldAfter, PastAfter, AgeAfter, IntentsAfter

LEMMA SweptType ==
    ASSUME TypeOK
    PROVE  /\ SweptState \in [Owner -> OwnerState]
           /\ SweptHeld \in [Owner -> SUBSET Resource]
           /\ SweptPast \in [Owner -> SUBSET Resource]
           /\ SweptAge \in [Owner -> 0 .. StaleAge]
           /\ SweptIntents \subseteq Owner
<1>1. Expired \in SUBSET Owner /\ "stale" \in OwnerState
  BY DEF Expired, OwnerState
<1> QED
  BY <1>1, AfterType DEF SweptState, SweptHeld, SweptPast, SweptAge, SweptIntents

(* Inventory, sweep and admission. *)
LEMMA AdmissionType ==
    ASSUME TypeOK, InventoryNext \/ AdmissionNext
    PROVE  TypeOK'
<1> USE SweptType
<1>0. 0 \in 0 .. StaleAge
  BY EnvironmentAssumption
<1>1. ASSUME NEW S \in SUBSET Device, replace_resources(S)  PROVE TypeOK'
  BY <1>1 DEF TypeOK, replace_resources, ownerVars, rowVars, residencyVars, envVars
<1>2. ASSUME NEW d \in Device, NEW on \in BOOLEAN, upsert_resources(d, on)  PROVE TypeOK'
  BY <1>2 DEF TypeOK, upsert_resources, ownerVars, rowVars, residencyVars, envVars
<1>3. ASSUME sweep_stale  PROVE TypeOK'
  BY <1>3 DEF TypeOK, sweep_stale, residencyVars, envVars
<1>4. ASSUME NEW o \in Owner, NEW p \in Proc, NEW req \in Request,
             NEW cls \in PriorityClass, ReserveGranted(o, p, req, cls)
      PROVE  TypeOK'
  <2>1. request_threads(req) \in Nat
    BY EnvironmentAssumption DEF request_threads, RequestType
  <2>2. \A c \in select(req) : c \in SUBSET Resource
    BY CandidateType DEF select
  <2>3. held' \in [Owner -> SUBSET Resource]
    BY <1>4, <2>2 DEF ReserveGranted
  <2>4. /\ state' \in [Owner -> OwnerState]
        /\ pid' \in [Owner -> Proc \cup {NoProc}]
        /\ class' \in [Owner -> PriorityClass]
        /\ threads' \in [Owner -> Nat]
    BY <1>4, <2>1 DEF ReserveGranted, InsertOwner, TypeOK, OwnerState
  <2> QED
    BY <1>4, <2>3, <2>4 DEF ReserveGranted, TypeOK, residencyVars, envVars
<1>5. ASSUME NEW p \in Proc, NEW req \in Request, NEW cls \in PriorityClass,
             ReserveRefused(p, req, cls)
      PROVE  TypeOK'
  <2>1. PICK V : /\ preempt' = [o \in Owner |-> preempt[o] \/ o \in V]
                 /\ age' = [o \in Owner |-> IF o \in V THEN 0 ELSE SweptAge[o]]
    BY <1>5 DEF ReserveRefused
  <2>2. preempt' \in [Owner -> BOOLEAN] /\ age' \in [Owner -> 0 .. StaleAge]
    BY <2>1, <1>0 DEF TypeOK
  <2> QED
    BY <1>5, <2>2 DEF ReserveRefused, TypeOK, residencyVars, envVars
<1>6. ASSUME NEW o \in Foreground, NEW p \in Proc, NEW req \in Request,
             NEW cls \in PriorityClass, begin_foreground(o, p, req, cls)
      PROVE  TypeOK'
  <2>1. \A c \in IntentBundles(req, cls) : c \in SUBSET Resource
    BY CandidateType DEF IntentBundles, select, PreemptionBundles
  <2>2. PICK c \in IntentBundles(req, cls) :
           LET V == ForegroundVictims(c, req, cls)
           IN  /\ bundle' = [bundle EXCEPT ![o] = c]
               /\ preempt' = [x \in Owner |-> preempt[x] \/ x \in V]
               /\ age' = [x \in Owner |-> IF x \in V THEN 0 ELSE SweptAge[x]]
    BY <1>6 DEF begin_foreground
  <2>3. /\ bundle' \in [Owner -> SUBSET Resource]
        /\ preempt' \in [Owner -> BOOLEAN]
        /\ age' \in [Owner -> 0 .. StaleAge]
    BY <2>1, <2>2, <1>0 DEF TypeOK
  <2>4. req.cpu_threads \in Nat
    BY EnvironmentAssumption DEF RequestType
  <2>5. /\ state' \in [Owner -> OwnerState]
        /\ pid' \in [Owner -> Proc \cup {NoProc}]
        /\ class' \in [Owner -> PriorityClass]
        /\ threads' \in [Owner -> Nat]
    BY <1>6, <2>4 DEF begin_foreground, InsertOwner, TypeOK, OwnerState
  <2>6. intents' \subseteq Owner
    BY <1>6 DEF begin_foreground, Owner
  <2> QED
    BY <1>6, <2>3, <2>5, <2>6 DEF begin_foreground, TypeOK, residencyVars, envVars
<1>7. ASSUME NEW o \in Foreground, activate_foreground(o)  PROVE TypeOK'
  <2>1. o \in Owner
    BY DEF Owner
  <2> QED
    BY <1>0, <1>7, <2>1 DEF activate_foreground, TypeOK, OwnerState, residencyVars, envVars
<1>8. ASSUME NEW o \in Foreground, ActivateRefused(o)  PROVE TypeOK'
  BY <1>3, <1>8 DEF ActivateRefused
<1>9. "background_cuda" \in PriorityClass /\ CallerClass \subseteq PriorityClass
  BY EnvironmentAssumption DEF PriorityClass, priority_value
<1> QED
  BY <1>1, <1>2, <1>3, <1>4, <1>5, <1>6, <1>7, <1>8, <1>9
     DEF InventoryNext, AdmissionNext, reserve_background, reserve_service, Owner

(* Operations on one owner and its residency, and the environment. *)
LEMMA OwnerType ==
    ASSUME TypeOK, OwnerNext \/ ResidencyNext \/ EnvironmentNext
    PROVE  TypeOK'
<1>0. 0 \in 0 .. StaleAge /\ StaleAge \in Nat
  BY EnvironmentAssumption
<1>1. ASSUME NEW S \in SUBSET Owner, NEW s \in OwnerState, release_locked(S, s),
             UNCHANGED <<enabled, pid, preempt, class, threads, bundle, residencyVars, envVars>>
      PROVE  TypeOK'
  BY <1>1, AfterType DEF TypeOK, release_locked, residencyVars, envVars
<1>2. ASSUME NEW p \in Proc, NEW known \in SUBSET Core4,
             reconcile_current_service_owners(p, known)
      PROVE  TypeOK'
  <2>1. Orphans(p, known) \in SUBSET Owner /\ "orphaned" \in OwnerState
    BY OwnerAssumption DEF Orphans, Owner, OwnerState
  <2> QED
    BY <1>1, <1>2, <2>1 DEF reconcile_current_service_owners
<1>3. ASSUME NEW o \in Owner, release(o) \/ LegacyRelease(o) \/ drain_if_requested(o)
      PROVE  TypeOK'
  <2>1. {o} \in SUBSET Owner /\ "released" \in OwnerState
    BY DEF OwnerState
  <2> QED
    BY <1>1, <1>3, <2>1 DEF release, LegacyRelease, drain_if_requested
<1>4. ASSUME NEW o \in Owner, NEW p \in Proc, heartbeat(o, p)  PROVE TypeOK'
  BY <1>0, <1>4 DEF TypeOK, heartbeat, rowVars, residencyVars, envVars
<1>5. ASSUME NEW o \in Owner, NEW cls \in CallerClass, set_priority(o, cls)  PROVE TypeOK'
  BY <1>0, <1>5, EnvironmentAssumption
     DEF TypeOK, set_priority, rowVars, residencyVars, envVars
<1>6. ASSUME NEW o \in Owner, request_preemption(o)  PROVE TypeOK'
  BY <1>0, <1>6 DEF TypeOK, request_preemption, rowVars, residencyVars, envVars
<1>7. ASSUME NEW o \in Core4, NEW p \in Proc, protect_residency(o, p)  PROVE TypeOK'
  <2>1. o \in Owner
    BY OwnerAssumption DEF Owner
  <2> QED
    BY <1>7, <2>1 DEF TypeOK, protect_residency, ownerVars, rowVars, envVars
<1>8. ASSUME NEW o \in Core4, NEW p \in Proc, record_residency_process(o, p, spawned[o])
      PROVE  TypeOK'
  <2>1. o \in Owner /\ spawned[o] \in Proc \cup {NoProc}
    BY OwnerAssumption DEF Owner, TypeOK
  <2> QED
    BY <1>0, <1>8, <2>1 DEF TypeOK, record_residency_process, rowVars, envVars
<1>9. ASSUME NEW o \in Core4, NEW p \in Proc, ReleaseProtected(o, p)  PROVE TypeOK'
  <2>1. o \in Owner
    BY OwnerAssumption DEF Owner
  <2>2. /\ state' \in [Owner -> OwnerState]
        /\ held' \in [Owner -> SUBSET Resource]
        /\ past' \in [Owner -> SUBSET Resource]
        /\ age' \in [Owner -> 0 .. StaleAge]
    BY <1>0, <1>9, <2>1 DEF TypeOK, ReleaseProtected, OwnerState
  <2> QED
    BY <1>9, <2>1, <2>2 DEF TypeOK, ReleaseProtected, envVars
<1>10. ASSUME Tick  PROVE TypeOK'
  <2>1. age' \in [Owner -> 0 .. StaleAge]
    BY <1>0, <1>10 DEF Tick, TypeOK
  <2> QED
    BY <1>10, <2>1 DEF TypeOK, Tick, rowVars, residencyVars, envVars
<1>11. ASSUME NEW p \in Proc, Die(p)  PROVE TypeOK'
  BY <1>11 DEF TypeOK, Die, ownerVars, rowVars, residencyVars
<1>12. ASSUME NEW o \in Core4, NEW m \in Proc, SpawnModel(o, m)  PROVE TypeOK'
  BY <1>12 DEF TypeOK, SpawnModel, ownerVars, rowVars, residencyVars
<1>13. ASSUME NEW o \in Core4, ObserveQuiescence(o) \/ ObservationExpires(o)  PROVE TypeOK'
  <2>1. o \in Owner
    BY OwnerAssumption DEF Owner
  <2> QED
    BY <1>13, <2>1 DEF TypeOK, ObserveQuiescence, ObservationExpires, ownerVars, rowVars,
       residencyVars
<1> QED
  BY <1>2, <1>3, <1>4, <1>5, <1>6, <1>7, <1>8, <1>9, <1>10, <1>11, <1>12, <1>13
     DEF OwnerNext, ResidencyNext, EnvironmentNext

(* Every reachable state of the registry is well typed: the coordinator    *)
(* only ever writes known owner states, known priority classes and known   *)
(* resource ids.                                                           *)
THEOREM TypeCorrect == Spec => []TypeOK
<1>1. Init => TypeOK
  BY EnvironmentAssumption
     DEF Init, TypeOK, OwnerState, PriorityClass, priority_value
<1>2. TypeOK /\ [Next]_vars => TypeOK'
  <2>1. TypeOK /\ Next => TypeOK'
    BY AdmissionType, OwnerType DEF Next
  <2>2. TypeOK /\ UNCHANGED vars => TypeOK'
    BY DEF TypeOK, vars, ownerVars, rowVars, residencyVars, envVars
  <2> QED
    BY <2>1, <2>2
<1> QED
  BY <1>1, <1>2, PTL DEF Spec

-----------------------------------------------------------------------------
(* The inductive invariant. *)

(* What a release of the owners S, or a sweep, leaves behind: nobody gains *)
(* a resource, protected owners lose nothing, and every remaining row has  *)
(* a live owner.                                                           *)
LEMMA AfterFacts ==
    ASSUME TypeOK, IInv, NEW S \in SUBSET Owner, NEW s \in OwnerState
    PROVE  /\ \A o \in Owner :
                /\ HeldAfter(S)[o] \subseteq held[o]
                /\ protected[o] => StateAfter(S, s)[o] = state[o] /\ HeldAfter(S)[o] = held[o]
                /\ HeldAfter(S)[o] # {} => StateAfter(S, s)[o] = "active"
           /\ \A o \in IntentsAfter(S) : StateAfter(S, s)[o] \in Live
<1>1. \A o \in Owner : protected[o] => Guarded(o)
  BY DEF IInv, ProtectedHoldsResidents, Guarded
<1> QED
  BY <1>1 DEF TypeOK, IInv, RowsHaveLiveOwners, HeldAfter, StateAfter, IntentsAfter, Released

LEMMA SweptFacts ==
    ASSUME TypeOK, IInv
    PROVE  /\ \A o \in Owner :
                /\ SweptHeld[o] \subseteq held[o]
                /\ protected[o] => SweptState[o] = state[o] /\ SweptHeld[o] = held[o]
                /\ SweptHeld[o] # {} => SweptState[o] = "active"
           /\ \A o \in SweptIntents : SweptState[o] \in Live
<1>1. Expired \in SUBSET Owner /\ "stale" \in OwnerState
  BY DEF Expired, OwnerState
<1> QED
  BY <1>1, AfterFacts DEF SweptState, SweptHeld, SweptIntents

(* A step that leaves the residency metadata, the environment and the rows *)
(* of protected owners alone preserves the residency part.                 *)
LEMMA ResidencyFrame ==
    ASSUME IInv, UNCHANGED <<residencyVars, envVars>>,
           \A o \in Owner : protected[o] => state'[o] = state[o] /\ held'[o] = held[o]
    PROVE  ProtectedHoldsResidents' /\ ModelProtected'
<1>1. ProtectedHoldsResidents'
  BY DEF IInv, ProtectedHoldsResidents, residencyVars
<1>2. ModelProtected'
  BY DEF IInv, ModelProtected, residencyVars, envVars, alive
<1> QED
  BY <1>1, <1>2

(* A step that only takes resources away. *)
LEMMA LosingInv ==
    ASSUME TypeOK, IInv, UNCHANGED <<bundle, residencyVars, envVars>>,
           \A o \in Owner : /\ held'[o] \subseteq held[o]
                            /\ protected[o] => state'[o] = state[o] /\ held'[o] = held[o]
                            /\ held'[o] # {} => state'[o] = "active",
           \A o \in intents' : state'[o] \in Live
    PROVE  IInv'
<1>1. Exclusive'
  BY DEF IInv, Exclusive
<1>2. RowsHaveLiveOwners'
  BY DEF RowsHaveLiveOwners
<1>3. ForegroundHoldsBundle'
  BY DEF IInv, ForegroundHoldsBundle, Owner
<1> QED
  BY <1>1, <1>2, <1>3, ResidencyFrame DEF IInv

(* A step in which owner o, which is not protected, acquires bundle c that *)
(* nobody holds after the sweep.                                           *)
LEMMA AcquiringInv ==
    ASSUME TypeOK, IInv, UNCHANGED <<bundle, residencyVars, envVars>>,
           NEW o \in Owner, NEW c \in SUBSET Resource,
           ~protected[o],
           \A x \in Owner : SweptHeld[x] \cap c = {},
           o \in Foreground => c \subseteq bundle[o],
           held' = [SweptHeld EXCEPT ![o] = c],
           state' = [SweptState EXCEPT ![o] = "active"],
           intents' = SweptIntents
    PROVE  IInv'
<1> USE SweptType, SweptFacts
<1>1. Exclusive'
  BY DEF IInv, Exclusive
<1>2. RowsHaveLiveOwners'
  BY DEF RowsHaveLiveOwners, Live
<1>3. ForegroundHoldsBundle'
  BY DEF IInv, ForegroundHoldsBundle, Owner
<1>4. \A x \in Owner : protected[x] => state'[x] = state[x] /\ held'[x] = held[x]
  OBVIOUS
<1> QED
  BY <1>1, <1>2, <1>3, <1>4, ResidencyFrame DEF IInv

LEMMA AdmissionInv ==
    ASSUME TypeOK, IInv, InventoryNext \/ AdmissionNext
    PROVE  IInv'
<1> USE SweptType, SweptFacts
<1>1. ASSUME UNCHANGED <<ownerVars, rowVars, residencyVars, envVars>>  PROVE IInv'
  <2>1. UNCHANGED <<held, state, bundle, intents, residencyVars, envVars>>
    BY <1>1 DEF ownerVars, rowVars
  <2>2. /\ \A o \in Owner : held[o] # {} => state[o] = "active"
        /\ \A o \in intents : state[o] \in Live
    BY DEF IInv, RowsHaveLiveOwners
  <2> QED
    BY <2>1, <2>2, LosingInv
<1>2. ASSUME NEW S \in SUBSET Device, replace_resources(S)  PROVE IInv'
  BY <1>1, <1>2 DEF replace_resources
<1>3. ASSUME NEW d \in Device, NEW on \in BOOLEAN, upsert_resources(d, on)  PROVE IInv'
  BY <1>1, <1>3 DEF upsert_resources
<1>4. ASSUME sweep_stale  PROVE IInv'
  BY <1>4, LosingInv DEF sweep_stale
<1>5. ASSUME NEW o \in Background \cup Service, NEW p \in Proc, NEW req \in Request,
             NEW cls, ReserveGranted(o, p, req, cls)
      PROVE  IInv'
  <2>1. PICK c \in select(req) : held' = [SweptHeld EXCEPT ![o] = c]
    BY <1>5 DEF ReserveGranted
  <2>2. c \in SUBSET Resource /\ c \cap active_resource_ids = {}
    BY CandidateType DEF select
  <2>3. \A x \in Owner : SweptHeld[x] \cap c = {}
    BY <2>2 DEF active_resource_ids
  <2>4. o \in Owner /\ o \notin Foreground
    BY OwnerAssumption DEF Owner
  <2>5. ~protected[o]
    BY <1>5, <2>4 DEF ReserveGranted, IInv, ProtectedHoldsResidents
  <2> QED
    BY <1>5, <2>1, <2>2, <2>3, <2>4, <2>5, AcquiringInv DEF ReserveGranted, InsertOwner
<1>6. ASSUME NEW p \in Proc, NEW req \in Request, NEW cls, ReserveRefused(p, req, cls)
      PROVE  IInv'
  <2>1. /\ state' = SweptState /\ held' = SweptHeld /\ intents' = SweptIntents
        /\ UNCHANGED <<bundle, residencyVars, envVars>>
    BY <1>6 DEF ReserveRefused
  <2> QED
    BY <2>1, LosingInv
<1>7. ASSUME NEW o \in Foreground, NEW p \in Proc, NEW req \in Request, NEW cls,
             begin_foreground(o, p, req, cls)
      PROVE  IInv'
  <2>1. o \in Owner /\ SweptHeld[o] = {} /\ ~protected[o]
    BY <1>7 DEF Owner, begin_foreground, IInv, RowsHaveLiveOwners, ProtectedHoldsResidents
  <2>2. PICK c : bundle' = [bundle EXCEPT ![o] = c]
    BY <1>7 DEF begin_foreground
  <2>3. /\ held' = SweptHeld
        /\ state' = [SweptState EXCEPT ![o] = "intent"]
        /\ intents' = SweptIntents \cup {o}
        /\ UNCHANGED <<residencyVars, envVars>>
    BY <1>7 DEF begin_foreground, InsertOwner
  <2>4. Exclusive'
    BY <2>3 DEF IInv, Exclusive
  <2>5. RowsHaveLiveOwners'
    BY <2>1, <2>3 DEF RowsHaveLiveOwners, Live
  <2>6. ForegroundHoldsBundle'
    BY <2>1, <2>2, <2>3 DEF IInv, ForegroundHoldsBundle, Owner, TypeOK
  <2>7. \A x \in Owner : protected[x] => state'[x] = state[x] /\ held'[x] = held[x]
    BY <2>1, <2>3
  <2> QED
    BY <2>3, <2>4, <2>5, <2>6, <2>7, ResidencyFrame DEF IInv
<1>8. ASSUME NEW o \in Foreground, activate_foreground(o)  PROVE IInv'
  <2>1. o \in Owner /\ ~protected[o] /\ bundle[o] \in SUBSET Resource
    BY OwnerAssumption DEF Owner, IInv, ProtectedHoldsResidents, TypeOK
  <2>2. \A x \in Owner : SweptHeld[x] \cap bundle[o] = {}
    BY <1>8 DEF activate_foreground, Occupied
  <2> QED
    BY <1>8, <2>1, <2>2, AcquiringInv DEF activate_foreground
<1>9. ASSUME NEW o \in Foreground, ActivateRefused(o)  PROVE IInv'
  BY <1>4, <1>9 DEF ActivateRefused
<1> QED
  BY <1>2, <1>3, <1>4, <1>5, <1>6, <1>7, <1>8, <1>9
     DEF InventoryNext, AdmissionNext, reserve_background, reserve_service

LEMMA OwnerInv ==
    ASSUME TypeOK, IInv, OwnerNext \/ ResidencyNext
    PROVE  IInv'
<1>1. ASSUME NEW S \in SUBSET Owner, NEW s \in OwnerState, release_locked(S, s),
             UNCHANGED <<enabled, pid, preempt, class, threads, bundle, residencyVars, envVars>>
      PROVE  IInv'
  BY <1>1, AfterFacts, LosingInv DEF release_locked
<1>2. ASSUME NEW p \in Proc, NEW known \in SUBSET Core4,
             reconcile_current_service_owners(p, known)
      PROVE  IInv'
  <2>1. Orphans(p, known) \in SUBSET Owner /\ "orphaned" \in OwnerState
    BY OwnerAssumption DEF Orphans, Owner, OwnerState
  <2> QED
    BY <1>1, <1>2, <2>1 DEF reconcile_current_service_owners
<1>3. ASSUME NEW o \in Owner, release(o) \/ LegacyRelease(o) \/ drain_if_requested(o)
      PROVE  IInv'
  <2>1. {o} \in SUBSET Owner /\ "released" \in OwnerState
    BY DEF OwnerState
  <2> QED
    BY <1>1, <1>3, <2>1 DEF release, LegacyRelease, drain_if_requested
<1>4. ASSUME UNCHANGED <<state, rowVars, residencyVars, envVars>>  PROVE IInv'
  <2>1. /\ \A o \in Owner : held[o] # {} => state[o] = "active"
        /\ \A o \in intents : state[o] \in Live
    BY DEF IInv, RowsHaveLiveOwners
  <2> QED
    BY <1>4, <2>1, LosingInv DEF rowVars
<1>5. ASSUME NEW o \in Owner, NEW p \in Proc, heartbeat(o, p)  PROVE IInv'
  BY <1>4, <1>5 DEF heartbeat
<1>6. ASSUME NEW o \in Owner, NEW cls, set_priority(o, cls)  PROVE IInv'
  BY <1>4, <1>6 DEF set_priority
<1>7. ASSUME NEW o \in Owner, request_preemption(o)  PROVE IInv'
  BY <1>4, <1>7 DEF request_preemption
<1>8. ASSUME NEW o \in Core4, NEW p \in Proc, protect_residency(o, p)  PROVE IInv'
  <2>1. UNCHANGED <<state, held, bundle, intents, proc, spawned, observed>> /\ o \in Owner
    BY <1>8, OwnerAssumption DEF protect_residency, ownerVars, rowVars, envVars, Owner
  <2>2. Exclusive' /\ RowsHaveLiveOwners' /\ ForegroundHoldsBundle'
    BY <2>1 DEF IInv, Exclusive, RowsHaveLiveOwners, ForegroundHoldsBundle
  <2>3. ProtectedHoldsResidents'
    BY <1>8, <2>1 DEF protect_residency, IInv, ProtectedHoldsResidents, TypeOK
  <2>4. ModelProtected'
    BY <1>8, <2>1 DEF protect_residency, IInv, ModelProtected, TypeOK, alive
  <2> QED
    BY <2>2, <2>3, <2>4 DEF IInv
<1>9. ASSUME NEW o \in Core4, NEW p \in Proc, record_residency_process(o, p, spawned[o])
      PROVE  IInv'
  <2>1. UNCHANGED <<state, held, bundle, intents, protected, residents, proc, spawned, observed>>
    BY <1>9 DEF record_residency_process, rowVars, envVars
  <2> QED
    BY <2>1 DEF IInv, Exclusive, RowsHaveLiveOwners, ForegroundHoldsBundle,
       ProtectedHoldsResidents, ModelProtected, alive
<1>10. ASSUME NEW o \in Core4, NEW p \in Proc, ReleaseProtected(o, p)  PROVE IInv'
  <2>1. o \in Owner
    BY OwnerAssumption DEF Owner
  <2>2. ~alive(spawned[o])
    BY <1>10, <2>1 DEF ReleaseProtected, verify_residency_release, IInv, ModelProtected
  <2>3. /\ held' = [held EXCEPT ![o] = {}]
        /\ state' = [state EXCEPT ![o] = "released"]
        /\ protected' = [protected EXCEPT ![o] = FALSE]
        /\ intents' = intents \ {o}
        /\ UNCHANGED <<bundle, residents, proc, spawned, observed>>
    BY <1>10 DEF ReleaseProtected, envVars
  <2>4. Exclusive' /\ RowsHaveLiveOwners' /\ ForegroundHoldsBundle'
    BY <2>1, <2>3 DEF IInv, Exclusive, RowsHaveLiveOwners, ForegroundHoldsBundle, TypeOK, Owner
  <2>5. ProtectedHoldsResidents'
    BY <2>1, <2>3 DEF IInv, ProtectedHoldsResidents, TypeOK
  <2>6. ModelProtected'
    BY <2>1, <2>2, <2>3 DEF IInv, ModelProtected, TypeOK, alive
  <2> QED
    BY <2>4, <2>5, <2>6 DEF IInv
<1> QED
  BY <1>2, <1>3, <1>5, <1>6, <1>7, <1>8, <1>9, <1>10 DEF OwnerNext, ResidencyNext

LEMMA EnvironmentInv ==
    ASSUME TypeOK, IInv, EnvironmentNext
    PROVE  IInv'
<1>1. UNCHANGED <<state, held, bundle, intents, protected, residents>>
  BY DEF EnvironmentNext, Tick, Die, SpawnModel, ObserveQuiescence, ObservationExpires,
     ownerVars, rowVars, residencyVars
<1>2. Exclusive' /\ RowsHaveLiveOwners' /\ ForegroundHoldsBundle' /\ ProtectedHoldsResidents'
  BY <1>1 DEF IInv, Exclusive, RowsHaveLiveOwners, ForegroundHoldsBundle, ProtectedHoldsResidents
<1>3. ModelProtected'
  <2>1. ASSUME Tick  PROVE ModelProtected'
    BY <1>1, <2>1 DEF Tick, envVars, IInv, ModelProtected, alive
  <2>2. ASSUME NEW p \in Proc, Die(p)  PROVE ModelProtected'
    BY <1>1, <2>2 DEF Die, IInv, ModelProtected, alive, TypeOK
  <2>3. ASSUME NEW o \in Core4, NEW m \in Proc, SpawnModel(o, m)  PROVE ModelProtected'
    BY <1>1, <2>3, EnvironmentAssumption DEF SpawnModel, IInv, ModelProtected, alive, TypeOK
  <2>4. ASSUME NEW o \in Core4, ObserveQuiescence(o) \/ ObservationExpires(o)
        PROVE  ModelProtected'
    BY <1>1, <2>4 DEF ObserveQuiescence, ObservationExpires, IInv, ModelProtected, alive
  <2> QED
    BY <2>1, <2>2, <2>3, <2>4 DEF EnvironmentNext
<1> QED
  BY <1>2, <1>3 DEF IInv

(* The inductive invariant holds of every reachable state. *)
THEOREM Invariance == Spec => []IInv
<1>1. Init => IInv
  BY DEF Init, IInv, Exclusive, RowsHaveLiveOwners, ForegroundHoldsBundle,
     ProtectedHoldsResidents, ModelProtected, alive, Owner
<1>2. TypeOK /\ IInv /\ [Next]_vars => IInv'
  <2>1. TypeOK /\ IInv /\ Next => IInv'
    BY AdmissionInv, OwnerInv, EnvironmentInv DEF Next
  <2>2. IInv /\ UNCHANGED vars => IInv'
    BY DEF IInv, Exclusive, RowsHaveLiveOwners, ForegroundHoldsBundle,
       ProtectedHoldsResidents, ModelProtected, alive, vars, ownerVars, rowVars,
       residencyVars, envVars
  <2> QED
    BY <2>1, <2>2
<1> QED
  BY <1>1, <1>2, TypeCorrect, PTL DEF Spec

(* No two owners ever hold the same device or interference domain, even    *)
(* when an intent is activated after its owner was swept or released.      *)
THEOREM MutualExclusion == Spec => []Exclusive
<1>1. IInv => Exclusive
  BY DEF IInv
<1> QED
  BY <1>1, Invariance, PTL

(* No release path leaves a reservation or intent row without a live owner. *)
THEOREM NoDanglingRows == Spec => []RowsHaveLiveOwners
<1>1. IInv => RowsHaveLiveOwners
  BY DEF IInv
<1> QED
  BY <1>1, Invariance, PTL

(* A running model process keeps its devices through supervisor crashes,   *)
(* sweeps, reconciliations, preemption requests and old clients.           *)
THEOREM ResidencySafety == Spec => []ModelKeepsDevices
<1>1. IInv => ModelKeepsDevices
  BY OwnerAssumption
     DEF IInv, ModelProtected, ProtectedHoldsResidents, ModelKeepsDevices, Owner
<1> QED
  BY <1>1, Invariance, PTL

-----------------------------------------------------------------------------
(* Action properties. *)

(* Which resources a step may add to an owner: only an admission adds any, *)
(* and then a bundle that is neither held nor named by an active intent.   *)
LEMMA GainedResources ==
    ASSUME TypeOK, IInv, Next, NEW o \in Background \cup Service, NEW i \in intents'
    PROVE  (held'[o] \ held[o]) \cap bundle'[i] = {}
<1> USE SweptType, SweptFacts
<1> o \in Owner
  BY DEF Owner
<1>1. ASSUME held'[o] \subseteq held[o]  PROVE (held'[o] \ held[o]) \cap bundle'[i] = {}
  BY <1>1
<1>2. CASE InventoryNext
  BY <1>1, <1>2 DEF InventoryNext, replace_resources, upsert_resources, rowVars
<1>3. CASE AdmissionNext
  <2>1. ASSUME held' = SweptHeld  PROVE (held'[o] \ held[o]) \cap bundle'[i] = {}
    BY <1>1, <2>1
  <2>2. CASE sweep_stale
    BY <2>1, <2>2 DEF sweep_stale
  <2>3. ASSUME NEW x \in Background \cup Service, NEW p \in Proc, NEW req \in Request,
               NEW cls, ReserveGranted(x, p, req, cls)
        PROVE  (held'[o] \ held[o]) \cap bundle'[i] = {}
    <3>1. PICK c \in select(req) : held' = [SweptHeld EXCEPT ![x] = c]
      BY <2>3 DEF ReserveGranted
    <3>2. intents' = SweptIntents /\ bundle' = bundle
      BY <2>3 DEF ReserveGranted
    <3>3. c \cap bundle'[i] = {}
      BY <3>2 DEF select, active_resource_ids
    <3> QED
      BY <3>1, <3>3
  <2>4. ASSUME NEW p \in Proc, NEW req \in Request, NEW cls, ReserveRefused(p, req, cls)
        PROVE  (held'[o] \ held[o]) \cap bundle'[i] = {}
    BY <2>1, <2>4 DEF ReserveRefused
  <2>5. ASSUME NEW x \in Foreground, NEW p \in Proc, NEW req \in Request, NEW cls,
               begin_foreground(x, p, req, cls)
        PROVE  (held'[o] \ held[o]) \cap bundle'[i] = {}
    BY <2>1, <2>5 DEF begin_foreground
  <2>6. ASSUME NEW x \in Foreground, activate_foreground(x)
        PROVE  (held'[o] \ held[o]) \cap bundle'[i] = {}
    BY <1>1, <2>6, OwnerAssumption DEF activate_foreground
  <2>7. ASSUME NEW x \in Foreground, ActivateRefused(x)
        PROVE  (held'[o] \ held[o]) \cap bundle'[i] = {}
    BY <2>2, <2>7 DEF ActivateRefused
  <2> QED
    BY <1>3, <2>2, <2>3, <2>4, <2>5, <2>6, <2>7
       DEF AdmissionNext, reserve_background, reserve_service
<1>4. CASE OwnerNext
  <2>1. ASSUME NEW S, HeldAfter(S)[o] \subseteq held[o], held' = HeldAfter(S)
        PROVE  (held'[o] \ held[o]) \cap bundle'[i] = {}
    BY <1>1, <2>1
  <2>2. ASSUME NEW S  PROVE HeldAfter(S)[o] \subseteq held[o]
    BY DEF HeldAfter
  <2>3. ASSUME NEW S, NEW st, release_locked(S, st)
        PROVE  (held'[o] \ held[o]) \cap bundle'[i] = {}
    BY <2>1, <2>2, <2>3 DEF release_locked
  <2>4. held' = held \/ \E S, st : release_locked(S, st)
    BY <1>4 DEF OwnerNext, reconcile_current_service_owners, heartbeat, set_priority,
       request_preemption, release, LegacyRelease, drain_if_requested, rowVars
  <2> QED
    BY <1>1, <2>3, <2>4
<1>5. CASE ResidencyNext
  <2>1. held' = held \/ \E x \in Core4 : held' = [held EXCEPT ![x] = {}]
    BY <1>5 DEF ResidencyNext, protect_residency, record_residency_process,
       ReleaseProtected, rowVars
  <2> QED
    BY <1>1, <2>1 DEF TypeOK
<1>6. CASE EnvironmentNext
  BY <1>1, <1>6 DEF EnvironmentNext, Tick, Die, SpawnModel, ObserveQuiescence,
     ObservationExpires, rowVars
<1> QED
  BY <1>2, <1>3, <1>4, <1>5, <1>6 DEF Next

(* A foreground intent keeps background and service admissions away from   *)
(* its bundle, also from what a preempted owner gives back.                *)
THEOREM ForegroundFence == Spec => IntentFence
<1>1. TypeOK /\ IInv /\ [Next]_vars =>
        [\A o \in Background \cup Service, i \in intents' :
            (held'[o] \ held[o]) \cap bundle'[i] = {}]_vars
  BY GainedResources
<1> QED
  BY <1>1, TypeCorrect, Invariance, PTL DEF Spec, IntentFence

(* Once an owner is told to drain, neither it nor anyone else withdraws    *)
(* the request or raises its priority before it releases.                  *)
THEOREM PreemptionIsFinal == Spec => PreemptionStands
<1>1. ASSUME TypeOK, Next, NEW o \in Owner, preempt[o], state[o] = "active"
      PROVE  preempt'[o] /\ class'[o] = class[o]
  <2>1. preempt'[o]
    <3>1. \/ preempt' = preempt
          \/ \E V : preempt' = [x \in Owner |-> preempt[x] \/ x \in V]
          \/ \E x : preempt' = [preempt EXCEPT ![x] = TRUE]
      <4>1. CASE InventoryNext
        BY <4>1 DEF InventoryNext, replace_resources, upsert_resources, ownerVars
      <4>2. CASE AdmissionNext
        BY <4>2 DEF AdmissionNext, sweep_stale, reserve_background, reserve_service,
           ReserveGranted, ReserveRefused, begin_foreground, activate_foreground,
           ActivateRefused
      <4>3. CASE OwnerNext
        BY <4>3 DEF OwnerNext, reconcile_current_service_owners, heartbeat, set_priority,
           request_preemption, release, LegacyRelease, drain_if_requested
      <4>4. CASE ResidencyNext
        BY <4>4 DEF ResidencyNext, protect_residency, record_residency_process,
           ReleaseProtected, ownerVars
      <4>5. CASE EnvironmentNext
        BY <4>5 DEF EnvironmentNext, Tick, Die, SpawnModel, ObserveQuiescence,
           ObservationExpires, ownerVars
      <4> QED
        BY <1>1, <4>1, <4>2, <4>3, <4>4, <4>5 DEF Next
    <3> QED
      BY <1>1, <3>1 DEF TypeOK
  <2>2. class'[o] = class[o]
    <3>1. \/ class' = class
          \/ \E x \in Owner : x # o /\ \E cls : class' = [class EXCEPT ![x] = cls]
      <4>1. CASE InventoryNext
        BY <4>1 DEF InventoryNext, replace_resources, upsert_resources, ownerVars
      <4>2. CASE AdmissionNext
        BY <1>1, <4>2 DEF AdmissionNext, sweep_stale, reserve_background, reserve_service,
           ReserveGranted, ReserveRefused, begin_foreground, activate_foreground,
           ActivateRefused, InsertOwner, Owner
      <4>3. CASE OwnerNext
        BY <1>1, <4>3 DEF OwnerNext, reconcile_current_service_owners, heartbeat,
           set_priority, request_preemption, release, LegacyRelease, drain_if_requested
      <4>4. CASE ResidencyNext
        BY <4>4 DEF ResidencyNext, protect_residency, record_residency_process,
           ReleaseProtected, ownerVars
      <4>5. CASE EnvironmentNext
        BY <4>5 DEF EnvironmentNext, Tick, Die, SpawnModel, ObserveQuiescence,
           ObservationExpires, ownerVars
      <4> QED
        BY <1>1, <4>1, <4>2, <4>3, <4>4, <4>5 DEF Next
    <3> QED
      BY <1>1, <3>1 DEF TypeOK
  <2> QED
    BY <2>1, <2>2
<1>2. TypeOK /\ [Next]_vars =>
        [\A o \in Owner :
            preempt[o] /\ state[o] = "active" /\ state'[o] = "active"
                => preempt'[o] /\ class'[o] = class[o]]_vars
  BY <1>1
<1> QED
  BY <1>2, TypeCorrect, PTL DEF Spec, PreemptionStands

-----------------------------------------------------------------------------
(* Admission control.  A sum over the owners means something only while    *)
(* the live ones are finitely many, which every step preserves: it admits  *)
(* at most one owner.                                                      *)

LiveOwners    == {o \in Owner : state[o] \in Live}
LiveAdmitted  == {o \in Background \cup Service : state[o] \in Live}
AdmissionIInv == IsFiniteSet(LiveOwners) /\ BackgroundWithinLimit

(* A step that admits no background or service owner and rewrites no       *)
(* declared load; one foreground owner f may become live.                  *)
LEMMA NotAdmitting ==
    ASSUME TypeOK, AdmissionIInv, NEW f,
           LiveOwners' \subseteq LiveOwners \cup {f},
           LiveAdmitted' \subseteq LiveAdmitted,
           \A o \in Background \cup Service : threads'[o] = threads[o]
    PROVE  AdmissionIInv'
<1> DEFINE A == LiveAdmitted
           B == LiveAdmitted'
<1>1. IsFiniteSet(LiveOwners')
  BY FS_AddElement, FS_Subset DEF AdmissionIInv
<1>2. A \subseteq LiveOwners /\ IsFiniteSet(A) /\ IsFiniteSet(B)
  BY FS_Subset DEF AdmissionIInv, LiveAdmitted, LiveOwners, Owner
<1>3. /\ \A o \in A : threads[o] \in Nat
      /\ \A o \in B : threads'[o] = threads[o]
  BY DEF LiveAdmitted, TypeOK, Owner
<1>4. SumFunctionOnSet(threads, B) <= SumFunctionOnSet(threads, A)
  BY <1>2, <1>3, SumMonotone
<1>5. SumFunctionOnSet(threads', B) = SumFunctionOnSet(threads, B)
  BY <1>2, <1>3, SumAgrees
<1>6. /\ SumFunctionOnSet(threads, A) \in Nat
      /\ SumFunctionOnSet(threads, B) \in Nat
  <2>1. \A o \in B : threads[o] \in Nat
    BY <1>3
  <2> QED
    BY <1>2, <1>3, <2>1, SumType
<1>7. SumFunctionOnSet(threads, A) <= CpuLimit
  BY DEF AdmissionIInv, BackgroundWithinLimit, Load, LiveAdmitted
<1>8. SumFunctionOnSet(threads', B) <= CpuLimit
  <2>1. CpuLimit \in Nat
    BY EnvironmentAssumption
  <2> HIDE DEF A, B
  <2> QED
    BY <1>4, <1>5, <1>6, <1>7, <2>1
<1> QED
  BY <1>1, <1>8 DEF AdmissionIInv, BackgroundWithinLimit, Load, LiveAdmitted

(* The step that admits one: its own load and that of every live owner     *)
(* were weighed against the limit in the same transaction.                 *)
LEMMA Admitting ==
    ASSUME TypeOK, AdmissionIInv, NEW o \in Background \cup Service, NEW p,
           NEW req \in Request, NEW cls, ReserveGranted(o, p, req, cls)
    PROVE  AdmissionIInv'
<1> DEFINE S == {x \in Owner : SweptState[x] \in Live}
           B == LiveAdmitted'
           n == request_threads(req)
<1>1. o \in Owner /\ n \in Nat /\ CpuLimit \in Nat
  BY EnvironmentAssumption DEF Owner, request_threads, RequestType
<1>2. /\ state' = [SweptState EXCEPT ![o] = "active"]
      /\ threads' = [threads EXCEPT ![o] = n]
      /\ SumFunctionOnSet(threads, S) + n <= CpuLimit
  BY DEF ReserveGranted, InsertOwner, select, pressure_available, Load
<1>3. S \subseteq LiveOwners
  BY DEF SweptState, StateAfter, LiveOwners, Live
<1>4. LiveOwners' \subseteq LiveOwners \cup {o}
  BY <1>1, <1>2, <1>3, SweptType DEF LiveOwners
<1>5. o \in B /\ B \ {o} \subseteq S
  BY <1>1, <1>2, SweptType DEF LiveAdmitted, Live, Owner
<1>6. B \subseteq LiveOwners'
  BY DEF LiveAdmitted, LiveOwners, Owner
<1>7. IsFiniteSet(LiveOwners') /\ IsFiniteSet(S) /\ IsFiniteSet(B) /\ IsFiniteSet(B \ {o})
  BY <1>3, <1>4, <1>6, FS_AddElement, FS_Subset DEF AdmissionIInv
<1>8. /\ \A x \in B : threads'[x] \in Int
      /\ \A x \in B \ {o} : threads'[x] = threads[x] /\ threads[x] \in Nat
      /\ \A x \in S : threads[x] \in Nat
      /\ threads'[o] = n
  BY <1>1, <1>2, <1>6 DEF TypeOK, LiveOwners
<1> DEFINE all == SumFunctionOnSet(threads', B)
           others == SumFunctionOnSet(threads', B \ {o})
           before == SumFunctionOnSet(threads, B \ {o})
           load == SumFunctionOnSet(threads, S)
<1>9. all = threads'[o] + others
  BY <1>5, <1>7, <1>8, SumRemove
<1>10. others = before
  BY <1>7, <1>8, SumAgrees
<1>11. before <= load
  BY <1>5, <1>7, <1>8, SumMonotone
<1>12. before \in Nat /\ load \in Nat
  BY <1>7, <1>8, SumType
<1>13. all <= CpuLimit
  <2>1. load + n <= CpuLimit /\ threads'[o] = n
    BY <1>2, <1>8
  <2> HIDE DEF all, others, before, load, n
  <2> QED
    BY <1>1, <1>9, <1>10, <1>11, <1>12, <2>1
<1> QED
  BY <1>7, <1>13 DEF AdmissionIInv, BackgroundWithinLimit, Load, LiveAdmitted

LEMMA AdmissionStep ==
    ASSUME TypeOK, AdmissionIInv, Next
    PROVE  AdmissionIInv'
<1>1. ASSUME \A o \in Owner : state'[o] \in Live => state[o] \in Live, threads' = threads
      PROVE  AdmissionIInv'
  <2>1. LiveOwners' \subseteq LiveOwners \cup {NoProc} /\ LiveAdmitted' \subseteq LiveAdmitted
    BY <1>1 DEF LiveOwners, LiveAdmitted, Owner
  <2> QED
    BY <1>1, <2>1, NotAdmitting
<1>2. \A S, s, o : /\ o \in Owner
                   /\ s \notin Live
                   /\ StateAfter(S, s)[o] \in Live
                   => state[o] \in Live
  BY DEF StateAfter
<1>3. \A o \in Owner : SweptState[o] \in Live => state[o] \in Live
  BY <1>2 DEF SweptState, Live
<1>4. ASSUME NEW f \in Foreground, NEW s,
             state' = [SweptState EXCEPT ![f] = s],
             \A o \in Owner \ {f} : threads'[o] = threads[o]
      PROVE  AdmissionIInv'
  <2>1. f \notin Background \cup Service
    BY OwnerAssumption
  <2>2. /\ LiveOwners' \subseteq LiveOwners \cup {f}
        /\ LiveAdmitted' \subseteq LiveAdmitted
    BY <1>3, <1>4, <2>1, SweptType DEF LiveOwners, LiveAdmitted, Owner
  <2>3. \A o \in Background \cup Service : threads'[o] = threads[o]
    BY <1>4, <2>1 DEF Owner
  <2> QED
    BY <2>2, <2>3, NotAdmitting
<1>5. CASE InventoryNext
  BY <1>1, <1>5 DEF InventoryNext, replace_resources, upsert_resources, ownerVars
<1>6. CASE AdmissionNext
  <2>1. ASSUME state' = SweptState, threads' = threads  PROVE AdmissionIInv'
    BY <1>1, <1>3, <2>1
  <2>2. ASSUME NEW o \in Background \cup Service, NEW p \in Proc, NEW req \in Request, NEW cls,
               ReserveGranted(o, p, req, cls) \/ ReserveRefused(p, req, cls)
        PROVE  AdmissionIInv'
    BY <2>1, <2>2, Admitting DEF ReserveRefused
  <2>3. ASSUME NEW o \in Foreground, NEW p \in Proc, NEW req \in Request, NEW cls,
               begin_foreground(o, p, req, cls)
        PROVE  AdmissionIInv'
    <3>1. /\ state' = [SweptState EXCEPT ![o] = "intent"]
          /\ threads' = [threads EXCEPT ![o] = req.cpu_threads]
      BY <2>3 DEF begin_foreground, InsertOwner
    <3>2. \A x \in Owner \ {o} : threads'[x] = threads[x]
      BY <3>1 DEF TypeOK
    <3> QED
      BY <1>4, <3>1, <3>2
  <2>4. ASSUME NEW o \in Foreground, activate_foreground(o)  PROVE AdmissionIInv'
    BY <1>4, <2>4 DEF activate_foreground
  <2>5. ASSUME NEW o \in Foreground, ActivateRefused(o)  PROVE AdmissionIInv'
    BY <2>1, <2>5 DEF ActivateRefused, sweep_stale
  <2>6. sweep_stale => AdmissionIInv'
    BY <2>1 DEF sweep_stale
  <2> QED
    BY <1>6, <2>2, <2>3, <2>4, <2>5, <2>6
       DEF AdmissionNext, reserve_background, reserve_service
<1>7. CASE OwnerNext
  <2>1. threads' = threads
    BY <1>7 DEF OwnerNext, reconcile_current_service_owners, heartbeat, set_priority,
       request_preemption, release, LegacyRelease, drain_if_requested
  <2>2. state' = state \/ \E S : \E s \in {"orphaned", "released"} : state' = StateAfter(S, s)
    BY <1>7 DEF OwnerNext, reconcile_current_service_owners, heartbeat, set_priority,
       request_preemption, release, LegacyRelease, drain_if_requested, release_locked
  <2> QED
    BY <1>1, <1>2, <2>1, <2>2 DEF Live
<1>8. CASE ResidencyNext
  <2>1. threads' = threads
    BY <1>8 DEF ResidencyNext, protect_residency, record_residency_process,
       ReleaseProtected, ownerVars
  <2>2. state' = state \/ \E o \in Core4 : state' = [state EXCEPT ![o] = "released"]
    BY <1>8 DEF ResidencyNext, protect_residency, record_residency_process,
       ReleaseProtected, ownerVars
  <2>3. \A o \in Owner : state'[o] \in Live => state[o] \in Live
    BY <2>2 DEF TypeOK, Live
  <2> QED
    BY <1>1, <2>1, <2>3
<1>9. CASE EnvironmentNext
  BY <1>1, <1>9 DEF EnvironmentNext, Tick, Die, SpawnModel, ObserveQuiescence,
     ObservationExpires, ownerVars
<1> QED
  BY <1>5, <1>6, <1>7, <1>8, <1>9 DEF Next

(* Whatever order admissions, sweeps, releases and revived intents come    *)
(* in, the load of the background and service owners that _reserve_locked  *)
(* admitted stays within the CPU limit; foreground owners, which are       *)
(* admitted regardless, only count against later admissions.               *)
THEOREM AdmissionControl == Spec => []BackgroundWithinLimit
<1>1. Init => AdmissionIInv
  <2> SUFFICES ASSUME Init PROVE AdmissionIInv
    OBVIOUS
  <2>1. LiveOwners = {} /\ LiveAdmitted = {}
    BY DEF Init, LiveOwners, LiveAdmitted, Live, Owner
  <2>2. SumFunctionOnSet(threads, LiveAdmitted) <= CpuLimit
    BY <2>1, SumEmpty, EnvironmentAssumption
  <2> QED
    BY <2>1, <2>2, FS_EmptySet DEF AdmissionIInv, BackgroundWithinLimit, Load, LiveAdmitted
<1>2. TypeOK /\ AdmissionIInv /\ [Next]_vars => AdmissionIInv'
  <2>1. UNCHANGED vars /\ AdmissionIInv => AdmissionIInv'
    BY DEF vars, ownerVars, AdmissionIInv, LiveOwners, BackgroundWithinLimit, Load
  <2> QED
    BY <2>1, AdmissionStep
<1>3. AdmissionIInv => BackgroundWithinLimit
  BY DEF AdmissionIInv
<1> QED
  BY <1>1, <1>2, <1>3, TypeCorrect, PTL DEF Spec

-----------------------------------------------------------------------------
(* The coordinator implements ResourceLeases. *)

LEMMA LosingImplements ==
    ASSUME TypeOK, IInv, NEW S \in SUBSET Owner, held' = HeldAfter(S), protected' = protected
    PROVE  Leases!Next
<1>1. Released(S) \in SUBSET Owner
  BY DEF Released
<1>2. Released(S) \cap {o \in Owner : protected[o]} = {}
  BY DEF Released, Guarded, IInv, ProtectedHoldsResidents
<1>3. held' = Leases!Remaining(Released(S))
  BY DEF HeldAfter, Leases!Remaining
<1>4. Leases!Lose(Released(S))
  BY <1>2, <1>3 DEF Leases!Lose
<1> QED
  BY <1>1, <1>4 DEF Leases!Next

LEMMA AcquiringImplements ==
    ASSUME TypeOK, IInv, NEW o \in Owner, NEW c \in SUBSET Resource,
           SweptHeld[o] = {}, \A x \in Owner : SweptHeld[x] \cap c = {},
           held' = [SweptHeld EXCEPT ![o] = c], protected' = protected
    PROVE  Leases!Next
<1> DEFINE R == Released(Expired)
<1>1. R \in SUBSET Owner
  BY DEF Released, Expired
<1>2. R \cap {x \in Owner : protected[x]} = {}
  BY DEF Released, Guarded, IInv, ProtectedHoldsResidents
<1>3. Leases!Remaining(R) = SweptHeld
  BY DEF SweptHeld, HeldAfter, Leases!Remaining
<1>4. Leases!Acquire(R, o, c)
  BY <1>2, <1>3 DEF Leases!Acquire
<1> QED
  BY <1>1, <1>4 DEF Leases!Next

(* Every operation of the coordinator is a step of the lease service or    *)
(* changes no lease: admissions acquire, sweeps, releases and orphan       *)
(* reconciliation lose, protect_residency pins and its verified release    *)
(* unpins.                                                                 *)
THEOREM LeaseRefinement == Spec => ImplementsLeases
<1>1. Init => Leases!Init
  BY DEF Init, Leases!Init
<1>2. ASSUME TypeOK, IInv, Next
      PROVE  Leases!Next \/ (held' = held /\ protected' = protected)
  <2> USE SweptType, SweptFacts
  <2>1. CASE InventoryNext
    BY <2>1 DEF InventoryNext, replace_resources, upsert_resources, rowVars, residencyVars
  <2>2. CASE AdmissionNext
    <3>1. ASSUME held' = SweptHeld, protected' = protected  PROVE Leases!Next
      BY <3>1, <1>2, LosingImplements DEF SweptHeld, Expired
    <3>2. ASSUME sweep_stale  PROVE Leases!Next
      BY <3>1, <3>2 DEF sweep_stale, residencyVars
    <3>3. ASSUME NEW o \in Background \cup Service, NEW p \in Proc, NEW req \in Request,
                 NEW cls, ReserveGranted(o, p, req, cls)
          PROVE  Leases!Next
      <4>1. PICK c \in select(req) : held' = [SweptHeld EXCEPT ![o] = c]
        BY <3>3 DEF ReserveGranted
      <4>2. c \in SUBSET Resource /\ \A x \in Owner : SweptHeld[x] \cap c = {}
        BY <1>2, CandidateType DEF select, active_resource_ids
      <4>3. o \in Owner /\ SweptHeld[o] = {} /\ protected' = protected
        BY <1>2, <3>3 DEF ReserveGranted, Owner, IInv, RowsHaveLiveOwners, residencyVars
      <4> QED
        BY <1>2, <4>1, <4>2, <4>3, AcquiringImplements
    <3>4. ASSUME NEW p \in Proc, NEW req \in Request, NEW cls, ReserveRefused(p, req, cls)
          PROVE  Leases!Next
      BY <3>1, <3>4 DEF ReserveRefused, residencyVars
    <3>5. ASSUME NEW o \in Foreground, NEW p \in Proc, NEW req \in Request, NEW cls,
                 begin_foreground(o, p, req, cls)
          PROVE  Leases!Next
      BY <3>1, <3>5 DEF begin_foreground, residencyVars
    <3>6. ASSUME NEW o \in Foreground, activate_foreground(o)  PROVE Leases!Next
      <4>1. o \in Owner /\ bundle[o] \in SUBSET Resource /\ held[o] \subseteq bundle[o]
        BY <1>2 DEF Owner, TypeOK, IInv, ForegroundHoldsBundle
      <4>2. \A x \in Owner : SweptHeld[x] \cap bundle[o] = {}
        BY <3>6 DEF activate_foreground, Occupied
      <4>3. SweptHeld[o] = {}
        BY <1>2, <4>1, <4>2
      <4> QED
        BY <1>2, <3>6, <4>1, <4>2, <4>3, AcquiringImplements
           DEF activate_foreground, residencyVars
    <3>7. ASSUME NEW o \in Foreground, ActivateRefused(o)  PROVE Leases!Next
      BY <3>2, <3>7 DEF ActivateRefused
    <3> QED
      BY <2>2, <3>2, <3>3, <3>4, <3>5, <3>6, <3>7
         DEF AdmissionNext, reserve_background, reserve_service
  <2>3. CASE OwnerNext
    <3>1. \/ held' = held /\ protected' = protected
          \/ \E S \in SUBSET Owner :
                (\E s : release_locked(S, s)) /\ protected' = protected
      <4>1. \A p, known : Orphans(p, known) \in SUBSET Owner
        BY OwnerAssumption DEF Orphans, Owner
      <4> QED
        BY <2>3, <4>1 DEF OwnerNext, reconcile_current_service_owners, heartbeat,
           set_priority, request_preemption, release, LegacyRelease, drain_if_requested,
           rowVars, residencyVars
    <3> QED
      BY <1>2, <3>1, LosingImplements DEF release_locked
  <2>4. CASE ResidencyNext
    <3>1. ASSUME NEW o \in Core4, NEW p \in Proc, protect_residency(o, p)  PROVE Leases!Next
      <4>1. o \in Owner /\ held[o] # {} /\ held' = held
        BY <3>1, OwnerAssumption DEF protect_residency, Owner, rowVars
      <4>2. {x \in Owner : protected'[x]} = {x \in Owner : protected[x]} \cup {o}
        BY <1>2, <3>1, <4>1 DEF protect_residency, TypeOK
      <4>3. Leases!Pin(o)
        BY <4>1, <4>2 DEF Leases!Pin
      <4> QED
        BY <4>1, <4>3 DEF Leases!Next
    <3>2. ASSUME NEW o \in Core4, NEW p \in Proc, record_residency_process(o, p, spawned[o])
          PROVE  held' = held /\ protected' = protected
      BY <3>2 DEF record_residency_process, rowVars
    <3>3. ASSUME NEW o \in Core4, NEW p \in Proc, ReleaseProtected(o, p)  PROVE Leases!Next
      <4>1. o \in Owner /\ protected[o]
        BY <3>3, OwnerAssumption DEF ReleaseProtected, Owner
      <4>2. {x \in Owner : protected'[x]} = {x \in Owner : protected[x]} \ {o}
        BY <1>2, <3>3, <4>1 DEF ReleaseProtected, TypeOK
      <4>3. Leases!Unpin(o)
        BY <3>3, <4>1, <4>2 DEF ReleaseProtected, Leases!Unpin
      <4> QED
        BY <4>1, <4>3 DEF Leases!Next
    <3> QED
      BY <2>4, <3>1, <3>2, <3>3 DEF ResidencyNext
  <2>5. CASE EnvironmentNext
    BY <2>5 DEF EnvironmentNext, Tick, Die, SpawnModel, ObserveQuiescence,
       ObservationExpires, rowVars, residencyVars
  <2> QED
    BY <1>2, <2>1, <2>2, <2>3, <2>4, <2>5 DEF Next
<1>3. TypeOK /\ IInv /\ [Next]_vars =>
        [Leases!Next]_<<held, {o \in Owner : protected[o]}>>
  BY <1>2 DEF vars, rowVars, residencyVars
<1> QED
  BY <1>1, <1>3, TypeCorrect, Invariance, PTL DEF Spec, ImplementsLeases, Leases!Spec

=============================================================================
