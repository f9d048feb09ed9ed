----------------------- MODULE CompactWorkflowProofs -----------------------
(***************************************************************************)
(* Proofs about CompactWorkflow with a single client, for any number of    *)
(* workflows, renewals, lost answers, foreign commits and crashes of the   *)
(* host.  Control is about calls, renewal threads, their locks and the     *)
(* phases; Data is about intents, the authority's log and the leases.      *)
(***************************************************************************)
EXTENDS CompactWorkflow, TLAPS

IntentMaps == UNION {[D -> IntentType] : D \in SUBSET Names}
RecordType ==
    [phase : Phases, observed : Nat, lease : Nat, hgen : Nat, rgen : Nat, intents : IntentMaps,
     fin : FinishActions \cup {"none"}, ops : SUBSET (Operations \cup {0})]
ProcType ==
    [pc : InMutation \cup {"idle", "select", "no_work", "save", "context", "ensure", "lock", "stop",
                           "join", "begin", "wait"},
     call : {"none", "next_task", "coordinate_task", "finish_task", "renewal"},
     h : 0..MaxHandles, loc : RecordType, name : Names, arg : Nat, retry : {0, 1},
     intent : IntentType, val : Nat, act : FinishActions \cup {"none"}, new : BOOLEAN]
EntryType ==
    [key : [handle : Handles, name : Names, generation : Nat, arg : Nat],
     revision : Nat, arg : Nat, lease : Nat]
AuthorityType ==
    [revision : Nat, log : SUBSET EntryType,
     attempt : [Handles -> [state : AttemptStates, lease : Nat]]]

Running == {"context_pending", "active", "released"}
LockedKinds == {"resume", "coordinate", "recover", "verify"}

ControlTypes ==
    /\ store \in [Handles -> RecordType] /\ proc \in [Procs -> ProcType] /\ current \in 0..MaxHandles
    /\ lock \in [Hosts -> Procs \cup {NoProcess}] /\ stopping \subseteq Workers

Control ==
    /\ ControlTypes
    /\ \A h \in Handles : h > current => store[h] = Blank
    /\ \A c \in Callers : CallerState(c)
    /\ \A w \in Workers : WorkerState(w)

\* The key of a committed request is the digest of the request.
KeysMatch ==
    \A e \in authority.log :
        e.key = Key(e.key.handle, e.key.name, [arg |-> e.arg, generation |-> e.key.generation])

Data ==
    /\ authority \in AuthorityType /\ KeysMatch
    /\ \A p \in Procs : IntentState(p)
    /\ ReplayIsExact /\ EffectOnce
    /\ \A h \in Handles : LeaseState(h)

LEMMA BlankType == Blank \in RecordType /\ Idle \in ProcType
<1>1. Blank.intents \in IntentMaps
  BY DEF Blank, IntentMaps
<1>2. Blank \in RecordType
  BY <1>1 DEF Blank, RecordType, Phases, ActivePhases
<1>3. <<"verify", 0>> \in Names /\ NoIntent \in IntentType
  BY DEF Names, Kinds, NoIntent, IntentType
<1>4. 0 \in 0..MaxHandles
  BY CompactAssumption
<1> QED
  BY <1>2, <1>3, <1>4 DEF Idle, ProcType

\* The processes of a host.
LEMMA Hosting ==
    /\ \A c \in Callers : c \in Procs /\ Host(c) = HostOf[c] /\ Host(c) \in Hosts /\ c \notin Workers
    /\ \A w \in Workers : /\ w \in Procs /\ Host(w) = w[1] /\ w[1] \in Hosts /\ w[2] \in Handles
                          /\ w \notin Callers /\ w = <<w[1], w[2]>>
    /\ \A x \in Hosts, h \in Handles : <<x, h>> \in Workers /\ <<x, h>>[1] = x /\ <<x, h>>[2] = h
    /\ Handles = 1..MaxHandles /\ MaxHandles \in Nat
  BY CompactAssumption DEF Host, Procs, Workers, Handles

\* A step of the client that leaves the renewal thread what it needs.
LEMMA CallerControl ==
    ASSUME OneClient, Control, NEW c \in Callers, NEW s2 \in ProcType, NEW r2 \in RecordType,
           current # 0, current' = current,
           proc' = [proc EXCEPT ![c] = s2], store' = [store EXCEPT ![current] = r2],
           lock' \in [Hosts -> Procs \cup {NoProcess}], stopping' \subseteq Workers,
           \A w \in Workers : lock[w[1]] = w => lock'[w[1]] = w,
           r2.hgen = store[current].hgen, store[current].lease <= r2.lease,
           proc[<<Host(c), current>>].pc # "idle" => r2.phase \in Running,
           s2.pc = "idle" => s2 = Idle,
           s2.pc # "idle" => s2.h = current /\ StepAt(s2, r2),
           s2.pc = "begin" => proc[<<Host(c), current>>].pc = "idle",
           s2.pc \in InMutation /\ s2.name[1] \in LockedKinds => lock'[Host(c)] = c
    PROVE  Control'
<1>0. /\ ControlTypes /\ current \in Handles /\ c \in Procs
      /\ \A w \in Workers : w \in Procs /\ w # c /\ w[1] \in Hosts /\ w[2] \in Handles /\ w = <<w[1], w[2]>>
      /\ <<Host(c), current>> \in Workers
  BY Hosting DEF Control, ControlTypes
<1>1. ControlTypes'
  BY <1>0 DEF ControlTypes
<1>2. \A h \in Handles : h > current' => store'[h] = Blank
  BY <1>0, Hosting DEF Control, ControlTypes
<1>3. proc'[c] = s2 /\ store'[current] = r2 /\ \A w \in Workers : proc'[w] = proc[w]
  BY <1>0 DEF ControlTypes
<1>4. ASSUME NEW d \in Callers PROVE CallerState(d)'
  <2>1. d = c
    BY DEF OneClient
  <2>2. Host(c)' = Host(c)
    BY DEF Host
  <2>3. s2.pc = "begin" => proc'[<<Host(c), s2.h>>].pc = "idle"
    BY <1>0, <1>3
  <2> QED
    BY <1>0, <1>3, <2>1, <2>2, <2>3 DEF CallerState, LockedKinds
<1>5. ASSUME NEW w \in Workers PROVE WorkerState(w)'
  <2>0. WorkerState(w) /\ proc'[w] = proc[w]
    BY <1>3 DEF Control
  <2>1. CASE w[2] # current
    <3>1. store'[w[2]] = store[w[2]]
      BY <1>0, <2>1 DEF ControlTypes
    <3> QED
      BY <2>0, <3>1 DEF WorkerState, Host
  <2>2. CASE w[2] = current
    <3>1. proc[w].pc # "idle" => w = <<Host(c), current>>
      BY <1>0, <2>0, <2>2 DEF WorkerState, OneClient
    <3>2. proc[w].pc # "idle" => r2.phase \in Running
      BY <3>1
    <3>3. store[current].lease \in Nat /\ r2.lease \in Nat /\ proc[w].arg \in Nat
      BY <1>0 DEF ControlTypes, RecordType, ProcType
    <3>4. proc[w].pc \in InMutation => proc[w].arg <= r2.lease
      BY <2>0, <2>2, <3>3 DEF WorkerState
    <3> QED
      BY <1>3, <2>0, <2>2, <3>2, <3>4 DEF WorkerState, Running, Host, InMutation
  <2> QED
    BY <2>1, <2>2
<1> QED
  BY <1>1, <1>2, <1>4, <1>5 DEF Control

\* A step of a renewal thread, which changes the lease and its generation.
LEMMA WorkerControl ==
    ASSUME OneClient, Control, NEW w \in Workers, NEW s2 \in ProcType, NEW r2 \in RecordType,
           proc[w].pc # "idle", current' = current,
           proc' = [proc EXCEPT ![w] = s2], store' = [store EXCEPT ![w[2]] = r2],
           lock' \in [Hosts -> Procs \cup {NoProcess}], stopping' \subseteq Workers,
           \A p \in Procs \ {w} : lock[Host(p)] = p => lock'[Host(p)] = p,
           r2.phase = store[w[2]].phase, r2.rgen = store[w[2]].rgen, store[w[2]].lease <= r2.lease,
           s2.pc \in InMutation \cup {"idle", "wait"}, s2.pc # "idle" => s2.h = w[2],
           s2.pc \in InMutation =>
              s2.name = <<"heartbeat", r2.hgen>> /\ s2.arg <= r2.lease /\ lock'[w[1]] = w
    PROVE  Control'
<1> DEFINE h == w[2]
<1>0. /\ ControlTypes /\ h \in Handles /\ w \in Procs /\ WorkerState(w) /\ w = <<w[1], w[2]>>
      /\ \A c \in Callers : c \in Procs /\ c # w /\ CallerState(c) /\ Host(c) \in Hosts
      /\ \A v \in Workers : v \in Procs /\ WorkerState(v) /\ Host(v) = v[1] /\ v = <<v[1], v[2]>>
  BY Hosting DEF Control
<1>1. ControlTypes'
  BY <1>0 DEF ControlTypes
<1>2. /\ proc'[w] = s2 /\ store'[h] = r2 /\ \A p \in Procs \ {w} : proc'[p] = proc[p]
      /\ \A k \in Handles \ {h} : store'[k] = store[k]
  BY <1>0 DEF ControlTypes
<1>3. store[h].phase \in Running /\ \A c \in Callers : Host(c) = w[1]
  BY <1>0 DEF WorkerState, OneClient, Running
<1>4. \A k \in Handles : k > current' => store'[k] = Blank
  <2>1. store[h] # Blank
    BY <1>3 DEF Blank, Running
  <2> QED
    BY <1>0, <1>2, <2>1 DEF Control
<1>5. ASSUME NEW c \in Callers PROVE CallerState(c)'
  <2> DEFINE s == proc[c]
             r == store[current]
  <2>1. proc'[c] = s /\ CallerState(c) /\ Host(c)' = Host(c) /\ Host(c) = w[1]
    BY <1>0, <1>2, <1>3 DEF Host
  <2>2. s.pc = "begin" => s.h # h
    BY <1>0, <2>1 DEF CallerState
  <2>3. s.pc = "begin" => proc'[<<Host(c), s.h>>].pc = "idle"
    <3>1. SUFFICES ASSUME s.pc = "begin" PROVE proc'[<<Host(c), s.h>>].pc = "idle"
      OBVIOUS
    <3>2. s.h \in Handles /\ <<Host(c), s.h>> \in Workers /\ <<Host(c), s.h>>[2] = s.h
      BY <1>0, <2>1, <3>1, Hosting DEF CallerState, ControlTypes
    <3> QED
      BY <1>0, <1>2, <2>1, <2>2, <3>1, <3>2 DEF CallerState
  <2>4. s.pc # "idle" => StepAt(s, store'[current])
    <3> SUFFICES ASSUME s.pc # "idle" PROVE StepAt(s, store'[current])
      OBVIOUS
    <3>0. StepAt(s, r) /\ current \in Handles /\ s.h = current
      BY <1>0, <2>1, Hosting DEF CallerState, ControlTypes
    <3>1. CASE current # h
      BY <1>2, <3>0, <3>1
    <3>2. CASE current = h
      <4>1. store'[current] = r2 /\ r2.phase = r.phase /\ r2.rgen = r.rgen /\ r.phase \in Running /\ s.pc # "begin"
        BY <1>2, <1>3, <2>2, <3>0, <3>2
      <4>2. r.lease \in Nat /\ r2.lease \in Nat /\ s.arg \in Nat /\ r.lease <= r2.lease
        BY <1>0, <3>0, <3>2 DEF ControlTypes, RecordType, ProcType
      <4>3. KindAt(s, r) => KindAt(s, r2)
        BY <4>1, <4>2 DEF KindAt, Running, PendingFinish
      <4> QED
        BY <3>0, <4>1, <4>3 DEF StepAt
    <3> QED
      BY <3>1, <3>2
  <2>5. s.pc \in InMutation /\ s.name[1] \in LockedKinds => lock'[Host(c)] = c
    BY <1>0, <2>1 DEF CallerState, LockedKinds
  <2>6. (s.pc = "idle" => s = Idle) /\ (s.pc # "idle" => s.h = current /\ current # 0)
    BY <2>1 DEF CallerState
  <2> QED
    BY <2>1, <2>3, <2>4, <2>5, <2>6 DEF CallerState, LockedKinds
<1>6. ASSUME NEW v \in Workers PROVE WorkerState(v)'
  <2>0. \A c \in Callers : Host(c)' = Host(c)
    BY DEF Host
  <2>1. CASE v = w
    BY <1>0, <1>2, <1>3, <2>0, <2>1 DEF WorkerState, Running
  <2>2. CASE v # w
    <3>0. proc'[v] = proc[v] /\ WorkerState(v) /\ (lock[v[1]] = v => lock'[v[1]] = v)
      BY <1>0, <1>2, <2>2
    <3>1. CASE proc[v].pc = "idle"
      BY <3>0, <3>1 DEF WorkerState, InMutation
    <3>2. CASE proc[v].pc # "idle"
      <4>1. v[1] = w[1] /\ v[2] # h
        BY <1>0, <1>3, <2>2, <3>0, <3>2 DEF WorkerState
      <4>2. store'[v[2]] = store[v[2]]
        BY <1>2, <4>1, Hosting
      <4> QED
        BY <2>0, <3>0, <4>2 DEF WorkerState
    <3> QED
      BY <3>1, <3>2
  <2> QED
    BY <2>1, <2>2
<1> QED
  BY <1>1, <1>4, <1>5, <1>6 DEF Control

\* Whatever is under way is about a workflow.
LEMMA OnHandle ==
    ASSUME Control, NEW p \in Procs, proc[p].pc # "idle"
    PROVE  proc[p].h \in Handles
<1>1. CASE p \in Callers
  <2>1. CallerState(p) /\ current \in 0..MaxHandles
    BY <1>1 DEF Control, ControlTypes
  <2>2. proc[p].h = current /\ current # 0
    BY <2>1 DEF CallerState
  <2> QED
    BY <2>1, <2>2, Hosting
<1>2. CASE p \in Workers
  BY <1>2, Hosting DEF Control, WorkerState
<1> QED
  BY <1>1, <1>2 DEF Procs

\* Two mutations under way are never the same phase of the same workflow.
LEMMA Distinct ==
    ASSUME OneClient, Control, NEW p \in Procs, NEW q \in Procs, p # q,
           proc[p].pc \in InMutation, proc[q].pc \in InMutation
    PROVE  proc[p].h # proc[q].h \/ proc[p].name # proc[q].name
<1>0. "idle" \notin InMutation /\ (\A c \in Callers : c \in Procs) /\ \A w \in Workers : w = <<w[1], w[2]>>
  BY Hosting DEF InMutation
<1>1. ASSUME NEW c \in Callers, proc[c].pc \in InMutation PROVE proc[c].name[1] # "heartbeat"
  BY <1>0, <1>1 DEF Control, CallerState, StepAt, KindAt
<1>2. ASSUME NEW w \in Workers, proc[w].pc \in InMutation
      PROVE  proc[w].name[1] = "heartbeat" /\ proc[w].h = w[2] /\ \E c \in Callers : Host(c) = w[1]
  BY <1>0, <1>2 DEF Control, WorkerState
<1>3. CASE p \in Callers /\ q \in Callers
  BY <1>3 DEF OneClient
<1>4. CASE p \in Workers /\ q \in Workers
  BY <1>0, <1>2, <1>4 DEF OneClient
<1> QED
  BY <1>1, <1>2, <1>3, <1>4 DEF Procs
-----------------------------------------------------------------------------
(* Data *)

Waiting == {"invoke", "observe", "refresh", "answered"}
Early == {"absent", "selecting", "no_work", "workspace_pending"}

\* A change of phase that records no lease.
PhaseMove(a, b) ==
    a = b \/ a \in Early \/ (a # "dispatch_pending" /\ b \notin Early \cup {"dispatch_pending"})

\* The leases of a workflow do not depend on the rest of its record.
LEMMA LeaseKept ==
    ASSUME NEW h \in Handles, LeaseState(h), authority' = authority,
           store'[h].lease = store[h].lease, store'[h].hgen = store[h].hgen,
           store'[h].rgen = store[h].rgen, PhaseMove(store[h].phase, store'[h].phase)
    PROVE  LeaseState(h)'
<1> DEFINE r == store[h]
           r2 == store'[h]
<1>0. Issues(h)' = Issues(h)
  BY DEF Issues
<1>1. CASE Issues(h) = {}
  BY <1>0, <1>1 DEF LeaseState
<1>2. CASE Issues(h) # {}
  <2>1. r.phase \notin Early
    BY <1>2 DEF LeaseState, Early
  <2>2. r2.phase \notin Early /\ (r2.phase = "dispatch_pending" <=> r.phase = "dispatch_pending")
    BY <2>1 DEF PhaseMove
  <2>3. \A e : Unrecorded(e, r2) <=> Unrecorded(e, r)
    BY <2>2 DEF Unrecorded
  <2> QED
    BY <1>0, <2>2, <2>3 DEF LeaseState, Early
<1> QED
  BY <1>1, <1>2

\* Steps that do not ask the authority and leave the intents alone.
LEMMA DataFrame ==
    ASSUME Data, authority' = authority,
           \A h \in Handles : store'[h].intents = store[h].intents /\ LeaseState(h)',
           \A p \in Procs : proc'[p].pc \notin Waiting \/ (proc'[p] = proc[p] /\ proc[p].h \in Handles)
    PROVE  Data'
<1>1. ASSUME NEW p \in Procs PROVE IntentState(p)'
  BY DEF Data, IntentState, Entries, Waiting
<1>2. ReplayIsExact' /\ EffectOnce' /\ KeysMatch'
  <2>1. \A e \in authority.log : e.key.handle \in Handles
    BY DEF Data, AuthorityType, EntryType
  <2> QED
    BY <2>1 DEF Data, ReplayIsExact, EffectOnce, KeysMatch
<1> QED
  BY <1>1, <1>2 DEF Data

\* Those of them that record no answer of the authority.
LEMMA DataKept ==
    ASSUME Data, authority' = authority,
           \A h \in Handles : /\ store'[h].intents = store[h].intents /\ store'[h].lease = store[h].lease
                              /\ store'[h].hgen = store[h].hgen /\ store'[h].rgen = store[h].rgen
                              /\ PhaseMove(store[h].phase, store'[h].phase),
           \A p \in Procs : proc'[p].pc \notin Waiting \/ (proc'[p] = proc[p] /\ proc[p].h \in Handles)
    PROVE  Data'
<1>1. \A h \in Handles : LeaseState(h)'
  BY LeaseKept DEF Data
<1> QED
  BY <1>1, DataFrame

\* A mutation goes on without the authority committing anything: the intent
\* of its phase may be added or replaced while nothing of it is committed.
LEMMA IntentData ==
    ASSUME OneClient, Control, Data, NEW p \in Procs, NEW s2, NEW m,
           proc[p].pc \in InMutation, proc[p].h \in Handles,
           s2.name = proc[p].name, s2.h = proc[p].h,
           proc' = [proc EXCEPT ![p] = s2], authority' = authority,
           store' = [store EXCEPT ![proc[p].h] = [@ EXCEPT !.intents = m]],
           \A n \in DOMAIN store[proc[p].h].intents \ {s2.name} :
              n \in DOMAIN m /\ m[n] = store[proc[p].h].intents[n],
           \/ Entries(proc[p].h, s2.name) = {}
           \/ s2.name \in DOMAIN m /\ m[s2.name] = store[proc[p].h].intents[s2.name],
           IntentState(p)'
    PROVE  Data'
<1> DEFINE h == proc[p].h
<1>0. /\ store'[h].intents = m /\ \A k \in Handles \ {h} : store'[k] = store[k]
      /\ \A q \in Procs \ {p} : proc'[q] = proc[q]
  BY DEF Control, ControlTypes, RecordType
<1>1. ASSUME NEW k \in Handles PROVE LeaseState(k)'
  <2>1. /\ store'[k].lease = store[k].lease /\ store'[k].hgen = store[k].hgen
        /\ store'[k].rgen = store[k].rgen /\ store'[k].phase = store[k].phase
    BY DEF Control, ControlTypes, RecordType
  <2> QED
    BY <2>1, LeaseKept DEF Data, PhaseMove
<1>2. ReplayIsExact' /\ EffectOnce' /\ KeysMatch'
  <2>1. ASSUME NEW e \in authority.log
        PROVE  LET intents == store'[e.key.handle].intents  n == e.key.name
               IN  /\ n \in DOMAIN intents
                   /\ intents[n] = [arg |-> e.arg, revision |-> e.revision,
                                    generation |-> e.key.generation]
    <3>0. /\ e.key.handle \in Handles
          /\ e.key.name \in DOMAIN store[e.key.handle].intents
          /\ store[e.key.handle].intents[e.key.name]
                = [arg |-> e.arg, revision |-> e.revision, generation |-> e.key.generation]
      BY DEF Data, AuthorityType, EntryType, ReplayIsExact
    <3>1. CASE e.key.handle # h
      BY <1>0, <3>0, <3>1
    <3>2. CASE e.key.handle = h
      <4>1. e \in Entries(h, e.key.name)
        BY <3>2 DEF Entries
      <4> QED
        BY <1>0, <3>0, <3>2, <4>1
    <3> QED
      BY <3>1, <3>2
  <2> QED
    BY <2>1 DEF ReplayIsExact, EffectOnce, KeysMatch, Data
<1>3. ASSUME NEW q \in Procs PROVE IntentState(q)'
  <2>1. CASE q = p
    BY <2>1
  <2>2. CASE q # p
    <3>0. proc'[q] = proc[q] /\ IntentState(q) /\ \A n : Entries(proc[q].h, n)' = Entries(proc[q].h, n)
      BY <1>0, <2>2 DEF Data, Entries
    <3>1. CASE proc[q].pc # "invoke"
      BY <3>0, <3>1 DEF IntentState, Entries
    <3>2. CASE proc[q].pc = "invoke"
      <4>1. proc[q].h # h \/ proc[q].name # s2.name
        BY <2>2, <3>2, Distinct DEF InMutation
      <4>2. proc[q].h \in Handles
        BY <3>2, OnHandle
      <4>3. /\ proc[q].name \in DOMAIN store'[proc[q].h].intents
            /\ store'[proc[q].h].intents[proc[q].name] = store[proc[q].h].intents[proc[q].name]
        BY <1>0, <3>0, <3>2, <4>1, <4>2 DEF IntentState
      <4> QED
        BY <3>0, <3>2, <4>3 DEF IntentState
    <3> QED
      BY <3>1, <3>2
  <2> QED
    BY <2>1, <2>2
<1> QED
  BY <1>1, <1>2, <1>3 DEF Data
-----------------------------------------------------------------------------
(* Steps of the client that neither ask the authority nor record a lease *)

\* How such a step may change the phase of the record.
Moves ==
    {<<"selecting", "no_work">>, <<"selecting", "workspace_pending">>,
     <<"workspace_pending", "dispatch_pending">>, <<"context_pending", "active">>,
     <<"active", "handback_pending">>, <<"handback_pending", "report_pending">>,
     <<"handback_pending", "release_pending">>, <<"report_pending", "review_pending">>,
     <<"release_pending", "released">>, <<"active", "released">>,
     <<"handback_pending", "released">>, <<"report_pending", "released">>}

\* No record goes back.
Forward ==
    \A h \in Handles : /\ Rank(store[h].phase) <= Rank(store'[h].phase)
                       /\ store[h].lease <= store'[h].lease

LEMMA RankType == \A a \in Phases : Rank(a) \in Nat
  BY DEF Rank, Phases, ActivePhases, FinalPhases

LEMMA MovesForward ==
    ASSUME NEW a \in Phases, NEW b \in Phases, a = b \/ <<a, b>> \in Moves
    PROVE  /\ PhaseMove(a, b) /\ Rank(a) <= Rank(b)
           /\ a \in Running => b \in Running \/ b = "handback_pending"
<1>1. CASE a = b
  BY <1>1, RankType DEF PhaseMove
<1>2. CASE <<a, b>> \in Moves
  <2>1. PhaseMove(a, b)
    BY <1>2 DEF Moves, PhaseMove, Early
  <2>2. Rank(a) <= Rank(b)
    BY <1>2 DEF Moves, Rank, FinalPhases
  <2>3. a \in Running => b \in Running \/ b = "handback_pending"
    BY <1>2 DEF Moves, Running
  <2> QED
    BY <2>1, <2>2, <2>3
<1> QED
  BY <1>1, <1>2

\* Taking and giving back the renewal lock does not concern the others.
LockStep(p) ==
    \/ lock' = lock \/ lock' = Freed(p)
    \/ lock[Host(p)] = NoProcess /\ lock' = [lock EXCEPT ![Host(p)] = p]

LEMMA LockOthers ==
    ASSUME ControlTypes, NEW p \in Procs, LockStep(p)
    PROVE  /\ lock' \in [Hosts -> Procs \cup {NoProcess}]
           /\ \A q \in Procs \ {p} : lock[Host(q)] = q => lock'[Host(q)] = q
<1>1. \A q \in Procs : Host(q) \in Hosts /\ q # NoProcess
  BY Hosting, CompactAssumption DEF Procs, Workers, Handles
<1> QED
  BY <1>1 DEF ControlTypes, LockStep, Freed

LEMMA RecordAt ==
    ASSUME Control, NEW h \in Handles
    PROVE  store[h] \in RecordType /\ [store EXCEPT ![h] = store[h]] = store
  BY DEF Control, ControlTypes

LEMMA ClientStep ==
    ASSUME OneClient, Control, Data, NEW c \in Callers, NEW s2 \in ProcType, NEW r2 \in RecordType,
           current # 0, current' = current, authority' = authority,
           proc' = [proc EXCEPT ![c] = s2], store' = [store EXCEPT ![current] = r2],
           LockStep(c), stopping' \subseteq Workers,
           r2.intents = store[current].intents, r2.lease = store[current].lease,
           r2.hgen = store[current].hgen, r2.rgen = store[current].rgen,
           r2.phase = store[current].phase \/ <<store[current].phase, r2.phase>> \in Moves,
           r2.phase = "handback_pending" => store[current].phase = r2.phase \/ proc[c].pc = "begin",
           s2.pc \notin Waiting,
           s2.pc = "idle" => s2 = Idle,
           s2.pc # "idle" => s2.h = current /\ StepAt(s2, r2),
           s2.pc = "begin" => proc[<<Host(c), current>>].pc = "idle",
           s2.pc = "intent" /\ s2.name[1] \in LockedKinds => lock'[Host(c)] = c
    PROVE  Control' /\ Data' /\ Forward
<1> DEFINE r == store[current]
<1>0. /\ ControlTypes /\ current \in Handles /\ c \in Procs /\ r \in RecordType
      /\ \A w \in Workers : w \in Procs /\ w # c /\ Host(w) = w[1]
      /\ <<Host(c), current>> \in Workers /\ <<Host(c), current>>[2] = current
  BY Hosting DEF Control, ControlTypes
<1>1. /\ r.phase \in Phases /\ r2.phase \in Phases /\ r.lease \in Nat /\ r2.lease \in Nat
  BY <1>0 DEF RecordType
<1>2. /\ PhaseMove(r.phase, r2.phase) /\ Rank(r.phase) <= Rank(r2.phase)
      /\ r.phase \in Running => r2.phase \in Running \/ r2.phase = "handback_pending"
  BY <1>1, MovesForward
<1>3. proc[<<Host(c), current>>].pc # "idle" => r2.phase \in Running
  <2>1. proc[<<Host(c), current>>].pc # "idle" => r.phase \in Running
    BY <1>0 DEF Control, WorkerState, Running
  <2>2. proc[c].pc = "begin" => proc[<<Host(c), current>>].pc = "idle"
    BY DEF Control, CallerState
  <2>3. "handback_pending" \notin Running
    BY DEF Running
  <2> QED
    BY <1>2, <2>1, <2>2, <2>3
<1>4. /\ lock' \in [Hosts -> Procs \cup {NoProcess}]
      /\ \A w \in Workers : lock[w[1]] = w => lock'[w[1]] = w
  BY <1>0, LockOthers
<1>5. s2.pc \in InMutation => s2.pc = "intent"
  BY DEF InMutation, Waiting
<1>6. r.lease <= r2.lease
  BY <1>1
<1>7. Control'
  BY <1>3, <1>4, <1>5, <1>6, CallerControl
<1>8. ASSUME NEW h \in Handles
      PROVE  /\ store'[h].intents = store[h].intents /\ store'[h].lease = store[h].lease
             /\ store'[h].hgen = store[h].hgen /\ store'[h].rgen = store[h].rgen
             /\ PhaseMove(store[h].phase, store'[h].phase)
             /\ Rank(store[h].phase) <= Rank(store'[h].phase)
             /\ store[h].lease <= store'[h].lease
  <2>1. CASE h = current
    <3>1. store'[h] = r2
      BY <1>0, <2>1 DEF ControlTypes
    <3> QED
      BY <1>1, <1>2, <2>1, <3>1
  <2>2. CASE h # current
    <3>1. store'[h] = store[h] /\ store[h].phase \in Phases /\ store[h].lease \in Nat
      BY <1>0, <2>2 DEF ControlTypes, RecordType
    <3> QED
      BY <3>1, RankType DEF PhaseMove
  <2> QED
    BY <2>1, <2>2
<1>9. \A p \in Procs : proc'[p].pc \notin Waiting \/ (proc'[p] = proc[p] /\ proc[p].h \in Handles)
  <2>1. ASSUME NEW p \in Procs, p # c, proc'[p].pc \in Waiting
        PROVE  proc'[p] = proc[p] /\ proc[p].h \in Handles
    <3>1. proc'[p] = proc[p] /\ proc[p].pc # "idle"
      BY <1>0, <2>1 DEF ControlTypes, Waiting
    <3> QED
      BY <3>1, OnHandle
  <2>2. proc'[c].pc \notin Waiting
    BY <1>0 DEF ControlTypes
  <2> QED
    BY <2>1, <2>2
<1>10. Data'
  BY <1>8, <1>9, DataKept
<1> QED
  BY <1>7, <1>8, <1>10 DEF Forward
\* The same when the store does not change.
LEMMA ClientLocal ==
    ASSUME OneClient, Control, Data, NEW c \in Callers, NEW s2 \in ProcType,
           current # 0, UNCHANGED <<current, authority, store>>,
           proc' = [proc EXCEPT ![c] = s2], LockStep(c), stopping' \subseteq Workers,
           s2.pc \notin Waiting,
           s2.pc = "idle" => s2 = Idle,
           s2.pc # "idle" => s2.h = current /\ StepAt(s2, store[current]),
           s2.pc = "begin" => proc[<<Host(c), current>>].pc = "idle",
           s2.pc = "intent" /\ s2.name[1] \in LockedKinds => lock'[Host(c)] = c
    PROVE  Control' /\ Data' /\ Forward
<1>1. current \in Handles
  BY Hosting DEF Control, ControlTypes
<1>2. store[current] \in RecordType /\ store' = [store EXCEPT ![current] = store[current]]
  BY <1>1, RecordAt
<1> QED
  BY <1>2, ClientStep

\* A call that begins a mutation has the shape of a call.
Begun(t, s, pc, kind, n, a) ==
    /\ t \in ProcType /\ t.pc = pc /\ t.name[1] = kind /\ t.name[2] = n /\ t.name = <<kind, n>>
    /\ t.arg = a /\ t.h = s.h /\ t.loc = s.loc /\ t.call = s.call

LEMMA PhaseType ==
    ASSUME NEW s \in ProcType, NEW kind \in Kinds, NEW n \in Nat, NEW a \in Nat
    PROVE  /\ Begun(Phase(s, kind, n, a), s, "intent", kind, n, a)
           /\ Begun(LockedPhase(s, kind, n, a), s, "lock", kind, n, a)
<1>1. <<kind, n>> \in Names
  BY DEF Names
<1>2. Begun(Phase(s, kind, n, a), s, "intent", kind, n, a)
  BY <1>1 DEF Phase, ProcType, InMutation, Begun
<1>3. LockedPhase(s, kind, n, a) = [Phase(s, kind, n, a) EXCEPT !.pc = "lock"]
  BY DEF LockedPhase
<1>4. Begun(LockedPhase(s, kind, n, a), s, "lock", kind, n, a)
  BY <1>2, <1>3 DEF ProcType, InMutation, Begun
<1> QED
  BY <1>2, <1>4

\* What a call that continues from its local record may rely on.
Continues(s, h, r) ==
    /\ s \in ProcType
    /\ s.pc \in {"idle", "select", "context", "intent", "lock"}
    /\ s.pc = "idle" => s = Idle
    /\ s.pc # "idle" => s.h = h /\ StepAt(s, r)
    /\ s.pc = "intent" => s.name[1] \notin LockedKinds

LEMMA NextContinues ==
    ASSUME NEW s \in ProcType, s.call = "next_task"
    PROVE  Continues(NextAt(s), s.h, s.loc)
<1> DEFINE r == s.loc
<1>0. r \in RecordType
  BY DEF ProcType
<1>1. CASE r.phase = "selecting"
  <2>1. NextAt(s) = [s EXCEPT !.pc = "select"]
    BY <1>1 DEF NextAt
  <2> QED
    BY <1>1, <2>1 DEF Continues, ProcType, StepAt, InMutation
<1>2. CASE r.phase = "workspace_pending"
  <2>1. NextAt(s) = Phase(s, "create_workspace", 0, 0)
    BY <1>2 DEF NextAt
  <2>2. "create_workspace" \in Kinds
    BY DEF Kinds
  <2>4. Begun(NextAt(s), s, "intent", "create_workspace", 0, 0)
    BY <2>1, <2>2, PhaseType
  <2> QED
    BY <1>2, <2>2, <2>4 DEF Begun, Continues, StepAt, KindAt, LockedKinds
<1>3. CASE r.phase = "dispatch_pending"
  <2>1. NextAt(s) = Phase(s, "dispatch_attempt", 0, 0)
    BY <1>3 DEF NextAt
  <2>2. "dispatch_attempt" \in Kinds
    BY DEF Kinds
  <2>4. Begun(NextAt(s), s, "intent", "dispatch_attempt", 0, 0)
    BY <2>1, <2>2, PhaseType
  <2> QED
    BY <1>3, <2>2, <2>4 DEF Begun, Continues, StepAt, KindAt, LockedKinds
<1>4. CASE r.phase = "context_pending"
  <2>1. NextAt(s) = [s EXCEPT !.pc = "context"]
    BY <1>4 DEF NextAt
  <2> QED
    BY <1>4, <2>1 DEF Continues, ProcType, StepAt, InMutation
<1>5. CASE r.phase = "active"
  <2>1. NextAt(s) = LockedPhase(s, "resume", r.rgen, r.lease)
    BY <1>5 DEF NextAt
  <2>2. "resume" \in Kinds /\ r.rgen \in Nat /\ r.lease \in Nat
    BY <1>0 DEF Kinds, LeaseKinds, RecordType
  <2>3. r.lease <= r.lease
    BY <2>2
  <2>4. Begun(NextAt(s), s, "lock", "resume", r.rgen, r.lease)
    BY <2>1, <2>2, PhaseType
  <2> QED
    BY <1>5, <2>2, <2>3, <2>4 DEF Begun, Continues, StepAt, KindAt, InMutation
<1>6. CASE r.phase \notin {"selecting", "workspace_pending", "dispatch_pending", "context_pending", "active"}
  <2>1. NextAt(s) = Idle
    BY <1>6 DEF NextAt
  <2> QED
    BY <2>1, BlankType DEF Continues, Idle
<1> QED
  BY <1>1, <1>2, <1>3, <1>4, <1>5, <1>6

LEMMA FinishContinues ==
    ASSUME NEW s \in ProcType, NEW r \in RecordType, s.loc.phase = r.phase, s.loc.lease = r.lease
    PROVE  Continues(FinishAt(s), s.h, r)
<1>0. s.loc \in RecordType
  BY DEF ProcType
<1>1. CASE r.phase = "handback_pending"
  <2>1. FinishAt(s) = Phase(s, "finish:handback", 0, s.loc.lease)
    BY <1>1 DEF FinishAt
  <2>2. "finish:handback" \in Kinds /\ s.loc.lease \in Nat
    BY <1>0 DEF Kinds, FinishKinds, RecordType
  <2>4. Begun(FinishAt(s), s, "intent", "finish:handback", 0, s.loc.lease)
    BY <2>1, <2>2, PhaseType
  <2> QED
    BY <1>1, <2>2, <2>4 DEF Begun, Continues, StepAt, KindAt, LockedKinds
<1>2. CASE r.phase = "report_pending"
  <2>1. FinishAt(s) = Phase(s, "finish:report", 0, ReportArg(s.loc.fin))
    BY <1>2 DEF FinishAt
  <2>2. "finish:report" \in Kinds /\ ReportArg(s.loc.fin) \in Nat
    BY DEF Kinds, FinishKinds, ReportArg
  <2>4. Begun(FinishAt(s), s, "intent", "finish:report", 0, ReportArg(s.loc.fin))
    BY <2>1, <2>2, PhaseType
  <2> QED
    BY <1>2, <2>2, <2>4 DEF Begun, Continues, StepAt, KindAt, LockedKinds
<1>3. CASE r.phase = "release_pending"
  <2>1. FinishAt(s) = Phase(s, "finish:release", 0, s.loc.lease)
    BY <1>3 DEF FinishAt
  <2>2. "finish:release" \in Kinds /\ s.loc.lease \in Nat
    BY <1>0 DEF Kinds, FinishKinds, RecordType
  <2>4. Begun(FinishAt(s), s, "intent", "finish:release", 0, s.loc.lease)
    BY <2>1, <2>2, PhaseType
  <2> QED
    BY <1>3, <2>2, <2>4 DEF Begun, Continues, StepAt, KindAt, LockedKinds
<1>4. CASE r.phase \notin PendingFinish
  <2>1. FinishAt(s) = Idle
    BY <1>4 DEF FinishAt, PendingFinish
  <2> QED
    BY <2>1, BlankType DEF Continues, Idle
<1> QED
  BY <1>1, <1>2, <1>3, <1>4 DEF PendingFinish
\* A call that is under way.
LEMMA ClientAt ==
    ASSUME Control, NEW c \in Callers, proc[c].pc # "idle"
    PROVE  /\ proc[c].h = current /\ current # 0 /\ current \in Handles /\ c \in Procs
           /\ proc[c] \in ProcType /\ proc[c].loc \in RecordType /\ store[current] \in RecordType
           /\ StepAt(proc[c], store[current])
<1>1. CallerState(c) /\ c \in Procs /\ ControlTypes
  BY Hosting DEF Control
<1>2. proc[c].h = current /\ current # 0 /\ StepAt(proc[c], store[current])
  BY <1>1 DEF CallerState
<1>3. current \in Handles
  BY <1>1, <1>2, Hosting DEF ControlTypes
<1>4. proc[c] \in ProcType
  BY <1>1 DEF ControlTypes
<1>5. proc[c].loc \in RecordType
  BY <1>4 DEF ProcType
<1> QED
  BY <1>1, <1>2, <1>3, <1>4, <1>5 DEF ControlTypes

LEMMA SelectWorkStep ==
    ASSUME OneClient, Control, Data, NEW c \in Callers, SelectWork(c)
    PROVE  Control' /\ Data' /\ Forward
<1> DEFINE s == proc[c]
           r == store[current]
<1>0. s.pc = "select" /\ UNCHANGED <<store, current, authority, lock, stopping>>
  BY DEF SelectWork, LocalStep, StoreStep
<1>1. /\ s.h = current /\ current # 0 /\ s \in ProcType /\ StepAt(s, r) /\ stopping \subseteq Workers
      /\ authority.revision \in Nat
  BY <1>0, ClientAt DEF Control, ControlTypes, Data, AuthorityType
<1>2. PICK s2 \in {[s EXCEPT !.pc = "no_work"], [s EXCEPT !.pc = "save", !.val = authority.revision]} :
         proc' = [proc EXCEPT ![c] = s2]
  BY DEF SelectWork, Step
<1>3. /\ s2 \in ProcType /\ s2.pc \in {"no_work", "save"} /\ s2.h = s.h /\ s2.call = s.call
  BY <1>1, <1>2 DEF ProcType
<1>4. StepAt(s2, r)
  BY <1>0, <1>1, <1>3 DEF StepAt, InMutation
<1> QED
  BY <1>0, <1>1, <1>2, <1>3, <1>4, ClientLocal DEF LockStep, Waiting

LEMMA SetNoWorkStep ==
    ASSUME OneClient, Control, Data, NEW c \in Callers, SetNoWork(c)
    PROVE  Control' /\ Data' /\ Forward
<1> DEFINE s == proc[c]
           r == store[current]
           r2 == [r EXCEPT !.phase = "no_work"]
<1>0. /\ s.pc = "no_work" /\ UNCHANGED <<current, authority, stopping>>
      /\ proc' = [proc EXCEPT ![c] = Idle] /\ lock' = Freed(c)
  BY DEF SetNoWork, StoreStep, Return, Step
<1>1. /\ s.h = current /\ current # 0 /\ current \in Handles /\ r \in RecordType /\ StepAt(s, r)
      /\ stopping \subseteq Workers
  BY <1>0, ClientAt DEF Control, ControlTypes
<1>2. r.phase = "selecting"
  BY <1>0, <1>1 DEF StepAt
<1>3. store' = [store EXCEPT ![current] = r2]
  BY <1>1, <1>2 DEF SetNoWork
<1>4. /\ r2 \in RecordType /\ r2.phase = "no_work" /\ r2.intents = r.intents /\ r2.lease = r.lease
      /\ r2.hgen = r.hgen /\ r2.rgen = r.rgen
  BY <1>1 DEF RecordType, Phases, FinalPhases
<1>5. Idle \in ProcType /\ Idle.pc = "idle" /\ <<r.phase, r2.phase>> \in Moves
  BY <1>2, <1>4, BlankType DEF Idle, Moves
<1> QED
  BY <1>0, <1>1, <1>3, <1>4, <1>5, ClientStep DEF LockStep, Waiting

LEMMA SaveSelectionStep ==
    ASSUME OneClient, Control, Data, NEW c \in Callers, SaveSelection(c)
    PROVE  Control' /\ Data' /\ Forward
<1> DEFINE s == proc[c]
           r == store[current]
           r2 == [r EXCEPT !.phase = "workspace_pending", !.observed = s.val]
           s1 == [s EXCEPT !.loc = r2]
           s2 == NextAt(s1)
<1>0. s.pc = "save" /\ UNCHANGED <<current, authority, stopping, lock>>
  BY DEF SaveSelection, StoreStep
<1>1. /\ s.h = current /\ current # 0 /\ current \in Handles /\ r \in RecordType /\ StepAt(s, r)
      /\ stopping \subseteq Workers /\ s \in ProcType
  BY <1>0, ClientAt DEF Control, ControlTypes
<1>2. r.phase = "selecting" /\ s.call = "next_task"
  BY <1>0, <1>1 DEF StepAt
<1>3. store' = [store EXCEPT ![current] = r2] /\ proc' = [proc EXCEPT ![c] = s2]
  BY <1>1, <1>2 DEF SaveSelection, Selected, Step
<1>4. s.val \in Nat
  BY <1>1 DEF ProcType
<1>5. /\ r2 \in RecordType /\ r2.phase = "workspace_pending" /\ r2.intents = r.intents
      /\ r2.lease = r.lease /\ r2.hgen = r.hgen /\ r2.rgen = r.rgen
  BY <1>1, <1>4 DEF RecordType, Phases, ActivePhases
<1>6. s1 \in ProcType /\ s1.call = "next_task" /\ s1.h = current /\ s1.loc = r2
  BY <1>1, <1>2, <1>5 DEF ProcType
<1>7. Continues(s2, current, r2)
  BY <1>6, NextContinues
<1>8. <<r.phase, r2.phase>> \in Moves /\ r2.phase # "handback_pending"
  BY <1>2, <1>5 DEF Moves
<1> HIDE DEF s2, r2
<1> QED
  BY <1>0, <1>1, <1>3, <1>5, <1>7, <1>8, ClientStep DEF LockStep, Waiting, Continues

LEMMA RecordWorkspaceStep ==
    ASSUME OneClient, Control, Data, NEW c \in Callers, RecordWorkspace(c)
    PROVE  Control' /\ Data' /\ Forward
<1> DEFINE s == proc[c]
           r == store[current]
           r2 == [r EXCEPT !.phase = "dispatch_pending"]
           s1 == [s EXCEPT !.loc = r2]
           s2 == NextAt(s1)
<1>0. /\ s.pc = "answered" /\ s.name[1] = "create_workspace"
      /\ UNCHANGED <<current, authority, stopping, lock>>
  BY DEF RecordWorkspace, StoreStep
<1>1. /\ s.h = current /\ current # 0 /\ current \in Handles /\ r \in RecordType /\ StepAt(s, r)
      /\ stopping \subseteq Workers /\ s \in ProcType
  BY <1>0, ClientAt DEF Control, ControlTypes
<1>2. r.phase = "workspace_pending" /\ s.loc = r /\ s.call = "next_task"
  BY <1>0, <1>1 DEF StepAt, KindAt, InMutation
<1>3. /\ r2 \in RecordType /\ r2.phase = "dispatch_pending" /\ r2.intents = r.intents
      /\ r2.lease = r.lease /\ r2.hgen = r.hgen /\ r2.rgen = r.rgen
  BY <1>1 DEF RecordType, Phases, ActivePhases
<1>4. Overwrite(r, r2) = r2
  BY <1>1 DEF RecordType, Overwrite
<1>5. store' = [store EXCEPT ![current] = r2] /\ proc' = [proc EXCEPT ![c] = s2]
  BY <1>1, <1>2, <1>4 DEF RecordWorkspace, Step
<1>6. s1 \in ProcType /\ s1.h = current /\ s1.loc = r2 /\ s1.call = "next_task"
  BY <1>1, <1>2, <1>3 DEF ProcType
<1>7. Continues(s2, current, r2)
  BY <1>6, NextContinues
<1>8. <<r.phase, r2.phase>> \in Moves /\ r2.phase # "handback_pending"
  BY <1>2, <1>3 DEF Moves
<1> HIDE DEF s2, r2
<1> QED
  BY <1>0, <1>1, <1>3, <1>5, <1>7, <1>8, ClientStep DEF LockStep, Waiting, Continues
LEMMA BuildContextStep ==
    ASSUME OneClient, Control, Data, NEW c \in Callers, BuildContext(c)
    PROVE  Control' /\ Data' /\ Forward
<1> DEFINE s == proc[c]
           r == store[current]
           r2 == [r EXCEPT !.phase = "active"]
           s1 == [s EXCEPT !.loc = r2]
           t == [s EXCEPT !.loc = r2, !.pc = "ensure"]
           s2 == IF s.new THEN t ELSE NextAt(s1)
<1>0. s.pc = "context" /\ UNCHANGED <<current, authority, stopping, lock>>
  BY DEF BuildContext, StoreStep
<1>1. /\ s.h = current /\ current # 0 /\ current \in Handles /\ r \in RecordType /\ StepAt(s, r)
      /\ stopping \subseteq Workers /\ s \in ProcType
  BY <1>0, ClientAt DEF Control, ControlTypes
<1>2. r.phase = "context_pending" /\ s.call = "next_task"
  BY <1>0, <1>1 DEF StepAt
<1>3. /\ r2 \in RecordType /\ r2.phase = "active" /\ r2.intents = r.intents
      /\ r2.lease = r.lease /\ r2.hgen = r.hgen /\ r2.rgen = r.rgen
  BY <1>1 DEF RecordType, Phases, ActivePhases
<1>4. store' = [store EXCEPT ![current] = r2] /\ proc' = [proc EXCEPT ![c] = s2]
  BY <1>1 DEF BuildContext, Step
<1>5. s1 \in ProcType /\ s1.h = current /\ s1.loc = r2 /\ s1.call = "next_task"
  BY <1>1, <1>2, <1>3 DEF ProcType
<1>6. Continues(NextAt(s1), current, r2)
  BY <1>5, NextContinues
<1>7. t \in ProcType /\ t.h = current /\ t.loc = r2 /\ t.call = "next_task" /\ t.pc = "ensure"
  BY <1>1, <1>2, <1>3 DEF ProcType
<1>8. StepAt(t, r2)
  BY <1>3, <1>7 DEF StepAt, InMutation
<1>9. <<r.phase, r2.phase>> \in Moves /\ r2.phase # "handback_pending"
  BY <1>2, <1>3 DEF Moves
<1>10. /\ s2 \in ProcType /\ s2.pc \notin Waiting \cup {"begin"} /\ (s2.pc = "idle" => s2 = Idle)
       /\ s2.pc # "idle" => s2.h = current /\ StepAt(s2, r2)
       /\ s2.pc = "intent" => s2.name[1] \notin LockedKinds
  <2> HIDE DEF s1, t, r2
  <2> QED
    BY <1>6, <1>7, <1>8 DEF Continues, Waiting
<1> HIDE DEF s2, r2
<1> QED
  BY <1>0, <1>1, <1>3, <1>4, <1>9, <1>10, ClientStep DEF LockStep

LEMMA TakeLockStep ==
    ASSUME OneClient, Control, Data, NEW c \in Callers, TakeLock(c)
    PROVE  Control' /\ Data' /\ Forward
<1> DEFINE s == proc[c]
           r == store[current]
           r2 == [r EXCEPT !.phase = "released"]
           s2 == [s EXCEPT !.pc = "intent"]
           complete == s.name[1] \in {"coordinate", "recover"} /\ s.name[2] \in s.loc.ops
           confirmed == \E e \in authority.log : /\ e.key.handle = s.h /\ e.key.name = s.name
                                                 /\ ConfirmsRelease(s, e.lease)
<1>0. s.pc = "lock" /\ lock[Host(c)] = NoProcess /\ UNCHANGED <<current, authority, stopping>>
  BY DEF TakeLock, StoreStep
<1>1. /\ s.h = current /\ current # 0 /\ current \in Handles /\ r \in RecordType /\ StepAt(s, r)
      /\ stopping \subseteq Workers /\ s \in ProcType
  BY <1>0, ClientAt DEF Control, ControlTypes
<1>2. KindAt(s, r)
  BY <1>0, <1>1 DEF StepAt
<1>3. Idle \in ProcType /\ Idle.pc = "idle"
  BY BlankType DEF Idle
<1>4. CASE ~complete
  <2>1. /\ proc' = [proc EXCEPT ![c] = s2] /\ lock' = [lock EXCEPT ![Host(c)] = c] /\ store' = store
    BY <1>4 DEF TakeLock, Step
  <2>2. /\ s2 \in ProcType /\ s2.pc = "intent" /\ s2.h = s.h /\ s2.name = s.name /\ s2.arg = s.arg
        /\ s2.loc = s.loc /\ s2.call = s.call
    BY <1>1 DEF ProcType, InMutation
  <2>3. StepAt(s2, r)
    BY <1>2, <2>2 DEF StepAt, KindAt
  <2>4. lock'[Host(c)] = c
    BY <2>1, Hosting DEF Control, ControlTypes
  <2> HIDE DEF s2
  <2> QED
    BY <1>0, <1>1, <2>1, <2>2, <2>3, <2>4, ClientLocal DEF LockStep, Waiting
<1>5. CASE complete /\ ~confirmed
  <2>1. proc' = [proc EXCEPT ![c] = Idle] /\ lock' = lock /\ store' = store
    BY <1>5 DEF TakeLock, Step
  <2> QED
    BY <1>0, <1>1, <1>3, <2>1, ClientLocal DEF LockStep, Waiting
<1>6. CASE complete /\ confirmed
  <2>1. /\ proc' = [proc EXCEPT ![c] = Idle] /\ lock' = lock
        /\ store' = [store EXCEPT ![current] = r2]
    BY <1>1, <1>6 DEF TakeLock, Step
  <2>2. r.phase \in {"active"} \cup PendingFinish
    BY <1>2, <1>6 DEF KindAt, ConfirmsRelease
  <2>3. /\ r2 \in RecordType /\ r2.phase = "released" /\ r2.intents = r.intents
        /\ r2.lease = r.lease /\ r2.hgen = r.hgen /\ r2.rgen = r.rgen
    BY <1>1 DEF RecordType, Phases, FinalPhases
  <2>4. <<r.phase, r2.phase>> \in Moves
    BY <2>2, <2>3 DEF Moves, PendingFinish
  <2> HIDE DEF r2
  <2> QED
    BY <1>0, <1>1, <1>3, <2>1, <2>3, <2>4, ClientStep DEF LockStep, Waiting
<1> QED
  BY <1>4, <1>5, <1>6

LEMMA RecordOperationStep ==
    ASSUME OneClient, Control, Data, NEW c \in Callers, RecordOperation(c)
    PROVE  Control' /\ Data' /\ Forward
<1> DEFINE s == proc[c]
           r == store[current]
           done == s.loc.ops \cup {s.name[2]}
           r2 == [r EXCEPT !.ops = done,
                           !.phase = IF ConfirmsRelease(s, s.val) THEN "released" ELSE @]
<1>0. /\ s.pc = "answered" /\ s.name[1] \in {"coordinate", "recover"}
      /\ UNCHANGED <<current, authority, stopping>>
      /\ proc' = [proc EXCEPT ![c] = Idle] /\ lock' = Freed(c)
  BY DEF RecordOperation, StoreStep, Return, Step
<1>1. /\ s.h = current /\ current # 0 /\ current \in Handles /\ r \in RecordType /\ StepAt(s, r)
      /\ stopping \subseteq Workers /\ s \in ProcType /\ s.loc \in RecordType
  BY <1>0, ClientAt DEF Control, ControlTypes
<1>2. KindAt(s, r)
  BY <1>0, <1>1 DEF StepAt, InMutation
<1>3. s.name[2] \in Operations \cup {0}
  BY <1>0, <1>2 DEF KindAt
<1>4. done \in SUBSET (Operations \cup {0})
  BY <1>1, <1>3 DEF RecordType
<1>5. store' = [store EXCEPT ![current] = r2]
  BY <1>1 DEF RecordOperation, Control, ControlTypes, RecordType
<1>6. /\ r2 \in RecordType /\ r2.intents = r.intents
      /\ r2.lease = r.lease /\ r2.hgen = r.hgen /\ r2.rgen = r.rgen
      /\ r2.phase = IF ConfirmsRelease(s, s.val) THEN "released" ELSE r.phase
  <2> HIDE DEF done
  <2> QED
    BY <1>1, <1>4 DEF RecordType, Phases, FinalPhases
<1>7. r2.phase = r.phase \/ <<r.phase, r2.phase>> \in Moves
  <2>1. CASE ConfirmsRelease(s, s.val)
    BY <1>2, <1>6, <2>1 DEF ConfirmsRelease, KindAt, Moves, PendingFinish
  <2>2. CASE ~ConfirmsRelease(s, s.val)
    BY <1>6, <2>2
  <2> QED
    BY <2>1, <2>2
<1>8. Idle \in ProcType /\ Idle.pc = "idle" /\ (r2.phase = "handback_pending" => r.phase = r2.phase)
  BY <1>6, BlankType DEF Idle
<1> HIDE DEF r2
<1> QED
  BY <1>0, <1>1, <1>5, <1>6, <1>7, <1>8, ClientStep DEF LockStep, Waiting
LEMMA RecordVerificationStep ==
    ASSUME OneClient, Control, Data, NEW c \in Callers, RecordVerification(c)
    PROVE  Control' /\ Data' /\ Forward
<1> DEFINE s == proc[c]
           r == store[current]
           s2 == [s EXCEPT !.pc = "stop"]
<1>0. /\ s.pc = "answered" /\ s.name[1] = "verify"
      /\ UNCHANGED <<current, authority, stopping, store>>
      /\ proc' = [proc EXCEPT ![c] = s2] /\ lock' = Freed(c)
  BY DEF RecordVerification, LocalStep, StoreStep, Step
<1>1. /\ s.h = current /\ current # 0 /\ current \in Handles /\ StepAt(s, r)
      /\ stopping \subseteq Workers /\ s \in ProcType
  BY <1>0, ClientAt DEF Control, ControlTypes
<1>2. r.phase = "active"
  BY <1>0, <1>1 DEF StepAt, KindAt, InMutation
<1>3. s2 \in ProcType /\ s2.pc = "stop" /\ s2.h = s.h
  BY <1>1 DEF ProcType
<1>4. StepAt(s2, r)
  BY <1>2, <1>3 DEF StepAt, InMutation
<1> HIDE DEF s2
<1> QED
  BY <1>0, <1>1, <1>3, <1>4, ClientLocal DEF LockStep, Waiting

LEMMA StopRenewalStep ==
    ASSUME OneClient, Control, Data, NEW c \in Callers, StopRenewal(c)
    PROVE  Control' /\ Data' /\ Forward
<1> DEFINE s == proc[c]
           r == store[current]
           s2 == [s EXCEPT !.pc = "join"]
<1>0. /\ s.pc = "stop" /\ UNCHANGED <<current, authority, lock, store>>
      /\ proc' = [proc EXCEPT ![c] = s2]
  BY DEF StopRenewal, Step
<1>1. /\ s.h = current /\ current # 0 /\ current \in Handles /\ StepAt(s, r)
      /\ stopping \subseteq Workers /\ s \in ProcType
  BY <1>0, ClientAt DEF Control, ControlTypes
<1>2. stopping' \subseteq Workers
  BY <1>1, Hosting DEF StopRenewal
<1>3. s2 \in ProcType /\ s2.pc = "join" /\ s2.h = s.h
  BY <1>1 DEF ProcType
<1>4. StepAt(s2, r)
  BY <1>0, <1>1, <1>3 DEF StepAt, InMutation
<1> HIDE DEF s2
<1> QED
  BY <1>0, <1>1, <1>2, <1>3, <1>4, ClientLocal DEF LockStep, Waiting

LEMMA JoinRenewalStep ==
    ASSUME OneClient, Control, Data, NEW c \in Callers, JoinRenewal(c)
    PROVE  Control' /\ Data' /\ Forward
<1> DEFINE s == proc[c]
           r == store[current]
           s2 == [s EXCEPT !.pc = "begin", !.loc = r]
<1>0. /\ s.pc = "join" /\ UNCHANGED <<current, authority, stopping, lock, store>>
      /\ proc[<<Host(c), s.h>>].pc = "idle"
  BY DEF JoinRenewal, LocalStep, StoreStep
<1>1. /\ s.h = current /\ current # 0 /\ current \in Handles /\ StepAt(s, r)
      /\ stopping \subseteq Workers /\ s \in ProcType /\ r \in RecordType
  BY <1>0, ClientAt DEF Control, ControlTypes
<1>2. proc' = [proc EXCEPT ![c] = s2]
  BY <1>1 DEF JoinRenewal, Step
<1>3. s2 \in ProcType /\ s2.pc = "begin" /\ s2.h = s.h /\ s2.loc = r
  BY <1>1 DEF ProcType
<1>4. StepAt(s2, r)
  BY <1>0, <1>1, <1>3 DEF StepAt, InMutation
<1> HIDE DEF s2
<1> QED
  BY <1>0, <1>1, <1>2, <1>3, <1>4, ClientLocal DEF LockStep, Waiting

LEMMA BeginFinishStep ==
    ASSUME OneClient, Control, Data, NEW c \in Callers, BeginFinish(c)
    PROVE  Control' /\ Data' /\ Forward
<1> DEFINE s == proc[c]
           r == store[current]
           r1 == [s.loc EXCEPT !.phase = "handback_pending", !.fin = s.act]
           r2 == [r EXCEPT !.phase = "handback_pending", !.fin = s.act]
           s1 == [s EXCEPT !.loc = r1]
           s2 == FinishAt(s1)
<1>0. s.pc = "begin" /\ UNCHANGED <<current, authority, stopping, lock>>
  BY DEF BeginFinish, StoreStep
<1>1. /\ s.h = current /\ current # 0 /\ current \in Handles /\ StepAt(s, r)
      /\ stopping \subseteq Workers /\ s \in ProcType /\ r \in RecordType /\ s.loc \in RecordType
  BY <1>0, ClientAt DEF Control, ControlTypes
<1>2. r.phase = "active" /\ s.loc.lease = r.lease /\ s.act \in FinishActions \cup {"none"}
  BY <1>0, <1>1 DEF StepAt, ProcType
<1>3. /\ r2 \in RecordType /\ r2.phase = "handback_pending" /\ r2.intents = r.intents
      /\ r2.lease = r.lease /\ r2.hgen = r.hgen /\ r2.rgen = r.rgen
  BY <1>1, <1>2 DEF RecordType, Phases, ActivePhases
<1>4. r1 \in RecordType /\ r1.phase = r2.phase /\ r1.lease = r2.lease
  BY <1>1, <1>2 DEF RecordType, Phases, ActivePhases
<1>5. s1 \in ProcType /\ s1.h = current /\ s1.loc = r1
  BY <1>1, <1>4 DEF ProcType
<1>6. store' = [store EXCEPT ![current] = r2] /\ proc' = [proc EXCEPT ![c] = s2]
  BY <1>1 DEF BeginFinish, Step, Control, ControlTypes, RecordType
<1>7. <<r.phase, r2.phase>> \in Moves
  BY <1>2, <1>3 DEF Moves
<1> HIDE DEF s2, r2, r1
<1>8. Continues(s2, current, r2)
  BY <1>3, <1>4, <1>5, FinishContinues DEF s2
<1> QED
  BY <1>0, <1>1, <1>3, <1>6, <1>7, <1>8, ClientStep DEF LockStep, Waiting, Continues

LEMMA RecordHandbackStep ==
    ASSUME OneClient, Control, Data, NEW c \in Callers, RecordHandback(c)
    PROVE  Control' /\ Data' /\ Forward
<1> DEFINE s == proc[c]
           r == store[current]
           next == AfterHandback(s.loc)
           r1 == [s.loc EXCEPT !.phase = next]
           r2 == [r EXCEPT !.phase = next]
           s1 == [s EXCEPT !.loc = r1]
           s2 == FinishAt(s1)
<1>0. /\ s.pc = "answered" /\ s.name[1] = "finish:handback"
      /\ UNCHANGED <<current, authority, stopping, lock>>
  BY DEF RecordHandback, StoreStep
<1>1. /\ s.h = current /\ current # 0 /\ current \in Handles /\ StepAt(s, r)
      /\ stopping \subseteq Workers /\ s \in ProcType /\ r \in RecordType /\ s.loc \in RecordType
  BY <1>0, ClientAt DEF Control, ControlTypes
<1>2. /\ r.phase = "handback_pending" /\ s.loc.lease = r.lease
      /\ next \in {"release_pending", "report_pending"}
  BY <1>0, <1>1 DEF StepAt, KindAt, InMutation, AfterHandback
<1>4. r1 \in RecordType /\ r1.phase = next /\ r1.lease = r.lease
  <2> HIDE DEF next
  <2> QED
    BY <1>1, <1>2 DEF RecordType, Phases, ActivePhases
<1>3. /\ r2 \in RecordType /\ r2.phase = next /\ r2.intents = r.intents
      /\ r2.lease = r.lease /\ r2.hgen = r.hgen /\ r2.rgen = r.rgen
  <2> HIDE DEF next
  <2> QED
    BY <1>1, <1>2 DEF RecordType, Phases, ActivePhases
<1>5. s1 \in ProcType /\ s1.h = current /\ s1.loc = r1
  <2> HIDE DEF r1
  <2> QED
    BY <1>1, <1>4 DEF ProcType
<1>6. store' = [store EXCEPT ![current] = r2] /\ proc' = [proc EXCEPT ![c] = s2]
  BY <1>1, <1>4 DEF RecordHandback, Step
<1>7. <<r.phase, r2.phase>> \in Moves /\ r2.phase # "handback_pending"
  BY <1>2, <1>3 DEF Moves
<1> HIDE DEF s2, r2, r1
<1>8. Continues(s2, current, r2)
  BY <1>3, <1>4, <1>5, FinishContinues DEF s2
<1> QED
  BY <1>0, <1>1, <1>3, <1>6, <1>7, <1>8, ClientStep DEF LockStep, Waiting, Continues

LEMMA RecordEndStep ==
    ASSUME OneClient, Control, Data, NEW c \in Callers, RecordReport(c) \/ RecordRelease(c)
    PROVE  Control' /\ Data' /\ Forward
<1> DEFINE s == proc[c]
           r == store[current]
           next == IF s.name[1] = "finish:report" THEN "review_pending" ELSE "released"
           r2 == [r EXCEPT !.phase = next]
<1>0. /\ s.pc = "answered" /\ s.name[1] \in {"finish:report", "finish:release"}
      /\ UNCHANGED <<current, authority, stopping>>
      /\ proc' = [proc EXCEPT ![c] = Idle] /\ lock' = Freed(c)
  BY DEF RecordReport, RecordRelease, StoreStep, Return, Step
<1>1. /\ s.h = current /\ current # 0 /\ current \in Handles /\ r \in RecordType /\ StepAt(s, r)
      /\ stopping \subseteq Workers
  BY <1>0, ClientAt DEF Control, ControlTypes
<1>2. KindAt(s, r)
  BY <1>0, <1>1 DEF StepAt, InMutation
<1>3. store' = [store EXCEPT ![current] = r2]
  BY <1>1 DEF RecordReport, RecordRelease
<1>4. /\ r2 \in RecordType /\ r2.phase = next /\ r2.intents = r.intents /\ r2.lease = r.lease
      /\ r2.hgen = r.hgen /\ r2.rgen = r.rgen
  BY <1>1 DEF RecordType, Phases, FinalPhases
<1>5. <<r.phase, r2.phase>> \in Moves /\ r2.phase # "handback_pending"
  BY <1>0, <1>2, <1>4 DEF KindAt, Moves
<1>6. Idle \in ProcType /\ Idle.pc = "idle"
  BY BlankType DEF Idle
<1> HIDE DEF r2
<1> QED
  BY <1>0, <1>1, <1>3, <1>4, <1>5, <1>6, ClientStep DEF LockStep, Waiting
-----------------------------------------------------------------------------
(* Calls of the client *)

\* A new call reads the record of the current workflow.
Starting(s, call) ==
    s \in ProcType /\ s.h = current /\ s.loc = store[current] /\ s.call = call /\ s.pc = "idle"

LEMMA Starts ==
    ASSUME Control, current # 0, NEW call \in {"next_task", "coordinate_task", "finish_task"}
    PROVE  /\ Starting([Idle EXCEPT !.call = call, !.h = current, !.loc = store[current]], call)
           /\ \A act \in FinishActions :
                 Starting([Idle EXCEPT !.call = call, !.h = current, !.loc = store[current],
                                       !.act = act], call)
<1>1. store[current] \in RecordType /\ current \in 0..MaxHandles
  BY Hosting DEF Control, ControlTypes
<1>2. Idle \in ProcType /\ Idle.pc = "idle"
  BY BlankType DEF Idle
<1> DEFINE s == [Idle EXCEPT !.call = call, !.h = current, !.loc = store[current]]
<1>3. Starting(s, call)
  BY <1>1, <1>2 DEF ProcType, Starting
<1>4. ASSUME NEW act \in FinishActions
      PROVE  Starting([Idle EXCEPT !.call = call, !.h = current, !.loc = store[current], !.act = act], call)
  BY <1>1, <1>2 DEF ProcType, Starting
<1> QED
  BY <1>3, <1>4

LEMMA CoordinateStep ==
    ASSUME OneClient, Control, Data, NEW c \in Callers,
           (\E o \in Operations : CoordinateTask(c, o)) \/ CoordinateResume(c) \/ CoordinateRecover(c)
    PROVE  Control' /\ Data' /\ Forward
<1> DEFINE r == store[current]
           s == [Idle EXCEPT !.call = "coordinate_task", !.h = current, !.loc = r]
<1>0. current # 0 /\ UNCHANGED <<current, authority, stopping, lock, store>>
  BY DEF CoordinateTask, CoordinateResume, CoordinateRecover, LocalStep, StoreStep
<1>1. s \in ProcType /\ s.h = current /\ s.loc = r
  BY <1>0, Starts DEF Starting
<1>2. r \in RecordType /\ stopping \subseteq Workers
  BY <1>0, Hosting DEF Control, ControlTypes
<1>3. ASSUME NEW kind \in Kinds, NEW n \in Nat, NEW a \in Nat,
             proc' = [proc EXCEPT ![c] = LockedPhase(s, kind, n, a)],
             \A t : t.name[1] = kind /\ t.name[2] = n /\ t.arg = a => KindAt(t, r)
      PROVE  Control' /\ Data' /\ Forward
  <2> DEFINE s2 == LockedPhase(s, kind, n, a)
  <2>1. Begun(s2, s, "lock", kind, n, a)
    BY <1>1, PhaseType
  <2>2. StepAt(s2, r)
    BY <1>3, <2>1 DEF Begun, StepAt, InMutation
  <2> HIDE DEF s2
  <2>3. proc' = [proc EXCEPT ![c] = s2]
    BY <1>3 DEF s2
  <2> QED
    BY <1>0, <1>1, <1>2, <2>1, <2>2, <2>3, ClientLocal DEF LockStep, Waiting, Begun
<1>4. ASSUME NEW o \in Operations, CoordinateTask(c, o) PROVE Control' /\ Data' /\ Forward
  <2>1. o \in Nat /\ r.phase = "active" /\ proc' = [proc EXCEPT ![c] = LockedPhase(s, "coordinate", o, 0)]
    BY <1>4, CompactAssumption DEF CoordinateTask, Step
  <2>2. "coordinate" \in Kinds
    BY DEF Kinds
  <2>3. ASSUME NEW t, t.name[1] = "coordinate", t.name[2] = o PROVE KindAt(t, r)
    BY <2>1, <2>2, <2>3 DEF KindAt
  <2> QED
    BY <1>3, <2>1, <2>2, <2>3
<1>5. ASSUME CoordinateResume(c) PROVE Control' /\ Data' /\ Forward
  <2>1. r.phase = "active" /\ proc' = [proc EXCEPT ![c] = LockedPhase(s, "resume", r.rgen, r.lease)]
    BY <1>5 DEF CoordinateResume, Step
  <2>2. "resume" \in Kinds /\ r.rgen \in Nat /\ r.lease \in Nat /\ r.lease <= r.lease
    BY <1>2 DEF Kinds, LeaseKinds, RecordType
  <2>3. ASSUME NEW t, t.name[1] = "resume", t.name[2] = r.rgen, t.arg = r.lease PROVE KindAt(t, r)
    BY <2>1, <2>2, <2>3 DEF KindAt
  <2> QED
    BY <1>3, <2>1, <2>2, <2>3
<1>6. ASSUME CoordinateRecover(c) PROVE Control' /\ Data' /\ Forward
  <2>1. /\ r.phase \in {"active"} \cup PendingFinish
        /\ proc' = [proc EXCEPT ![c] = LockedPhase(s, "recover", 0, 0)]
    BY <1>6 DEF CoordinateRecover, Step
  <2>2. "recover" \in Kinds
    BY DEF Kinds
  <2>3. ASSUME NEW t, t.name[1] = "recover", t.name[2] = 0 PROVE KindAt(t, r)
    BY <2>1, <2>2, <2>3 DEF KindAt
  <2> QED
    BY <1>3, <2>1, <2>2, <2>3
<1> QED
  BY <1>4, <1>5, <1>6

LEMMA FinishTaskStep ==
    ASSUME OneClient, Control, Data, NEW c \in Callers, NEW act \in FinishActions, FinishTask(c, act)
    PROVE  Control' /\ Data' /\ Forward
<1> DEFINE r == store[current]
           s == [Idle EXCEPT !.call = "finish_task", !.h = current, !.loc = r, !.act = act]
           v == LockedPhase(s, "verify", 0, 0)
           t == [s EXCEPT !.pc = "stop"]
<1>0. current # 0 /\ UNCHANGED <<current, authority, stopping, lock, store>>
  BY DEF FinishTask, LocalStep, StoreStep
<1>1. s \in ProcType /\ s.h = current /\ s.loc = r
  BY <1>0, Starts DEF Starting
<1>2. r \in RecordType /\ stopping \subseteq Workers
  BY <1>0, Hosting DEF Control, ControlTypes
<1>3. \/ r.phase = "active" /\ (proc' = [proc EXCEPT ![c] = v] \/ proc' = [proc EXCEPT ![c] = t])
      \/ proc' = [proc EXCEPT ![c] = FinishAt(s)]
  BY DEF FinishTask, Step
<1>4. CASE r.phase = "active" /\ proc' = [proc EXCEPT ![c] = v]
  <2>1. "verify" \in Kinds
    BY DEF Kinds
  <2>2. Begun(v, s, "lock", "verify", 0, 0)
    BY <1>1, <2>1, PhaseType
  <2>3. StepAt(v, r)
    BY <1>1, <1>4, <2>1, <2>2 DEF Begun, StepAt, KindAt, InMutation
  <2> HIDE DEF v
  <2> QED
    BY <1>0, <1>1, <1>2, <1>4, <2>2, <2>3, ClientLocal DEF LockStep, Waiting, Begun
<1>5. CASE r.phase = "active" /\ proc' = [proc EXCEPT ![c] = t]
  <2>1. t \in ProcType /\ t.pc = "stop" /\ t.h = current
    BY <1>1 DEF ProcType
  <2>2. StepAt(t, r)
    BY <1>5, <2>1 DEF StepAt, InMutation
  <2> HIDE DEF t
  <2> QED
    BY <1>0, <1>2, <1>5, <2>1, <2>2, ClientLocal DEF LockStep, Waiting
<1>6. CASE proc' = [proc EXCEPT ![c] = FinishAt(s)]
  <2>1. Continues(FinishAt(s), current, r)
    BY <1>1, <1>2, FinishContinues
  <2> QED
    BY <1>0, <1>2, <1>6, <2>1, ClientLocal DEF LockStep, Waiting, Continues
<1> QED
  BY <1>3, <1>4, <1>5, <1>6

\* next_task on a workflow that is not over.
LEMMA NextTaskAgain ==
    ASSUME OneClient, Control, Data, NEW c \in Callers, NextTask(c),
           current # 0, store[current].phase \in ActivePhases
    PROVE  Control' /\ Data' /\ Forward
<1> DEFINE r == store[current]
           s == [Idle EXCEPT !.call = "next_task", !.h = current, !.loc = r]
<1>0. /\ UNCHANGED <<current, authority, stopping, lock, store>>
      /\ proc' = [proc EXCEPT ![c] = NextAt(s)]
  BY DEF NextTask, Step
<1>1. s \in ProcType /\ s.h = current /\ s.loc = r /\ s.call = "next_task"
  BY Starts DEF Starting
<1>2. stopping \subseteq Workers
  BY DEF Control, ControlTypes
<1>3. Continues(NextAt(s), current, r)
  BY <1>1, NextContinues
<1> QED
  BY <1>0, <1>2, <1>3, ClientLocal DEF LockStep, Waiting, Continues
\* next_task reserves a new workflow: its record is blank and no renewal
\* thread serves it.
LEMMA NextTaskNew ==
    ASSUME OneClient, Control, Data, NEW c \in Callers, NextTask(c),
           ~(current # 0 /\ store[current].phase \in ActivePhases)
    PROVE  Control' /\ Data' /\ Forward
<1> DEFINE h == current + 1
           r2 == [Blank EXCEPT !.phase = "selecting"]
           s1 == [Idle EXCEPT !.call = "next_task", !.h = h, !.new = TRUE, !.loc = r2]
           s2 == NextAt(s1)
<1>0. /\ proc[c].pc = "idle" /\ current < MaxHandles /\ current' = h
      /\ store' = [store EXCEPT ![h].phase = "selecting"] /\ proc' = [proc EXCEPT ![c] = s2]
      /\ UNCHANGED <<authority, lock, stopping>>
  BY DEF NextTask, Step
<1>1. /\ ControlTypes /\ c \in Procs /\ h \in Handles /\ h \in 0..MaxHandles /\ h > current /\ h # 0
      /\ \A w \in Workers : w \in Procs /\ w # c /\ w[2] \in Handles /\ WorkerState(w)
  BY <1>0, Hosting DEF Control, ControlTypes
<1>2. store[h] = Blank
  BY <1>1 DEF Control
<1>3. /\ r2 \in RecordType /\ r2.phase = "selecting" /\ r2.intents = Blank.intents
      /\ r2.lease = Blank.lease /\ r2.hgen = Blank.hgen /\ r2.rgen = Blank.rgen
  BY BlankType DEF RecordType, Phases, ActivePhases
<1>4. store' = [store EXCEPT ![h] = r2]
  BY <1>0, <1>2
<1>5. /\ store'[h] = r2 /\ store' \in [Handles -> RecordType]
      /\ \A k \in Handles \ {h} : store'[k] = store[k]
  BY <1>1, <1>3, <1>4 DEF ControlTypes
<1>6. s1 \in ProcType /\ s1.h = h /\ s1.loc = r2 /\ s1.call = "next_task"
  BY <1>1, <1>3, BlankType DEF ProcType
<1> HIDE DEF r2
<1>7. Continues(s2, h, r2)
  BY <1>6, NextContinues
<1>8. s2.pc = "select"
  BY <1>3, <1>6 DEF NextAt
<1> HIDE DEF s2
<1>9. /\ proc' \in [Procs -> ProcType] /\ proc'[c] = s2 /\ \A p \in Procs \ {c} : proc'[p] = proc[p]
  BY <1>0, <1>1, <1>7 DEF ControlTypes, Continues
<1>10. ControlTypes'
  BY <1>0, <1>1, <1>5, <1>9 DEF ControlTypes
<1>11. \A k \in Handles : k > current' => store'[k] = Blank
  BY <1>0, <1>1, <1>5 DEF Control, Handles, ControlTypes
<1>12. ASSUME NEW d \in Callers PROVE CallerState(d)'
  <2>1. d = c
    BY DEF OneClient
  <2>2. s2.h = h /\ StepAt(s2, r2)
    BY <1>7, <1>8 DEF Continues
  <2> QED
    BY <1>0, <1>1, <1>5, <1>8, <1>9, <2>1, <2>2 DEF CallerState, InMutation
<1>13. ASSUME NEW w \in Workers PROVE WorkerState(w)'
  <2>0. proc'[w] = proc[w] /\ WorkerState(w) /\ \A d \in Callers : Host(d)' = Host(d)
    BY <1>1, <1>9 DEF Host
  <2>1. CASE w[2] # h
    BY <1>0, <1>1, <1>5, <2>0, <2>1 DEF WorkerState
  <2>2. CASE w[2] = h
    <3>1. proc[w].pc = "idle"
      BY <1>2, <2>0, <2>2 DEF WorkerState, Blank
    <3> QED
      BY <2>0, <3>1 DEF WorkerState, InMutation
  <2> QED
    BY <2>1, <2>2
<1>14. Control'
  BY <1>10, <1>11, <1>12, <1>13 DEF Control
<1>15. ASSUME NEW k \in Handles
       PROVE  /\ store'[k].intents = store[k].intents /\ store'[k].lease = store[k].lease
              /\ store'[k].hgen = store[k].hgen /\ store'[k].rgen = store[k].rgen
              /\ PhaseMove(store[k].phase, store'[k].phase)
              /\ Rank(store[k].phase) <= Rank(store'[k].phase)
              /\ store[k].lease <= store'[k].lease
  <2>0. store[k].lease \in Nat /\ store[k].phase \in Phases
    BY <1>1 DEF ControlTypes, RecordType
  <2>1. CASE k # h
    BY <1>5, <2>0, <2>1, RankType DEF PhaseMove
  <2>2. CASE k = h
    <3>1. Rank("absent") <= Rank("selecting") /\ PhaseMove("absent", "selecting")
      BY DEF Rank, FinalPhases, PhaseMove, Early
    <3>2. store[k].phase = "absent"
      BY <1>2, <2>2 DEF Blank
    <3>3. /\ store'[k].phase = "selecting" /\ store'[k].intents = store[k].intents
          /\ store'[k].lease = store[k].lease /\ store'[k].hgen = store[k].hgen
          /\ store'[k].rgen = store[k].rgen
      BY <1>2, <1>3, <1>5, <2>2
    <3>4. store[k].lease <= store'[k].lease
      BY <2>0, <3>3
    <3> QED
      BY <3>1, <3>2, <3>3, <3>4
  <2> QED
    BY <2>1, <2>2
<1>16. \A p \in Procs : proc'[p].pc \notin Waiting \/ (proc'[p] = proc[p] /\ proc[p].h \in Handles)
  <2>1. ASSUME NEW p \in Procs, p # c, proc[p].pc \in Waiting PROVE proc[p].h \in Handles
    BY <2>1, OnHandle DEF Waiting
  <2> QED
    BY <1>8, <1>9, <2>1 DEF Waiting
<1>17. Data'
  BY <1>0, <1>15, <1>16, DataKept
<1> QED
  BY <1>14, <1>15, <1>17 DEF Forward

LEMMA EnsureRenewalStep ==
    ASSUME OneClient, Control, Data, NEW c \in Callers, EnsureRenewal(c)
    PROVE  Control' /\ Data' /\ Forward
<1> DEFINE s == proc[c]
           r == store[current]
           w == <<Host(c), current>>
           s2 == IF s.loc.phase = "context_pending" THEN [s EXCEPT !.pc = "context"] ELSE Idle
           v == IF proc[w].pc = "idle" THEN [Idle EXCEPT !.pc = "wait", !.call = "renewal", !.h = current]
                ELSE proc[w]
<1>0. s.pc = "ensure" /\ UNCHANGED <<store, current, authority, stopping, lock>>
  BY DEF EnsureRenewal, LocalStep, StoreStep
<1>1. /\ s.h = current /\ current # 0 /\ current \in Handles /\ StepAt(s, r) /\ s \in ProcType
      /\ c \in Procs /\ w \in Workers /\ w \in Procs /\ w # c /\ ControlTypes /\ w[1] = Host(c) /\ w[2] = current
      /\ \A x \in Workers : x \in Procs /\ x # c /\ WorkerState(x)
  BY <1>0, ClientAt, Hosting DEF Control
<1>2. proc' = [proc EXCEPT ![c] = s2, ![w] = v]
  BY <1>1 DEF EnsureRenewal
<1>3. s.call = "next_task" /\ r.phase \in {"context_pending", "active"} /\ s.loc.phase = r.phase
  BY <1>0, <1>1 DEF StepAt
<1>4. /\ s2 \in ProcType /\ s2.pc \in {"idle", "context"} /\ (s2.pc = "idle" => s2 = Idle)
      /\ s2.pc # "idle" => s2.h = current /\ StepAt(s2, r)
  <2>1. CASE s.loc.phase = "context_pending"
    <3>1. s2 \in ProcType /\ s2.pc = "context" /\ s2.h = current /\ s2.call = s.call
      BY <1>1, <2>1 DEF ProcType
    <3> QED
      BY <1>3, <2>1, <3>1 DEF StepAt, InMutation
  <2>2. CASE s.loc.phase # "context_pending"
    BY <2>2, BlankType DEF Idle
  <2> QED
    BY <2>1, <2>2
<1>5. /\ v \in ProcType /\ (proc[w].pc = "idle" => v.pc = "wait" /\ v.h = current)
      /\ proc[w].pc # "idle" => v = proc[w]
  <2>1. proc[w] \in ProcType /\ current \in 0..MaxHandles
    BY <1>1 DEF ControlTypes
  <2> QED
    BY <2>1, BlankType DEF ProcType
<1> HIDE DEF s2, v
<1>6. /\ proc' \in [Procs -> ProcType] /\ proc'[c] = s2 /\ proc'[w] = v
      /\ \A p \in Procs \ {c, w} : proc'[p] = proc[p]
  BY <1>1, <1>2, <1>4, <1>5 DEF ControlTypes
<1>7. ControlTypes' /\ \A k \in Handles : k > current' => store'[k] = Blank
  BY <1>0, <1>1, <1>6 DEF ControlTypes, Control
<1>8. ASSUME NEW d \in Callers PROVE CallerState(d)'
  <2>1. d = c
    BY DEF OneClient
  <2> QED
    BY <1>0, <1>1, <1>4, <1>6, <2>1 DEF CallerState, InMutation
<1>9. ASSUME NEW x \in Workers PROVE WorkerState(x)'
  <2>0. \A d \in Callers : Host(d)' = Host(d)
    BY DEF Host
  <2>1. CASE x = w /\ proc[w].pc = "idle"
    <3>1. proc'[x].pc = "wait" /\ proc'[x].h = x[2] /\ x[1] = Host(c) /\ store'[x[2]].phase = r.phase
      BY <1>0, <1>1, <1>5, <1>6, <2>1
    <3> QED
      BY <1>3, <2>0, <3>1 DEF WorkerState, InMutation
  <2>2. CASE ~(x = w /\ proc[w].pc = "idle")
    <3>1. proc'[x] = proc[x] /\ WorkerState(x)
      BY <1>1, <1>5, <1>6, <2>2
    <3> QED
      BY <1>0, <2>0, <3>1 DEF WorkerState
  <2> QED
    BY <2>1, <2>2
<1>10. Control'
  BY <1>7, <1>8, <1>9 DEF Control
<1>11. \A p \in Procs : proc'[p].pc \notin Waiting \/ (proc'[p] = proc[p] /\ proc[p].h \in Handles)
  <2>1. ASSUME NEW p \in Procs, proc[p].pc \in Waiting PROVE proc[p].h \in Handles
    BY <2>1, OnHandle DEF Waiting
  <2> QED
    BY <1>4, <1>5, <1>6, <2>1 DEF Waiting
<1>12. \A k \in Handles : store[k].phase \in Phases /\ store[k].lease \in Nat
  BY <1>1 DEF ControlTypes, RecordType
<1>13. Data'
  BY <1>0, <1>11, DataKept DEF PhaseMove
<1> QED
  BY <1>0, <1>10, <1>12, <1>13, RankType DEF Forward
-----------------------------------------------------------------------------
(* The environment *)

LEMMA HostCrashStep ==
    ASSUME Control, Data, NEW x \in Hosts, HostCrash(x)
    PROVE  Control' /\ Data' /\ Forward
<1>0. /\ UNCHANGED <<store, current, authority>> /\ lock' = [lock EXCEPT ![x] = NoProcess]
      /\ proc' = [p \in Procs |-> IF Host(p) = x THEN Idle ELSE proc[p]]
      /\ stopping' \subseteq stopping /\ ControlTypes
      /\ \A p : Host(p)' = Host(p)
  BY DEF HostCrash, Control, Host
<1>1. ControlTypes' /\ \A k \in Handles : k > current' => store'[k] = Blank
  BY <1>0, BlankType DEF ControlTypes, Control
<1>2. Idle.pc = "idle"
  BY DEF Idle
<1>3. ASSUME NEW c \in Callers PROVE CallerState(c)'
  <2>0. c \in Procs /\ Host(c) \in Hosts /\ CallerState(c)
    BY Hosting DEF Control
  <2>1. CASE Host(c) = x
    BY <1>0, <1>2, <2>0, <2>1 DEF CallerState, InMutation
  <2>2. CASE Host(c) # x
    <3>1. proc'[c] = proc[c] /\ lock'[Host(c)] = lock[Host(c)]
      BY <1>0, <2>0, <2>2 DEF ControlTypes
    <3>2. proc[c].pc = "begin" => proc'[<<Host(c), proc[c].h>>].pc = "idle"
      <4>1. ASSUME proc[c].pc = "begin" PROVE <<Host(c), proc[c].h>> \in Procs
        BY <2>0, <4>1, OnHandle, Hosting
      <4> QED
        BY <1>0, <1>2, <2>0, <4>1 DEF CallerState
    <3> QED
      BY <1>0, <2>0, <3>1, <3>2 DEF CallerState
  <2> QED
    BY <2>1, <2>2
<1>4. ASSUME NEW w \in Workers PROVE WorkerState(w)'
  <2>0. w \in Procs /\ Host(w) = w[1] /\ w[1] \in Hosts /\ WorkerState(w)
    BY Hosting DEF Control
  <2>1. CASE w[1] = x
    BY <1>0, <1>2, <2>0, <2>1 DEF WorkerState, InMutation
  <2>2. CASE w[1] # x
    <3>1. proc'[w] = proc[w] /\ lock'[w[1]] = lock[w[1]]
      BY <1>0, <2>0, <2>2 DEF ControlTypes
    <3> QED
      BY <1>0, <2>0, <3>1 DEF WorkerState
  <2> QED
    BY <2>1, <2>2
<1>5. Control'
  BY <1>1, <1>3, <1>4 DEF Control
<1>6. \A p \in Procs : proc'[p].pc \notin Waiting \/ (proc'[p] = proc[p] /\ proc[p].h \in Handles)
  <2>1. ASSUME NEW p \in Procs, proc[p].pc \in Waiting PROVE proc[p].h \in Handles
    BY <2>1, OnHandle DEF Waiting
  <2> QED
    BY <1>0, <1>2, <2>1 DEF Waiting
<1>7. \A k \in Handles : store[k].phase \in Phases /\ store[k].lease \in Nat
  BY <1>0 DEF ControlTypes, RecordType
<1>8. Data'
  BY <1>0, <1>6, DataKept DEF PhaseMove
<1> QED
  BY <1>0, <1>5, <1>7, <1>8, RankType DEF Forward

LEMMA OtherCommitStep ==
    ASSUME Control, Data, OtherCommit
    PROVE  Control' /\ Data' /\ Forward
<1>0. /\ UNCHANGED <<store, current, proc, lock, stopping>>
      /\ authority' = [authority EXCEPT !.revision = @ + 1] /\ authority \in AuthorityType
  BY DEF OtherCommit, Data
<1>1. authority' \in AuthorityType /\ authority'.log = authority.log /\ authority'.attempt = authority.attempt
  BY <1>0 DEF AuthorityType
<1>2. Control'
  <2>1. \A c \in Callers : CallerState(c)'
    BY <1>0 DEF Control, CallerState, Host
  <2>2. \A w \in Workers : WorkerState(w)'
    BY <1>0 DEF Control, WorkerState, Host
  <2> QED
    BY <1>0, <2>1, <2>2 DEF Control, ControlTypes
<1>3. \A p \in Procs : IntentState(p)'
  BY <1>0, <1>1 DEF Data, IntentState, Entries
<1>4. \A h \in Handles : LeaseState(h)'
  BY <1>0, <1>1 DEF Data, LeaseState, Issues
<1>5. Data'
  BY <1>0, <1>1, <1>3, <1>4 DEF Data, ReplayIsExact, EffectOnce, KeysMatch
<1>6. \A k \in Handles : store[k].phase \in Phases /\ store[k].lease \in Nat
  BY DEF Control, ControlTypes, RecordType
<1> QED
  BY <1>0, <1>2, <1>5, <1>6, RankType DEF Forward
-----------------------------------------------------------------------------
(* Mutations *)

\* A mutation goes on: nothing changes but the intents of its record and its
\* own position.
LEMMA PhaseControl ==
    ASSUME OneClient, Control, NEW p \in Procs, NEW s2 \in ProcType, NEW r2 \in RecordType,
           proc[p].pc \in InMutation, s2.pc \in InMutation, s2.name = proc[p].name,
           s2.h = proc[p].h, s2.arg = proc[p].arg, s2.call = proc[p].call,
           r2.phase = store[proc[p].h].phase, r2.lease = store[proc[p].h].lease,
           r2.hgen = store[proc[p].h].hgen, r2.rgen = store[proc[p].h].rgen,
           (s2.loc = proc[p].loc /\ r2 = store[proc[p].h]) \/ s2.loc = r2,
           proc' = [proc EXCEPT ![p] = s2], store' = [store EXCEPT ![proc[p].h] = r2],
           UNCHANGED <<current, lock, stopping>>
    PROVE  Control' /\ Forward
<1> DEFINE s == proc[p]
           r == store[proc[p].h]
<1>0. /\ ControlTypes /\ "idle" \notin InMutation /\ s.pc # "begin" /\ s2.pc # "begin" /\ s2.pc # "wait"
      /\ s.h \in Handles
  BY OnHandle DEF Control, InMutation
<1>1. /\ lock' \in [Hosts -> Procs \cup {NoProcess}] /\ stopping' \subseteq Workers /\ r \in RecordType
  BY <1>0 DEF ControlTypes
<1>2. r.lease \in Nat /\ r2.lease \in Nat /\ r.lease <= r2.lease
  BY <1>1 DEF RecordType
<1>3. ASSUME p \in Callers PROVE Control'
  <2>1. /\ s.h = current /\ current # 0 /\ StepAt(s, r) /\ CallerState(p)
        /\ <<Host(p), current>> \in Workers /\ <<Host(p), current>>[2] = current
    BY <1>0, <1>3, ClientAt, Hosting DEF Control
  <2>2. KindAt(s, r)
    BY <2>1 DEF StepAt
  <2>3. KindAt(s2, r2)
    BY <1>2, <2>2 DEF KindAt
  <2>4. StepAt(s2, r2)
    BY <1>0, <2>3 DEF StepAt, InMutation
  <2>5. s2.name[1] \in LockedKinds => lock'[Host(p)] = p
    BY <2>1 DEF CallerState, LockedKinds
  <2>6. proc[<<Host(p), current>>].pc # "idle" => r2.phase \in Running
    BY <2>1 DEF Control, WorkerState, Running
  <2>7. /\ store' = [store EXCEPT ![current] = r2] /\ current' = current
        /\ r2.hgen = store[current].hgen /\ store[current].lease <= r2.lease
        /\ \A w \in Workers : lock[w[1]] = w => lock'[w[1]] = w
        /\ s2.h = current /\ s2.pc # "idle"
    BY <1>0, <1>2, <2>1
  <2> QED
    BY <1>0, <1>1, <1>3, <2>1, <2>4, <2>5, <2>6, <2>7, CallerControl
<1>4. ASSUME p \in Workers PROVE Control'
  <2>1. WorkerState(p) /\ p[2] = s.h
    BY <1>0, <1>4 DEF Control, WorkerState
  <2>2. s2.name = <<"heartbeat", r2.hgen>> /\ s2.arg <= r2.lease /\ lock'[p[1]] = p
    BY <2>1 DEF WorkerState
  <2>3. /\ store' = [store EXCEPT ![p[2]] = r2] /\ current' = current /\ s2.h = p[2]
        /\ r2.phase = store[p[2]].phase /\ r2.rgen = store[p[2]].rgen /\ store[p[2]].lease <= r2.lease
        /\ \A q \in Procs \ {p} : lock[Host(q)] = q => lock'[Host(q)] = q
        /\ proc[p].pc # "idle" /\ s2.pc \in InMutation \cup {"idle", "wait"}
    BY <1>0, <1>2, <2>1
  <2> QED
    BY <1>1, <1>4, <2>2, <2>3, WorkerControl
<1>5. Control'
  BY <1>3, <1>4 DEF Procs
<1>6. ASSUME NEW k \in Handles
      PROVE  Rank(store[k].phase) <= Rank(store'[k].phase) /\ store[k].lease <= store'[k].lease
  <2>1. store'[k].phase = store[k].phase /\ store'[k].lease = store[k].lease
    BY <1>0 DEF ControlTypes
  <2>2. store[k].phase \in Phases /\ store[k].lease \in Nat
    BY <1>0 DEF ControlTypes, RecordType
  <2> QED
    BY <2>1, <2>2, RankType
<1> QED
  BY <1>5, <1>6 DEF Forward

\* A call or a renewal thread ends and leaves the record alone.
LEMMA ReturnControl ==
    ASSUME OneClient, Control, NEW p \in Procs, proc[p].pc # "idle",
           proc' = [proc EXCEPT ![p] = Idle], lock' = Freed(p), UNCHANGED <<store, current, stopping>>
    PROVE  Control' /\ Forward
<1>0. /\ ControlTypes /\ proc[p].h \in Handles /\ Idle \in ProcType /\ Idle.pc = "idle" /\ stopping' \subseteq Workers
      /\ "idle" \notin InMutation
  BY OnHandle, BlankType DEF Control, ControlTypes, Idle, InMutation
<1>1. /\ lock' \in [Hosts -> Procs \cup {NoProcess}]
      /\ \A q \in Procs \ {p} : lock[Host(q)] = q => lock'[Host(q)] = q
  BY <1>0, LockOthers DEF LockStep
<1>2. /\ store[proc[p].h] \in RecordType /\ store' = [store EXCEPT ![proc[p].h] = store[proc[p].h]]
  BY <1>0, RecordAt
<1>3. \A k \in Handles : store[k].phase \in Phases /\ store[k].lease \in Nat
  BY <1>0 DEF ControlTypes, RecordType
<1>4. store[proc[p].h].lease <= store[proc[p].h].lease
  BY <1>0, <1>3
<1>5. ASSUME p \in Callers PROVE Control'
  <2>1. proc[p].h = current /\ current # 0
    BY <1>5, ClientAt
  <2>2. /\ \A w \in Workers : lock[w[1]] = w => lock'[w[1]] = w
        /\ proc[<<Host(p), current>>].pc # "idle" => store[current].phase \in Running
    BY <1>0, <1>1, <1>5, <2>1, Hosting DEF Control, WorkerState, Running
  <2>3. /\ store[current] \in RecordType /\ store' = [store EXCEPT ![current] = store[current]]
        /\ current' = current /\ store[current].lease <= store[current].lease
        /\ Idle.pc \notin InMutation /\ Idle.pc # "begin"
    BY <1>0, <1>2, <1>4, <2>1
  <2> QED
    BY <1>0, <1>1, <1>5, <2>1, <2>2, <2>3, CallerControl
<1>6. ASSUME p \in Workers PROVE Control'
  <2>1. proc[p].h = p[2]
    BY <1>6 DEF Control, WorkerState
  <2>2. /\ store[p[2]] \in RecordType /\ store' = [store EXCEPT ![p[2]] = store[p[2]]]
        /\ current' = current /\ store[p[2]].lease <= store[p[2]].lease
        /\ Idle.pc \notin InMutation /\ Idle.pc \in InMutation \cup {"idle", "wait"}
    BY <1>0, <1>2, <1>4, <2>1
  <2> QED
    BY <1>0, <1>1, <1>6, <2>2, WorkerControl
<1>7. Control'
  BY <1>5, <1>6 DEF Procs
<1> QED
  BY <1>3, <1>7, RankType DEF Forward

\* A return without a word from the authority.
LEMMA ReturnStep ==
    ASSUME OneClient, Control, Data, NEW p \in Procs, proc[p].pc # "idle",
           proc' = [proc EXCEPT ![p] = Idle], lock' = Freed(p),
           UNCHANGED <<store, current, stopping, authority>>
    PROVE  Control' /\ Data' /\ Forward
<1>1. Control' /\ Forward
  BY ReturnControl
<1>2. \A q \in Procs : proc'[q].pc \notin Waiting \/ (proc'[q] = proc[q] /\ proc[q].h \in Handles)
  <2>1. ASSUME NEW q \in Procs, proc[q].pc \in Waiting PROVE proc[q].h \in Handles
    BY <2>1, OnHandle DEF Waiting
  <2>2. Idle.pc \notin Waiting
    BY DEF Idle, Waiting
  <2> QED
    BY <2>1, <2>2 DEF Control, ControlTypes
<1>3. Data'
  BY <1>2, DataKept DEF PhaseMove
<1> QED
  BY <1>1, <1>3
LEMMA IntentMapType ==
    /\ \A m \in IntentMaps : DOMAIN m \subseteq Names /\ m \in [DOMAIN m -> IntentType]
    /\ \A D \in SUBSET Names : [D -> IntentType] \subseteq IntentMaps
  BY DEF IntentMaps

LEMMA WithIntentType ==
    ASSUME NEW m \in IntentMaps, NEW name \in Names, NEW i \in IntentType
    PROVE  /\ WithIntent(m, name, i) \in IntentMaps
           /\ name \in DOMAIN WithIntent(m, name, i) /\ WithIntent(m, name, i)[name] = i
           /\ \A n \in DOMAIN m \ {name} :
                 n \in DOMAIN WithIntent(m, name, i) /\ WithIntent(m, name, i)[n] = m[n]
<1>1. DOMAIN m \cup {name} \in SUBSET Names /\ m \in [DOMAIN m -> IntentType]
  BY IntentMapType
<1>2. WithIntent(m, name, i) \in [DOMAIN m \cup {name} -> IntentType]
  BY <1>1 DEF WithIntent
<1> QED
  BY <1>1, <1>2, IntentMapType DEF WithIntent

\* A process that is making a mutation.
LEMMA MutationAt ==
    ASSUME Control, NEW p \in Procs, proc[p].pc \in InMutation
    PROVE  /\ proc[p].h \in Handles /\ proc[p] \in ProcType /\ store[proc[p].h] \in RecordType
           /\ store[proc[p].h].intents \in IntentMaps /\ proc[p].name \in Names
<1>1. proc[p].pc # "idle"
  BY DEF InMutation
<1>2. proc[p].h \in Handles /\ proc[p] \in ProcType
  BY <1>1, OnHandle DEF Control, ControlTypes
<1>3. store[proc[p].h] \in RecordType
  BY <1>2 DEF Control, ControlTypes
<1> QED
  BY <1>2, <1>3 DEF RecordType, ProcType

LEMMA PhaseIntentStep ==
    ASSUME OneClient, Control, Data, NEW p \in Procs, PhaseIntent(p)
    PROVE  Control' /\ Data' /\ Forward
<1> DEFINE s == proc[p]
           h == proc[p].h
           r == store[proc[p].h]
           fresh == [arg |-> s.arg, revision |-> IntentRevision(s), generation |-> 0]
           m == IF s.name \in DOMAIN r.intents THEN r.intents ELSE WithIntent(r.intents, s.name, fresh)
           kept == [r EXCEPT !.intents = m]
           s2 == [s EXCEPT !.pc = "invoke", !.loc = kept, !.intent = m[s.name]]
<1>0. s.pc = "intent" /\ UNCHANGED <<current, authority, stopping>>
  BY DEF PhaseIntent, StoreStep
<1>1. /\ s.pc \in InMutation /\ h \in Handles /\ s \in ProcType /\ r \in RecordType
      /\ r.intents \in IntentMaps /\ s.name \in Names
  BY <1>0, MutationAt DEF InMutation
<1>2. fresh \in IntentType
  <2>1. s.arg \in Nat /\ s.loc \in RecordType
    BY <1>1 DEF ProcType
  <2>2. s.loc.observed \in Nat /\ authority.revision \in Nat
    BY <2>1 DEF RecordType, Data, AuthorityType
  <2> QED
    BY <2>1, <2>2 DEF IntentRevision, IntentType
<1> HIDE DEF fresh
<1>3. /\ m \in IntentMaps /\ s.name \in DOMAIN m /\ m[s.name] \in IntentType
      /\ \A n \in DOMAIN r.intents \ {s.name} : n \in DOMAIN m /\ m[n] = r.intents[n]
      /\ s.name \in DOMAIN r.intents => m = r.intents
  <2>1. CASE s.name \in DOMAIN r.intents
    BY <1>1, <2>1, IntentMapType
  <2>2. CASE s.name \notin DOMAIN r.intents
    BY <1>1, <1>2, <2>2, WithIntentType
  <2> QED
    BY <2>1, <2>2
<1>4. kept = IF s.name \in DOMAIN r.intents THEN r
             ELSE [r EXCEPT !.intents = WithIntent(r.intents, s.name, fresh)]
  BY <1>1 DEF RecordType
<1>5. \/ proc' = [proc EXCEPT ![p] = Idle] /\ lock' = Freed(p) /\ store' = store
      \/ /\ m[s.name].arg = s.arg /\ store' = [store EXCEPT ![h] = kept] /\ lock' = lock
         /\ proc' = [proc EXCEPT ![p] = s2]
  <2>1. kept.intents = m
    BY <1>1 DEF RecordType
  <2> HIDE DEF m, kept
  <2> QED
    BY <1>4, <2>1 DEF PhaseIntent, Return, Step, fresh
<1>6. CASE proc' = [proc EXCEPT ![p] = Idle] /\ lock' = Freed(p) /\ store' = store
  BY <1>0, <1>6, ReturnStep
<1>7. CASE /\ m[s.name].arg = s.arg /\ store' = [store EXCEPT ![h] = kept] /\ lock' = lock
           /\ proc' = [proc EXCEPT ![p] = s2]
  <2> HIDE DEF m
  <2>1. /\ kept \in RecordType /\ kept.intents = m /\ kept.phase = r.phase /\ kept.lease = r.lease
        /\ kept.hgen = r.hgen /\ kept.rgen = r.rgen
    BY <1>1, <1>3 DEF RecordType
  <2>2. /\ s2 \in ProcType /\ s2.pc = "invoke" /\ s2.name = s.name /\ s2.h = h /\ s2.arg = s.arg
        /\ s2.call = s.call /\ s2.loc = kept /\ s2.intent = m[s.name]
    <3> HIDE DEF kept
    <3> QED
      BY <1>1, <1>3, <2>1 DEF ProcType, InMutation
  <2>3. Control' /\ Forward
    <3> HIDE DEF kept, s2
    <3> QED
      BY <1>0, <1>1, <1>7, <2>1, <2>2, PhaseControl DEF InMutation
  <2>4. store' = [store EXCEPT ![h] = [@ EXCEPT !.intents = m]]
    BY <1>1, <1>7
  <2>5. Entries(h, s.name) = {} \/ (s.name \in DOMAIN m /\ m[s.name] = r.intents[s.name])
    <3>1. CASE s.name \in DOMAIN r.intents
      BY <1>3, <3>1
    <3>2. CASE s.name \notin DOMAIN r.intents
      <4>1. \A e \in authority.log : e.key.name \in DOMAIN store[e.key.handle].intents
        BY DEF Data, ReplayIsExact
      <4> QED
        BY <3>2, <4>1 DEF Entries
    <3> QED
      BY <3>1, <3>2
  <2>6. proc'[p] = s2 /\ store'[h].intents = m
    BY <1>1, <1>7, <2>1 DEF Control, ControlTypes
  <2> HIDE DEF kept, s2
  <2>7. IntentState(p)'
    BY <1>3, <1>7, <2>2, <2>6 DEF IntentState
  <2>8. /\ \A n \in DOMAIN r.intents \ {s2.name} : n \in DOMAIN m /\ m[n] = r.intents[n]
        /\ Entries(h, s2.name) = {} \/ (s2.name \in DOMAIN m /\ m[s2.name] = r.intents[s2.name])
    BY <1>3, <2>2, <2>5
  <2>9. Data'
    <3>1. s2.name = s.name /\ s2.h = h /\ proc' = [proc EXCEPT ![p] = s2] /\ authority' = authority
      BY <1>0, <1>7, <2>2
    <3> QED
      BY <1>1, <2>4, <2>7, <2>8, <3>1, IntentData
  <2> QED
    BY <2>3, <2>9
<1> QED
  BY <1>5, <1>6, <1>7

LEMMA ObserveRevisionStep ==
    ASSUME OneClient, Control, Data, NEW p \in Procs, ObserveRevision(p)
    PROVE  Control' /\ Data' /\ Forward
<1> DEFINE s == proc[p]
           h == proc[p].h
           r == store[proc[p].h]
           s2 == [s EXCEPT !.pc = "refresh", !.val = authority.revision]
<1>0. /\ s.pc = "observe" /\ UNCHANGED <<store, current, authority, stopping, lock>>
      /\ proc' = [proc EXCEPT ![p] = s2]
  BY DEF ObserveRevision, LocalStep, StoreStep, Step
<1>1. /\ s.pc \in InMutation /\ h \in Handles /\ s \in ProcType /\ r \in RecordType
  BY <1>0, MutationAt DEF InMutation
<1>2. authority.revision \in Nat
  BY DEF Data, AuthorityType
<1>3. /\ s2 \in ProcType /\ s2.pc = "refresh" /\ s2.name = s.name /\ s2.h = h /\ s2.arg = s.arg
      /\ s2.call = s.call /\ s2.loc = s.loc
  BY <1>1, <1>2 DEF ProcType, InMutation
<1>4. store' = [store EXCEPT ![h] = r] /\ store' = [store EXCEPT ![h] = [@ EXCEPT !.intents = r.intents]]
  <2>1. [r EXCEPT !.intents = r.intents] = r
    BY <1>1 DEF RecordType
  <2> QED
    BY <1>0, <1>1, <2>1, RecordAt
<1>5. proc'[p] = s2
  BY <1>0, <1>1 DEF Control, ControlTypes
<1>6. Entries(h, s.name) = {}
  BY <1>0 DEF Data, IntentState
<1> HIDE DEF s2
<1>7. IntentState(p)'
  BY <1>0, <1>3, <1>5, <1>6 DEF IntentState, Entries
<1>8. Control' /\ Forward
  BY <1>0, <1>1, <1>3, <1>4, PhaseControl DEF InMutation
<1>9. Data'
  BY <1>0, <1>1, <1>3, <1>4, <1>6, <1>7, IntentData
<1> QED
  BY <1>8, <1>9
LEMMA RefreshIntentStep ==
    ASSUME OneClient, Control, Data, NEW p \in Procs, RefreshIntent(p)
    PROVE  Control' /\ Data' /\ Forward
<1> DEFINE s == proc[p]
           h == proc[p].h
           r == store[proc[p].h]
           old == r.intents[s.name]
           next == IF old.revision = s.val THEN old
                   ELSE [old EXCEPT !.revision = s.val, !.generation = @ + 1]
           m == [r.intents EXCEPT ![s.name] = next]
           kept == [r EXCEPT !.intents = m]
           s2 == [s EXCEPT !.pc = "intent", !.retry = 1, !.loc = kept]
<1>0. s.pc = "refresh" /\ UNCHANGED <<current, authority, stopping>>
  BY DEF RefreshIntent, StoreStep
<1>1. /\ s.pc \in InMutation /\ h \in Handles /\ s \in ProcType /\ r \in RecordType
      /\ r.intents \in IntentMaps /\ s.name \in Names
  BY <1>0, MutationAt DEF InMutation
<1>2. \/ proc' = [proc EXCEPT ![p] = Idle] /\ lock' = Freed(p) /\ store' = store
      \/ /\ s.name \in DOMAIN r.intents /\ store' = [store EXCEPT ![h] = kept] /\ lock' = lock
         /\ proc' = [proc EXCEPT ![p] = s2]
  <2>1. [r EXCEPT !.intents[s.name] = next] = kept
    <3> HIDE DEF next
    <3> QED
      BY <1>1 DEF RecordType
  <2> QED
    BY <2>1 DEF RefreshIntent, Return, Step
<1>3. CASE proc' = [proc EXCEPT ![p] = Idle] /\ lock' = Freed(p) /\ store' = store
  BY <1>0, <1>3, ReturnStep
<1>4. CASE /\ s.name \in DOMAIN r.intents /\ store' = [store EXCEPT ![h] = kept] /\ lock' = lock
           /\ proc' = [proc EXCEPT ![p] = s2]
  <2>1. old \in IntentType /\ s.val \in Nat
    BY <1>1, <1>4, IntentMapType DEF ProcType
  <2>2. next \in IntentType
    <3> HIDE DEF old
    <3>1. old.generation + 1 \in Nat
      BY <2>1 DEF IntentType
    <3>2. [old EXCEPT !.revision = s.val, !.generation = @ + 1] \in IntentType
      BY <2>1, <3>1 DEF IntentType
    <3> QED
      BY <2>1, <3>2
  <2> HIDE DEF next
  <2>3. /\ m \in IntentMaps /\ \A n \in DOMAIN r.intents \ {s.name} : n \in DOMAIN m /\ m[n] = r.intents[n]
    <3>1. r.intents \in [DOMAIN r.intents -> IntentType] /\ DOMAIN r.intents \in SUBSET Names
      BY <1>1, IntentMapType
    <3>2. m \in [DOMAIN r.intents -> IntentType]
      BY <2>2, <3>1
    <3> QED
      BY <3>1, <3>2, IntentMapType
  <2> HIDE DEF m
  <2>4. /\ kept \in RecordType /\ kept.intents = m /\ kept.phase = r.phase /\ kept.lease = r.lease
        /\ kept.hgen = r.hgen /\ kept.rgen = r.rgen
    BY <1>1, <2>3 DEF RecordType
  <2>5. store' = [store EXCEPT ![h] = [@ EXCEPT !.intents = m]]
    BY <1>1, <1>4
  <2> HIDE DEF kept
  <2>6. /\ s2 \in ProcType /\ s2.pc = "intent" /\ s2.name = s.name /\ s2.h = h /\ s2.arg = s.arg
        /\ s2.call = s.call /\ s2.loc = kept
    BY <1>1, <2>4 DEF ProcType, InMutation
  <2>7. proc'[p] = s2
    BY <1>1, <1>4 DEF Control, ControlTypes
  <2> HIDE DEF s2
  <2>8. Control' /\ Forward
    BY <1>0, <1>1, <1>4, <2>4, <2>6, PhaseControl DEF InMutation
  <2>9. IntentState(p)'
    BY <2>6, <2>7 DEF IntentState
  <2>10. Entries(h, s2.name) = {} /\ \A n \in DOMAIN r.intents \ {s2.name} : n \in DOMAIN m /\ m[n] = r.intents[n]
    BY <1>0, <2>3, <2>6 DEF Data, IntentState
  <2>11. s2.name = s.name /\ s2.h = h /\ proc' = [proc EXCEPT ![p] = s2] /\ authority' = authority
    BY <1>0, <1>4, <2>6
  <2>12. Data'
    BY <1>1, <2>5, <2>9, <2>10, <2>11, IntentData
  <2> QED
    BY <2>8, <2>12
<1> QED
  BY <1>2, <1>3, <1>4

-----------------------------------------------------------------------------
(* Commits *)

\* A request that issues a lease follows a recorded lease, and its answer is
\* the only one that is not recorded.
LEMMA LeaseIssued ==
    ASSUME Data, NEW h \in Handles, NEW e0 \in EntryType, NEW r \in RecordType, r = store[h],
           authority' \in AuthorityType, authority'.log = authority.log \cup {e0}, store' = store,
           e0.key.handle = h, e0.key.name[1] \in {"dispatch_attempt"} \cup LeaseKinds,
           authority'.attempt[h].state = "running",
           authority'.attempt[h].lease = authority.attempt[h].lease + 1,
           e0.lease = authority.attempt[h].lease + 1,
           r.lease = authority.attempt[h].lease, Unrecorded(e0, r), r.phase \notin Early
    PROVE  LeaseState(h)'
<1> DEFINE t == authority.attempt[h]
           t2 == authority'.attempt[h]
<1>1. Issues(h)' = Issues(h) \cup {e0}
  BY DEF Issues
<1>2. /\ t.lease \in Nat /\ t2.lease \in Nat /\ r.lease \in Nat /\ r.hgen \in Nat /\ r.rgen \in Nat
      /\ \A e \in Issues(h) : e.lease \in Nat
  BY DEF Data, AuthorityType, EntryType, RecordType, Issues
<1>3. ASSUME NEW e \in Issues(h)
      PROVE  /\ ~Unrecorded(e, r) /\ e.lease <= r.lease
             /\ e.key.name[1] = "heartbeat" => e.key.name[2] <= r.hgen
             /\ e.key.name[1] = "resume" => e.key.name[2] <= r.rgen
  BY <1>2 DEF Data, LeaseState
<1>4. /\ e0.key.name[1] = "heartbeat" => e0.key.name[2] <= r.hgen
      /\ e0.key.name[1] = "resume" => e0.key.name[2] <= r.rgen
  BY <1>2 DEF Unrecorded
<1>5. /\ t2.lease = t.lease + 1 /\ r.lease < t2.lease /\ r.lease <= t2.lease /\ e0.lease = t2.lease
      /\ t2.lease <= t2.lease /\ e0.lease <= t2.lease
  BY <1>2
<1>6. ASSUME NEW e \in Issues(h)' 
      PROVE  /\ e.lease <= t2.lease
             /\ IF Unrecorded(e, r) THEN e.lease = t2.lease /\ r.lease < t2.lease ELSE e.lease <= r.lease
             /\ e.key.name[1] = "heartbeat" => e.key.name[2] <= r.hgen
             /\ e.key.name[1] = "resume" => e.key.name[2] <= r.rgen
  <2>1. CASE e = e0
    BY <1>4, <1>5, <2>1
  <2>2. CASE e \in Issues(h)
    BY <1>2, <1>3, <1>5, <2>2
  <2> QED
    BY <1>1, <2>1, <2>2
<1>7. \A e, f \in Issues(h)' : e.lease = f.lease => e = f
  <2>1. \A e \in Issues(h) : e.lease # e0.lease
    BY <1>2, <1>3, <1>5
  <2>2. \A e, f \in Issues(h) : e.lease = f.lease => e = f
    BY DEF Data, LeaseState
  <2> QED
    BY <1>1, <2>1, <2>2
<1>8. e0 \in Issues(h)'
  BY <1>1
<1>9. t2.state = "running" /\ store'[h] = r
  OBVIOUS
<1> QED
  BY <1>5, <1>6, <1>7, <1>8, <1>9 DEF LeaseState, Early

\* A request that issues no lease.
LEMMA LeaseUntouched ==
    ASSUME NEW k \in Handles, LeaseState(k), NEW e0,
           authority'.log = authority.log \cup {e0}, store' = store,
           e0.key.handle # k \/ e0.key.name[1] \notin {"dispatch_attempt"} \cup LeaseKinds,
           authority'.attempt[k].lease = authority.attempt[k].lease,
           authority'.attempt[k].state \in {"none", "workspace"} => authority.attempt[k].lease = 0
    PROVE  LeaseState(k)'
<1>1. Issues(k)' = Issues(k)
  BY DEF Issues
<1> QED
  BY <1>1 DEF LeaseState
\* What the authority commits was not committed before, and keeps every
\* fact about intents and leases.
Request0(s) ==
    [key |-> Key(s.h, s.name, s.intent), revision |-> s.intent.revision, arg |-> s.intent.arg,
     lease |-> Effect(authority.attempt[s.h], s.name[1]).lease]

LEMMA EffectType ==
    ASSUME NEW t \in [state : AttemptStates, lease : Nat], NEW kind \in Kinds
    PROVE  /\ Effect(t, kind) \in [state : AttemptStates, lease : Nat]
           /\ kind \in LeaseKinds => Effect(t, kind).lease = t.lease + 1 /\ Effect(t, kind).state = t.state
           /\ kind = "dispatch_attempt" => Effect(t, kind) = [state |-> "running", lease |-> 1]
           /\ kind \notin {"dispatch_attempt"} \cup LeaseKinds => Effect(t, kind).lease = t.lease
           /\ kind \notin {"dispatch_attempt", "create_workspace"} \cup LeaseKinds =>
                 Effect(t, kind).state \notin {"none", "workspace"} \/ Effect(t, kind) = t
<1>1. CASE kind \in LeaseKinds
  BY <1>1 DEF Effect, LeaseKinds, AttemptStates
<1>2. CASE kind = "dispatch_attempt"
  BY <1>2 DEF Effect, LeaseKinds, AttemptStates
<1>3. CASE kind = "create_workspace"
  BY <1>3 DEF Effect, LeaseKinds, AttemptStates
<1>4. CASE kind \in FinishKinds \cup {"recover"}
  BY <1>4 DEF Effect, LeaseKinds, FinishKinds, AttemptStates
<1>5. CASE kind \in {"coordinate", "verify"}
  BY <1>5 DEF Effect, LeaseKinds, AttemptStates
<1> QED
  BY <1>1, <1>2, <1>3, <1>4, <1>5 DEF Kinds

LEMMA Committed ==
    ASSUME Control, Data, NEW p \in Procs, proc[p].pc = "invoke",
           Verdict(authority, proc[p].h, proc[p].name, proc[p].intent) = "committed",
           authority' = Commit(authority, proc[p].h, proc[p].name, proc[p].intent)
    PROVE  LET s == proc[p]  t == authority.attempt[s.h]
           IN  /\ Request0(s) \in EntryType /\ Request0(s).key.handle = s.h /\ Request0(s).key.name = s.name
               /\ authority' \in AuthorityType /\ authority'.log = authority.log \cup {Request0(s)}
               /\ authority'.attempt = [authority.attempt EXCEPT ![s.h] = Effect(t, s.name[1])]
               /\ Known(authority, s.h, s.name, s.intent) = {} /\ Permitted(t, s.name[1], s.intent.arg)
               /\ s.name[1] \in Kinds /\ s.name[2] \in Nat /\ s.intent \in IntentType
               /\ t \in [state : AttemptStates, lease : Nat] /\ s.h \in Handles
<1> DEFINE s == proc[p]
           t == authority.attempt[s.h]
<1>0. /\ s.h \in Handles /\ s \in ProcType /\ s.name \in Names /\ authority \in AuthorityType
  BY MutationAt DEF InMutation, Data
<1>1. s.intent \in IntentType /\ s.name[1] \in Kinds /\ s.name[2] \in Nat
  BY <1>0 DEF ProcType, Names
<1>2. t \in [state : AttemptStates, lease : Nat] /\ authority.revision \in Nat
  BY <1>0 DEF AuthorityType
<1>3. Effect(t, s.name[1]) \in [state : AttemptStates, lease : Nat]
  BY <1>1, <1>2, EffectType
<1>4. Known(authority, s.h, s.name, s.intent) = {} /\ Permitted(t, s.name[1], s.intent.arg)
  BY DEF Verdict
<1>5. /\ Key(s.h, s.name, s.intent) \in [handle : Handles, name : Names, generation : Nat, arg : Nat]
      /\ Key(s.h, s.name, s.intent).handle = s.h /\ Key(s.h, s.name, s.intent).name = s.name
  BY <1>0, <1>1 DEF Key, IntentType
<1>6. Effect(t, s.name[1]).lease \in Nat
  BY <1>3
<1>7. Request0(s) \in EntryType /\ Request0(s).key = Key(s.h, s.name, s.intent)
  BY <1>1, <1>5, <1>6 DEF Request0, EntryType, IntentType
<1>8. /\ authority'.log = authority.log \cup {Request0(s)} /\ authority'.revision = authority.revision + 1
      /\ authority'.attempt = [authority.attempt EXCEPT ![s.h] = Effect(t, s.name[1])]
  BY <1>0 DEF Commit, Request0, AuthorityType
<1>9. authority' \in AuthorityType
  <2>1. authority' = [revision |-> authority'.revision, log |-> authority'.log, attempt |-> authority'.attempt]
    BY <1>0 DEF Commit, AuthorityType
  <2>2. authority'.log \in SUBSET EntryType /\ authority'.revision \in Nat
    BY <1>0, <1>2, <1>7, <1>8 DEF AuthorityType
  <2>3. authority'.attempt \in [Handles -> [state : AttemptStates, lease : Nat]]
    BY <1>0, <1>3, <1>8 DEF AuthorityType
  <2> QED
    BY <2>1, <2>2, <2>3 DEF AuthorityType
<1> QED
  BY <1>0, <1>1, <1>2, <1>4, <1>5, <1>7, <1>8, <1>9
LEMMA CommitLeases ==
    ASSUME OneClient, Control, Data, NEW p \in Procs, proc[p].pc = "invoke", store' = store,
           Verdict(authority, proc[p].h, proc[p].name, proc[p].intent) = "committed",
           authority' = Commit(authority, proc[p].h, proc[p].name, proc[p].intent),
           NEW k \in Handles
    PROVE  LeaseState(k)'
<1> DEFINE s == proc[p]
           h == s.h
           kind == s.name[1]
           t == authority.attempt[h]
           r == store[h]
           e0 == Request0(s)
<1>0. /\ e0 \in EntryType /\ e0.key.handle = h /\ e0.key.name = s.name
      /\ authority' \in AuthorityType /\ authority'.log = authority.log \cup {e0}
      /\ authority'.attempt = [authority.attempt EXCEPT ![h] = Effect(t, kind)]
      /\ Permitted(t, kind, s.intent.arg) /\ kind \in Kinds /\ h \in Handles
      /\ t \in [state : AttemptStates, lease : Nat]
  BY Committed
<1>1. LeaseState(k) /\ LeaseState(h) /\ authority \in AuthorityType /\ r \in RecordType
  BY <1>0 DEF Data, Control, ControlTypes
<1>2. t.lease \in Nat /\ r.lease \in Nat /\ r.lease <= t.lease /\ s.arg \in Nat /\ r.hgen \in Nat /\ r.rgen \in Nat
  BY <1>0, <1>1 DEF LeaseState, RecordType, Control, ControlTypes, ProcType
<1>3. authority'.attempt[h] = Effect(t, kind) /\ (k # h => authority'.attempt[k] = authority.attempt[k])
  BY <1>0, <1>1 DEF AuthorityType
<1>4. e0.lease = Effect(t, kind).lease
  BY DEF Request0
<1>5. s.intent.arg = s.arg
  BY DEF Data, IntentState
<1>6. /\ p \in Callers => KindAt(s, r)
      /\ p \in Workers => s.name = <<"heartbeat", r.hgen>> /\ s.arg <= r.lease /\ r.phase \in Running
  <2>1. ASSUME p \in Callers PROVE KindAt(s, r)
    BY <2>1, ClientAt DEF StepAt, InMutation
  <2>2. ASSUME p \in Workers PROVE s.name = <<"heartbeat", r.hgen>> /\ s.arg <= r.lease /\ r.phase \in Running
    BY <2>2 DEF Control, WorkerState, InMutation, Running
  <2> QED
    BY <2>1, <2>2
<1> HIDE DEF e0
<1>7. CASE k # h
  <2>1. authority'.attempt[k] = authority.attempt[k]
    BY <1>3, <1>7
  <2>2. authority.attempt[k].state \in {"none", "workspace"} => authority.attempt[k].lease = 0
    BY <1>1 DEF LeaseState
  <2> QED
    BY <1>0, <1>1, <1>7, <2>1, <2>2, LeaseUntouched
<1>8. CASE k = h /\ kind \notin {"dispatch_attempt"} \cup LeaseKinds
  <2>1. Effect(t, kind).lease = t.lease
    BY <1>0, <1>8, EffectType
  <2>2. Effect(t, kind).state \in {"none", "workspace"} => t.lease = 0
    <3>1. t.state \in {"none", "workspace"} => t.lease = 0
      BY <1>1 DEF LeaseState
    <3>2. CASE kind = "create_workspace"
      BY <1>0, <3>1, <3>2 DEF Permitted, LeaseKinds
    <3>3. CASE kind # "create_workspace"
      BY <1>0, <1>8, <3>1, <3>3, EffectType
    <3> QED
      BY <3>2, <3>3
  <2> QED
    BY <1>0, <1>1, <1>3, <1>8, <2>1, <2>2, LeaseUntouched
<1>9. CASE k = h /\ kind \in {"dispatch_attempt"} \cup LeaseKinds
  <2>1. CASE kind = "dispatch_attempt"
    <3>1. t.state = "workspace"
      BY <1>0, <2>1 DEF Permitted, LeaseKinds
    <3>2. t.lease = 0 /\ r.lease = t.lease
      BY <1>1, <1>2, <3>1 DEF LeaseState
    <3>3. Effect(t, kind).state = "running" /\ Effect(t, kind).lease = t.lease + 1
      BY <1>0, <2>1, <3>2, EffectType
    <3>4. r.phase = "dispatch_pending"
      BY <1>6, <2>1 DEF KindAt, Procs
    <3>5. Unrecorded(e0, r) /\ r.phase \notin Early
      BY <1>0, <2>1, <3>4 DEF Unrecorded, Early
    <3>6. /\ authority'.attempt[h].state = "running" /\ authority'.attempt[h].lease = t.lease + 1
          /\ e0.lease = t.lease + 1
      BY <1>3, <1>4, <3>3
    <3> QED
      BY <1>0, <1>1, <1>9, <3>2, <3>5, <3>6, LeaseIssued
  <2>2. CASE kind \in LeaseKinds
    <3>1. t.state = "running" /\ t.lease = s.intent.arg
      BY <1>0, <2>2 DEF Permitted, LeaseKinds
    <3>2. s.arg <= r.lease /\ Unrecorded(e0, r) /\ r.phase \notin Early
      <4>1. CASE p \in Callers
        BY <1>0, <1>6, <2>2, <4>1 DEF KindAt, Unrecorded, Early, LeaseKinds
      <4>2. CASE p \in Workers
        BY <1>0, <1>6, <4>2 DEF Unrecorded, Early, Running
      <4> QED
        BY <4>1, <4>2 DEF Procs
    <3>3. r.lease = t.lease
      BY <1>2, <1>5, <3>1, <3>2
    <3>4. Effect(t, kind).state = "running" /\ Effect(t, kind).lease = t.lease + 1
      BY <1>0, <2>2, <3>1, EffectType
    <3>5. /\ authority'.attempt[h].state = "running" /\ authority'.attempt[h].lease = t.lease + 1
          /\ e0.lease = t.lease + 1 /\ e0.key.name[1] \in {"dispatch_attempt"} \cup LeaseKinds
      BY <1>0, <1>3, <1>4, <2>2, <3>4
    <3> QED
      BY <1>0, <1>1, <1>9, <3>2, <3>3, <3>5, LeaseIssued
  <2> QED
    BY <1>9, <2>1, <2>2
<1> QED
  BY <1>7, <1>8, <1>9

LEMMA CommitData ==
    ASSUME OneClient, Control, Data, NEW p \in Procs, NEW s2, proc[p].pc = "invoke", store' = store,
           Verdict(authority, proc[p].h, proc[p].name, proc[p].intent) = "committed",
           authority' = Commit(authority, proc[p].h, proc[p].name, proc[p].intent),
           proc' = [proc EXCEPT ![p] = s2],
           \/ s2.pc = "idle"
           \/ /\ s2.pc = "answered" /\ s2.h = proc[p].h /\ s2.name = proc[p].name
              /\ s2.val = Request0(proc[p]).lease
    PROVE  Data'
<1> DEFINE s == proc[p]
           h == s.h
           e0 == Request0(s)
<1>0. /\ e0 \in EntryType /\ e0.key.handle = h /\ e0.key.name = s.name
      /\ authority' \in AuthorityType /\ authority'.log = authority.log \cup {e0}
      /\ Known(authority, h, s.name, s.intent) = {} /\ h \in Handles
  BY Committed
<1>1. /\ s.name \in DOMAIN store[h].intents /\ s.intent = store[h].intents[s.name]
  BY DEF Data, IntentState
<1>2. /\ e0.key = Key(h, s.name, s.intent) /\ e0.revision = s.intent.revision /\ e0.arg = s.intent.arg
  BY DEF Request0
<1>3. Entries(h, s.name) = {}
  <2>1. SUFFICES ASSUME NEW e \in authority.log, e.key.handle = h, e.key.name = s.name PROVE FALSE
    BY DEF Entries
  <2>2. s.intent = [arg |-> e.arg, revision |-> e.revision, generation |-> e.key.generation]
    BY <1>1, <2>1 DEF Data, ReplayIsExact
  <2>3. e.key = Key(h, s.name, [arg |-> e.arg, generation |-> e.key.generation])
    BY <2>1 DEF Data, KeysMatch
  <2>4. e.key = Key(h, s.name, s.intent)
    BY <2>2, <2>3 DEF Key
  <2> QED
    BY <1>0, <2>4 DEF Known
<1>4. s.intent \in IntentType
  BY Committed
<1>5. /\ e0.key.generation = s.intent.generation
      /\ e0.key = Key(e0.key.handle, e0.key.name, [arg |-> e0.arg, generation |-> e0.key.generation])
  BY <1>0, <1>2 DEF Key
<1>6. s.intent = [arg |-> e0.arg, revision |-> e0.revision, generation |-> e0.key.generation]
  BY <1>2, <1>4, <1>5 DEF IntentType
<1> HIDE DEF e0
<1>7. ReplayIsExact'
  BY <1>0, <1>1, <1>6 DEF Data, ReplayIsExact
<1>8. EffectOnce' /\ KeysMatch'
  <2>1. \A e \in authority.log : ~(e.key.handle = h /\ e.key.name = s.name)
    BY <1>3 DEF Entries
  <2> QED
    BY <1>0, <1>5, <2>1 DEF Data, EffectOnce, KeysMatch
<1>9. ASSUME NEW q \in Procs PROVE IntentState(q)'
  <2>0. p \in Procs /\ proc'[p] = s2 /\ \A x \in Procs \ {p} : proc'[x] = proc[x]
    BY DEF Control, ControlTypes
  <2>1. CASE q = p
    <3>1. CASE s2.pc = "idle"
      BY <2>0, <2>1, <3>1 DEF IntentState
    <3>2. CASE /\ s2.pc = "answered" /\ s2.h = proc[p].h /\ s2.name = proc[p].name
               /\ s2.val = Request0(proc[p]).lease
      <4>1. e0 \in Entries(h, s.name)' /\ e0.lease = s2.val
        BY <1>0, <3>2 DEF Entries, e0
      <4> QED
        BY <1>0, <2>0, <2>1, <3>2, <4>1 DEF IntentState, Entries
    <3> QED
      BY <3>1, <3>2
  <2>2. CASE q # p
    <3>1. IntentState(q) /\ proc'[q] = proc[q]
      BY <2>0, <2>2 DEF Data
    <3>2. proc[q].pc \in InMutation => e0.key.handle # proc[q].h \/ e0.key.name # proc[q].name
      BY <1>0, <2>2, Distinct DEF InMutation
    <3> QED
      BY <1>0, <3>1, <3>2 DEF IntentState, Entries, InMutation
  <2> QED
    BY <2>1, <2>2
<1>10. \A k \in Handles : LeaseState(k)'
  BY CommitLeases
<1> QED
  BY <1>0, <1>7, <1>8, <1>9, <1>10 DEF Data
\* The answer of a committed request is the one in the log.
LEMMA AnswerOf ==
    ASSUME Control, Data, NEW p \in Procs, proc[p].pc = "invoke",
           Verdict(authority, proc[p].h, proc[p].name, proc[p].intent) \in {"committed", "replayed"}
    PROVE  LET s == proc[p]  v == AnsweredLease(authority, s.h, s.name, s.intent)
           IN  /\ v \in Nat
               /\ Verdict(authority, s.h, s.name, s.intent) = "committed" => v = Request0(s).lease
               /\ Verdict(authority, s.h, s.name, s.intent) = "replayed"
                     => \E e \in Entries(s.h, s.name) : e.lease = v
<1> DEFINE s == proc[p]
           K == Known(authority, s.h, s.name, s.intent)
           v == AnsweredLease(authority, s.h, s.name, s.intent)
<1>0. /\ s.h \in Handles /\ s \in ProcType /\ authority \in AuthorityType
      /\ s.name[1] \in Kinds
  BY MutationAt DEF InMutation, Data, Names
<1>1. CASE K = {}
  <2>1. /\ authority.attempt[s.h] \in [state : AttemptStates, lease : Nat]
    BY <1>0 DEF AuthorityType
  <2>2. Effect(authority.attempt[s.h], s.name[1]) \in [state : AttemptStates, lease : Nat]
    BY <1>0, <2>1, EffectType
  <2>3. v = Effect(authority.attempt[s.h], s.name[1]).lease
    BY <1>1 DEF AnsweredLease
  <2>4. Verdict(authority, s.h, s.name, s.intent) # "replayed"
    BY <1>1 DEF Verdict
  <2> QED
    BY <2>2, <2>3, <2>4 DEF Request0
<1>2. CASE K # {}
  <2> DEFINE e == CHOOSE x \in K : TRUE
  <2>1. e \in K /\ v = e.lease
    BY <1>2 DEF AnsweredLease
  <2>2. e \in authority.log /\ e.key = Key(s.h, s.name, s.intent)
    BY <2>1 DEF Known
  <2> HIDE DEF e
  <2>3. e.key.handle = s.h /\ e.key.name = s.name
    BY <2>2 DEF Key
  <2>4. e \in Entries(s.h, s.name) /\ e.lease \in Nat
    BY <1>0, <2>2, <2>3 DEF Entries, AuthorityType, EntryType
  <2>5. Verdict(authority, s.h, s.name, s.intent) # "committed"
    BY <1>2 DEF Verdict
  <2> QED
    BY <2>1, <2>4, <2>5
<1> QED
  BY <1>1, <1>2

\* A stale answer means that nothing of the phase was committed.
LEMMA StaleMeansNone ==
    ASSUME Data, NEW p \in Procs, proc[p].pc = "invoke",
           Verdict(authority, proc[p].h, proc[p].name, proc[p].intent) = "stale"
    PROVE  Entries(proc[p].h, proc[p].name) = {}
<1> DEFINE s == proc[p]
<1>1. s.name \in DOMAIN store[s.h].intents /\ s.intent = store[s.h].intents[s.name]
  BY DEF Data, IntentState
<1>2. SUFFICES ASSUME NEW e \in authority.log, e.key.handle = s.h, e.key.name = s.name PROVE FALSE
  BY DEF Entries
<1>3. s.intent = [arg |-> e.arg, revision |-> e.revision, generation |-> e.key.generation]
  BY <1>1, <1>2 DEF Data, ReplayIsExact
<1>4. e.key = Key(s.h, s.name, [arg |-> e.arg, generation |-> e.key.generation])
  BY <1>2 DEF Data, KeysMatch
<1>5. e.key = Key(s.h, s.name, s.intent)
  BY <1>3, <1>4 DEF Key
<1>6. e \in Known(authority, s.h, s.name, s.intent)
  BY <1>5 DEF Known
<1> QED
  BY <1>6 DEF Verdict

\* A commit with or without its answer; a request that is not committed
\* leaves the authority as it is.
LEMMA InvokeLostStep ==
    ASSUME OneClient, Control, Data, NEW p \in Procs, InvokeLost(p)
    PROVE  Control' /\ Data' /\ Forward
<1> DEFINE s == proc[p]
           verdict == Verdict(authority, s.h, s.name, s.intent)
<1>0. /\ s.pc = "invoke" /\ UNCHANGED <<store, current, stopping>>
      /\ proc' = [proc EXCEPT ![p] = Idle] /\ lock' = Freed(p)
      /\ authority' = IF verdict = "committed" THEN Commit(authority, s.h, s.name, s.intent) ELSE authority
  BY DEF InvokeLost, Return, Step
<1>1. CASE verdict = "committed"
  <2>1. Control' /\ Forward
    BY <1>0, ReturnControl
  <2>2. Idle.pc = "idle"
    BY DEF Idle
  <2>3. Data'
    BY <1>0, <1>1, <2>2, CommitData
  <2> QED
    BY <2>1, <2>3
<1>2. CASE verdict # "committed"
  BY <1>0, <1>2, ReturnStep
<1> QED
  BY <1>1, <1>2

LEMMA InvokeAnsweredStep ==
    ASSUME OneClient, Control, Data, NEW p \in Procs, InvokeAnswered(p)
    PROVE  Control' /\ Data' /\ Forward
<1> DEFINE s == proc[p]
           h == proc[p].h
           r == store[proc[p].h]
           verdict == Verdict(authority, s.h, s.name, s.intent)
           v == AnsweredLease(authority, s.h, s.name, s.intent)
           a2 == [s EXCEPT !.pc = "answered", !.val = v]
           o2 == [s EXCEPT !.pc = "observe"]
<1>0. /\ s.pc = "invoke" /\ UNCHANGED <<store, current, stopping>>
      /\ authority' = IF verdict = "committed" THEN Commit(authority, s.h, s.name, s.intent) ELSE authority
      /\ \/ verdict \in {"committed", "replayed"} /\ proc' = [proc EXCEPT ![p] = a2] /\ lock' = lock
         \/ verdict = "stale" /\ proc' = [proc EXCEPT ![p] = o2] /\ lock' = lock
         \/ verdict \in {"rejected", "stale"} /\ proc' = [proc EXCEPT ![p] = Idle] /\ lock' = Freed(p)
  BY DEF InvokeAnswered, Return, Step
<1>1. /\ s.pc \in InMutation /\ h \in Handles /\ s \in ProcType /\ r \in RecordType
  BY <1>0, MutationAt DEF InMutation
<1>2. store' = [store EXCEPT ![h] = r] /\ store' = [store EXCEPT ![h] = [@ EXCEPT !.intents = r.intents]]
  <2>1. [r EXCEPT !.intents = r.intents] = r
    BY <1>1 DEF RecordType
  <2> QED
    BY <1>0, <1>1, <2>1, RecordAt
<1>3. s.name \in DOMAIN r.intents
  BY <1>0 DEF Data, IntentState
<1>4. ASSUME NEW s2 \in ProcType, s2.pc \in {"answered", "observe"}, s2.name = s.name, s2.h = h,
             s2.arg = s.arg, s2.call = s.call, s2.loc = s.loc, proc' = [proc EXCEPT ![p] = s2],
             lock' = lock
      PROVE  Control' /\ Forward /\ proc'[p] = s2
  <2>1. Control' /\ Forward
    BY <1>0, <1>1, <1>2, <1>4, PhaseControl DEF InMutation
  <2> QED
    BY <1>4, <2>1 DEF Control, ControlTypes
<1>5. CASE verdict \in {"committed", "replayed"} /\ proc' = [proc EXCEPT ![p] = a2] /\ lock' = lock
  <2>1. /\ v \in Nat /\ (verdict = "committed" => v = Request0(s).lease)
        /\ verdict = "replayed" => \E e \in Entries(h, s.name) : e.lease = v
    BY <1>0, <1>5, AnswerOf
  <2> HIDE DEF v, verdict
  <2>2. /\ a2 \in ProcType /\ a2.pc = "answered" /\ a2.name = s.name /\ a2.h = h /\ a2.arg = s.arg
        /\ a2.call = s.call /\ a2.loc = s.loc /\ a2.val = v
    BY <1>1, <2>1 DEF ProcType, InMutation
  <2> HIDE DEF a2
  <2>3. Control' /\ Forward /\ proc'[p] = a2
    BY <1>4, <1>5, <2>2
  <2>4. CASE verdict = "committed"
    <3>1. Data'
      BY <1>0, <1>5, <2>1, <2>2, <2>4, CommitData DEF verdict
    <3> QED
      BY <2>3, <3>1
  <2>5. CASE verdict = "replayed"
    <3>1. authority' = authority
      BY <1>0, <2>5
    <3>2. \E e \in Entries(h, s.name) : e.lease = v
      BY <2>1, <2>5
    <3>3. IntentState(p)'
      BY <2>2, <2>3, <3>1, <3>2 DEF IntentState, Entries
    <3>4. /\ a2.name = s.name /\ a2.h = h /\ proc' = [proc EXCEPT ![p] = a2]
          /\ a2.name \in DOMAIN r.intents
      BY <1>3, <1>5, <2>2
    <3>5. Data'
      BY <1>1, <1>2, <3>1, <3>3, <3>4, IntentData
    <3> QED
      BY <2>3, <3>5
  <2> QED
    BY <1>5, <2>4, <2>5
<1>6. CASE verdict = "stale" /\ proc' = [proc EXCEPT ![p] = o2] /\ lock' = lock
  <2>1. /\ o2 \in ProcType /\ o2.pc = "observe" /\ o2.name = s.name /\ o2.h = h /\ o2.arg = s.arg
        /\ o2.call = s.call /\ o2.loc = s.loc
    BY <1>1 DEF ProcType, InMutation
  <2>2. authority' = authority /\ Entries(h, s.name) = {}
    BY <1>0, <1>6, StaleMeansNone
  <2> HIDE DEF o2
  <2>3. Control' /\ Forward /\ proc'[p] = o2
    BY <1>4, <1>6, <2>1
  <2>4. IntentState(p)'
    BY <2>1, <2>2, <2>3 DEF IntentState, Entries
  <2>5. /\ o2.name = s.name /\ o2.h = h /\ proc' = [proc EXCEPT ![p] = o2]
        /\ o2.name \in DOMAIN r.intents
    BY <1>3, <1>6, <2>1
  <2>6. Data'
    BY <1>1, <1>2, <2>2, <2>4, <2>5, IntentData
  <2> QED
    BY <2>3, <2>6
<1>7. CASE verdict \in {"rejected", "stale"} /\ proc' = [proc EXCEPT ![p] = Idle] /\ lock' = Freed(p)
  BY <1>0, <1>7, ReturnStep
<1> QED
  BY <1>0, <1>5, <1>6, <1>7
-----------------------------------------------------------------------------
(* Recording an answer of the authority *)

\* Recording the answer of request e as record r2: no other answer is
\* outstanding, so the recorded lease is the newest.
LEMMA LeaseRecorded ==
    ASSUME Data, NEW h \in Handles, authority' = authority, NEW e \in Issues(h),
           store[h] \in RecordType, store'[h] \in RecordType, Unrecorded(e, store[h]),
           store'[h].lease = e.lease, store'[h].phase \notin Early,
           \/ /\ e.key.name[1] = "dispatch_attempt" /\ store'[h].phase # "dispatch_pending"
              /\ store'[h].hgen = store[h].hgen /\ store'[h].rgen = store[h].rgen
           \/ /\ e.key.name[1] = "heartbeat" /\ store'[h].hgen = store[h].hgen + 1
              /\ store'[h].rgen = store[h].rgen /\ store'[h].phase = store[h].phase
           \/ /\ e.key.name[1] = "resume" /\ store'[h].rgen = store[h].rgen + 1
              /\ store'[h].hgen = store[h].hgen /\ store'[h].phase = store[h].phase
    PROVE  LeaseState(h)' /\ store[h].lease <= store'[h].lease
<1> DEFINE r == store[h]
           r2 == store'[h]
           t == authority.attempt[h]
<1>0. LeaseState(h) /\ Issues(h)' = Issues(h)
  BY DEF Data, Issues
<1>1. /\ r.lease \in Nat /\ r2.lease \in Nat /\ r.hgen \in Nat /\ r2.hgen \in Nat /\ r.rgen \in Nat
      /\ r2.rgen \in Nat /\ t.lease \in Nat
      /\ \A f \in Issues(h) : f.lease \in Nat /\ f.key.name[2] \in Nat
  BY DEF RecordType, Data, AuthorityType, EntryType, Issues, Names
<1>2. e.lease = t.lease /\ r.lease < t.lease /\ r2.lease = t.lease
  BY <1>0 DEF LeaseState
<1>3. \A f \in Issues(h) : Unrecorded(f, r) => f = e
  BY <1>0, <1>2 DEF LeaseState
<1>4. ASSUME NEW f \in Issues(h)
      PROVE  /\ f.lease <= t.lease
             /\ f.key.name[1] = "heartbeat" => f.key.name[2] <= r.hgen
             /\ f.key.name[1] = "resume" => f.key.name[2] <= r.rgen
  BY <1>0 DEF LeaseState
<1>5. ASSUME NEW f \in Issues(h)
      PROVE  /\ f.key.name[1] = "heartbeat" => f.key.name[2] <= r2.hgen
             /\ f.key.name[1] = "resume" => f.key.name[2] <= r2.rgen
  BY <1>1, <1>4
<1>6. ASSUME NEW f \in Issues(h) PROVE ~Unrecorded(f, r2)
  <2>1. CASE e.key.name[1] = "dispatch_attempt" /\ r2.phase # "dispatch_pending"
             /\ r2.hgen = r.hgen /\ r2.rgen = r.rgen
    BY <1>3, <2>1 DEF Unrecorded
  <2>2. CASE e.key.name[1] = "heartbeat" /\ r2.hgen = r.hgen + 1
             /\ r2.rgen = r.rgen /\ r2.phase = r.phase
    <3>1. f.key.name[1] = "heartbeat" => r2.hgen # f.key.name[2]
      BY <1>1, <1>4, <2>2
    <3> QED
      BY <1>3, <2>2, <3>1 DEF Unrecorded
  <2>3. CASE e.key.name[1] = "resume" /\ r2.rgen = r.rgen + 1
             /\ r2.hgen = r.hgen /\ r2.phase = r.phase
    <3>1. f.key.name[1] = "resume" => r2.rgen # f.key.name[2]
      BY <1>1, <1>4, <2>3
    <3> QED
      BY <1>3, <2>3, <3>1 DEF Unrecorded
  <2> QED
    BY <2>1, <2>2, <2>3
<1>7. /\ t.state \in {"none", "workspace"} => t.lease = 0
      /\ \A f, g \in Issues(h) : f.lease = g.lease => f = g
  BY <1>0 DEF LeaseState
<1>8. r2.lease <= t.lease /\ r.lease <= r2.lease /\ \A f \in Issues(h) : f.lease <= r2.lease
  BY <1>1, <1>2, <1>4
<1> QED
  BY <1>0, <1>2, <1>4, <1>5, <1>6, <1>7, <1>8 DEF LeaseState, Early

\* The answer that a mutation is about to record.
LEMMA Answered ==
    ASSUME Data, NEW p \in Procs, proc[p].pc = "answered",
           proc[p].name[1] \in {"dispatch_attempt"} \cup LeaseKinds
    PROVE  \E e \in Issues(proc[p].h) : e.lease = proc[p].val /\ e.key.name = proc[p].name
  BY DEF Data, IntentState, Entries, Issues

\* Everything but the lease of the workflow h stays as it is.
LEMMA RecordData ==
    ASSUME Control, Data, NEW p \in Procs, NEW s2, NEW h \in Handles, NEW r2, authority' = authority,
           proc' = [proc EXCEPT ![p] = s2], s2.pc \notin Waiting,
           store' = [store EXCEPT ![h] = r2], r2.intents = store[h].intents,
           LeaseState(h)', store[h].lease <= r2.lease, Rank(store[h].phase) <= Rank(r2.phase)
    PROVE  Data' /\ Forward
<1>0. ControlTypes
  BY DEF Control
<1>1. store'[h] = r2 /\ \A k \in Handles \ {h} : store'[k] = store[k]
  BY <1>0 DEF ControlTypes
<1>2. \A k \in Handles : store'[k].intents = store[k].intents /\ LeaseState(k)'
  BY <1>1, LeaseKept DEF Data, PhaseMove
<1>3. \A q \in Procs : proc'[q].pc \notin Waiting \/ (proc'[q] = proc[q] /\ proc[q].h \in Handles)
  <2>1. ASSUME NEW q \in Procs, proc[q].pc \in Waiting PROVE proc[q].h \in Handles
    BY <2>1, OnHandle DEF Waiting
  <2> QED
    BY <1>0, <2>1 DEF ControlTypes
<1>4. Data'
  BY <1>2, <1>3, DataFrame
<1>5. \A k \in Handles : store[k].phase \in Phases /\ store[k].lease \in Nat
  BY <1>0 DEF ControlTypes, RecordType
<1> QED
  BY <1>1, <1>4, <1>5, RankType DEF Forward

LEMMA RecordDispatchStep ==
    ASSUME OneClient, Control, Data, NEW c \in Callers, RecordDispatch(c)
    PROVE  Control' /\ Data' /\ Forward
<1> DEFINE s == proc[c]
           r == store[current]
           r2 == [r EXCEPT !.phase = "context_pending", !.lease = s.val]
           s2 == [s EXCEPT !.loc = r2, !.pc = "ensure"]
<1>0. /\ s.pc = "answered" /\ s.name[1] = "dispatch_attempt"
      /\ UNCHANGED <<current, authority, stopping, lock>>
  BY DEF RecordDispatch, StoreStep
<1>1. /\ s.h = current /\ current # 0 /\ current \in Handles /\ r \in RecordType /\ StepAt(s, r)
      /\ stopping \subseteq Workers /\ s \in ProcType /\ c \in Procs
      /\ lock' \in [Hosts -> Procs \cup {NoProcess}]
  BY <1>0, ClientAt DEF Control, ControlTypes
<1>2. r.phase = "dispatch_pending" /\ s.loc = r /\ s.call = "next_task" /\ s.val \in Nat
  BY <1>0, <1>1 DEF StepAt, KindAt, InMutation, ProcType
<1>3. PICK e \in Issues(current) : e.lease = s.val /\ e.key.name = s.name
  BY <1>0, <1>1, Answered
<1>4. Unrecorded(e, r)
  BY <1>0, <1>2, <1>3 DEF Unrecorded
<1>5. s.val # 0
  <2>1. e.lease \in Nat /\ r.lease \in Nat
    BY <1>1, <1>2, <1>3 DEF RecordType
  <2>2. LeaseState(current)
    BY <1>1 DEF Data
  <2>3. e.lease = authority.attempt[current].lease /\ r.lease < authority.attempt[current].lease
    BY <1>3, <1>4, <2>2 DEF LeaseState
  <2> QED
    BY <1>3, <2>1, <2>3
<1>6. /\ r2 \in RecordType /\ r2.phase = "context_pending" /\ r2.intents = r.intents
      /\ r2.lease = s.val /\ r2.hgen = r.hgen /\ r2.rgen = r.rgen
  BY <1>1, <1>2 DEF RecordType, Phases, ActivePhases
<1>7. Overwrite(r, r2) = r2
  <2>1. r2.fin = r.fin /\ r2.ops = r.ops /\ r2.lease # 0
    BY <1>1, <1>5 DEF RecordType
  <2> HIDE DEF r2
  <2> QED
    BY <1>6, <2>1 DEF RecordType, Overwrite
<1>8. store' = [store EXCEPT ![current] = r2] /\ proc' = [proc EXCEPT ![c] = s2]
  BY <1>1, <1>2, <1>7 DEF RecordDispatch, Step
<1> HIDE DEF r2
<1>9. s2 \in ProcType /\ s2.h = current /\ s2.loc = r2 /\ s2.call = "next_task" /\ s2.pc = "ensure"
  BY <1>1, <1>2, <1>6 DEF ProcType
<1> HIDE DEF s2
<1>10. StepAt(s2, r2)
  BY <1>6, <1>9 DEF StepAt, InMutation
<1>11. store'[current] = r2 /\ r2.phase \notin Early /\ r2.phase # "dispatch_pending" /\ r2.phase \in Running
  BY <1>1, <1>6, <1>8 DEF Control, ControlTypes, Early, Running
<1>12. PICK h \in Handles : h = current
  BY <1>1
<1>13. LeaseState(h)' /\ store[h].lease <= store'[h].lease
  <2>1. /\ store[h] \in RecordType /\ store'[h] \in RecordType /\ authority' = authority
        /\ store'[h].lease = e.lease /\ store'[h].phase \notin Early
        /\ e.key.name[1] = "dispatch_attempt" /\ store'[h].phase # "dispatch_pending"
        /\ store'[h].hgen = store[h].hgen /\ store'[h].rgen = store[h].rgen
        /\ e \in Issues(h) /\ Unrecorded(e, store[h])
    BY <1>0, <1>1, <1>3, <1>4, <1>6, <1>11, <1>12
  <2> QED
    BY <2>1, LeaseRecorded
<1>14. Data' /\ Forward
  <2>1. s2.pc \notin Waiting /\ authority' = authority
    BY <1>0, <1>9 DEF Waiting
  <2>2. Rank(r.phase) <= Rank(r2.phase)
    BY <1>2, <1>6 DEF Rank, FinalPhases
  <2>3. /\ store' = [store EXCEPT ![h] = r2] /\ r2.intents = store[h].intents
        /\ store[h].lease <= r2.lease /\ Rank(store[h].phase) <= Rank(r2.phase)
    BY <1>6, <1>8, <1>11, <1>12, <1>13, <2>2
  <2> QED
    BY <1>1, <1>8, <1>13, <2>1, <2>3, RecordData
<1>15. Control'
  <2>1. s2.pc \notin InMutation /\ s2.pc # "idle" /\ s2.pc # "begin" /\ current' = current /\ lock' = lock
    BY <1>0, <1>9 DEF InMutation
  <2>2. r.lease <= r2.lease
    BY <1>11, <1>12, <1>13
  <2> QED
    BY <1>0, <1>1, <1>6, <1>8, <1>9, <1>10, <1>11, <2>1, <2>2, CallerControl
<1> QED
  BY <1>14, <1>15
LEMMA RecordResumeStep ==
    ASSUME OneClient, Control, Data, NEW c \in Callers, RecordResume(c)
    PROVE  Control' /\ Data' /\ Forward
<1> DEFINE s == proc[c]
           r == store[current]
           r2 == [r EXCEPT !.lease = s.val, !.rgen = s.name[2] + 1]
           t == [s EXCEPT !.pc = "ensure", !.loc = r2]
           s2 == IF s.call = "next_task" THEN t ELSE Idle
<1>0. /\ s.pc = "answered" /\ s.name[1] = "resume" /\ lock' = Freed(c)
      /\ UNCHANGED <<current, authority, stopping>>
  BY DEF RecordResume, StoreStep
<1>1. /\ s.h = current /\ current # 0 /\ current \in Handles /\ r \in RecordType /\ StepAt(s, r)
      /\ stopping \subseteq Workers /\ s \in ProcType /\ c \in Procs /\ ControlTypes
  BY <1>0, ClientAt DEF Control, ControlTypes
<1>2. r.phase = "active" /\ s.name[2] = r.rgen /\ s.val \in Nat /\ r.rgen \in Nat
  BY <1>0, <1>1 DEF StepAt, KindAt, InMutation, ProcType, RecordType
<1>3. PICK e \in Issues(current) : e.lease = s.val /\ e.key.name = s.name
  BY <1>0, <1>1, Answered DEF LeaseKinds
<1>4. Unrecorded(e, r) /\ s.name[2] + 1 \in Nat
  BY <1>0, <1>2, <1>3 DEF Unrecorded
<1>5. /\ r2 \in RecordType /\ r2.phase = r.phase /\ r2.intents = r.intents
      /\ r2.lease = s.val /\ r2.hgen = r.hgen /\ r2.rgen = r.rgen + 1
  BY <1>1, <1>2, <1>4 DEF RecordType
<1>6. store' = [store EXCEPT ![current] = r2] /\ proc' = [proc EXCEPT ![c] = s2]
  BY <1>1 DEF RecordResume, Step
<1> HIDE DEF r2
<1>7. t \in ProcType /\ t.h = current /\ t.loc = r2 /\ t.call = s.call /\ t.pc = "ensure"
  BY <1>1, <1>5 DEF ProcType
<1> HIDE DEF t
<1>8. /\ s2 \in ProcType /\ s2.pc \in {"idle", "ensure"} /\ (s2.pc = "idle" => s2 = Idle)
      /\ s2.pc # "idle" => s2.h = current /\ StepAt(s2, r2)
  <2>1. CASE s.call = "next_task"
    BY <1>2, <1>5, <1>7, <2>1 DEF StepAt, InMutation
  <2>2. CASE s.call # "next_task"
    BY <2>2, BlankType DEF Idle
  <2> QED
    BY <2>1, <2>2
<1> HIDE DEF s2
<1>9. store'[current] = r2 /\ r2.phase \notin Early /\ r2.phase \in Running
  BY <1>1, <1>2, <1>5, <1>6 DEF ControlTypes, Early, Running
<1>10. PICK h \in Handles : h = current
  BY <1>1
<1>11. LeaseState(h)' /\ store[h].lease <= store'[h].lease
  <2>1. /\ store[h] \in RecordType /\ store'[h] \in RecordType /\ authority' = authority
        /\ store'[h].lease = e.lease /\ store'[h].phase \notin Early
        /\ e.key.name[1] = "resume" /\ store'[h].phase = store[h].phase
        /\ store'[h].hgen = store[h].hgen /\ store'[h].rgen = store[h].rgen + 1
        /\ e \in Issues(h) /\ Unrecorded(e, store[h])
    BY <1>0, <1>1, <1>3, <1>4, <1>5, <1>9, <1>10
  <2> QED
    BY <2>1, LeaseRecorded
<1>12. Data' /\ Forward
  <2>1. s2.pc \notin Waiting /\ authority' = authority
    BY <1>0, <1>8 DEF Waiting
  <2>2. Rank(r.phase) <= Rank(r2.phase)
    BY <1>1, <1>5, RankType DEF RecordType
  <2>3. /\ store' = [store EXCEPT ![h] = r2] /\ r2.intents = store[h].intents
        /\ store[h].lease <= r2.lease /\ Rank(store[h].phase) <= Rank(r2.phase)
    BY <1>5, <1>6, <1>9, <1>10, <1>11, <2>2
  <2> QED
    BY <1>1, <1>6, <1>11, <2>1, <2>3, RecordData
<1>13. Control'
  <2>1. s2.pc \notin InMutation /\ s2.pc # "begin" /\ current' = current
    BY <1>0, <1>8 DEF InMutation
  <2>2. r.lease <= r2.lease
    BY <1>9, <1>10, <1>11
  <2>3. /\ lock' \in [Hosts -> Procs \cup {NoProcess}]
        /\ \A w \in Workers : lock[w[1]] = w => lock'[w[1]] = w
    <3>1. /\ lock' \in [Hosts -> Procs \cup {NoProcess}]
          /\ \A q \in Procs \ {c} : lock[Host(q)] = q => lock'[Host(q)] = q
      BY <1>0, <1>1, LockOthers DEF LockStep
    <3> QED
      BY <3>1, Hosting
  <2> QED
    BY <1>0, <1>1, <1>5, <1>6, <1>8, <1>9, <2>1, <2>2, <2>3, CallerControl
<1> QED
  BY <1>12, <1>13

LEMMA RecordHeartbeatStep ==
    ASSUME OneClient, Control, Data, NEW w \in Workers, RecordHeartbeat(w)
    PROVE  Control' /\ Data' /\ Forward
<1> DEFINE s == proc[w]
           h == w[2]
           r == store[w[2]]
           r2 == [r EXCEPT !.lease = s.val, !.hgen = s.name[2] + 1]
           s2 == [Idle EXCEPT !.pc = "wait", !.call = "renewal", !.h = w[2]]
<1>0. /\ s.pc = "answered" /\ s.name[1] = "heartbeat" /\ lock' = Freed(w)
      /\ UNCHANGED <<current, authority, stopping>> /\ proc' = [proc EXCEPT ![w] = s2]
  BY DEF RecordHeartbeat, StoreStep, Step
<1>1. /\ w \in Procs /\ h \in Handles /\ r \in RecordType /\ s \in ProcType /\ WorkerState(w)
      /\ stopping \subseteq Workers /\ ControlTypes /\ h \in 0..MaxHandles
  BY Hosting DEF Control, ControlTypes
<1>2. /\ s.h = h /\ s.name[2] = r.hgen /\ s.val \in Nat /\ r.hgen \in Nat /\ r.phase \in Running
  BY <1>0, <1>1 DEF WorkerState, InMutation, ProcType, RecordType, Running
<1>3. PICK e \in Issues(h) : e.lease = s.val /\ e.key.name = s.name
  BY <1>0, <1>1, <1>2, Answered DEF LeaseKinds
<1>4. Unrecorded(e, r) /\ s.name[2] + 1 \in Nat
  BY <1>0, <1>2, <1>3 DEF Unrecorded
<1>5. /\ r2 \in RecordType /\ r2.phase = r.phase /\ r2.intents = r.intents
      /\ r2.lease = s.val /\ r2.hgen = r.hgen + 1 /\ r2.rgen = r.rgen
  BY <1>1, <1>2, <1>4 DEF RecordType
<1>6. store' = [store EXCEPT ![h] = r2]
  BY <1>1 DEF RecordHeartbeat, ControlTypes, RecordType
<1>7. s2 \in ProcType /\ s2.pc = "wait" /\ s2.h = h
  BY <1>1, BlankType DEF ProcType
<1> HIDE DEF r2, s2
<1>8. store'[h] = r2 /\ r2.phase \notin Early
  BY <1>1, <1>2, <1>5, <1>6 DEF ControlTypes, Early, Running
<1>9. LeaseState(h)' /\ store[h].lease <= store'[h].lease
  <2>1. /\ store[h] \in RecordType /\ store'[h] \in RecordType /\ authority' = authority
        /\ store'[h].lease = e.lease /\ store'[h].phase \notin Early
        /\ e.key.name[1] = "heartbeat" /\ store'[h].phase = store[h].phase
        /\ store'[h].hgen = store[h].hgen + 1 /\ store'[h].rgen = store[h].rgen
        /\ e \in Issues(h) /\ Unrecorded(e, store[h])
    BY <1>0, <1>1, <1>3, <1>4, <1>5, <1>8
  <2> QED
    BY <1>1, <2>1, LeaseRecorded
<1>10. Data' /\ Forward
  <2>1. s2.pc \notin Waiting /\ authority' = authority
    BY <1>0, <1>7 DEF Waiting
  <2>2. Rank(r.phase) <= Rank(r2.phase) /\ store[h].lease <= r2.lease
    BY <1>1, <1>5, <1>8, <1>9, RankType DEF RecordType
  <2> QED
    BY <1>0, <1>1, <1>5, <1>6, <1>9, <2>1, <2>2, RecordData
<1>11. Control'
  <2>1. s2.pc \notin InMutation /\ s2.pc \in InMutation \cup {"idle", "wait"} /\ current' = current /\ s.pc # "idle"
    BY <1>0, <1>7 DEF InMutation
  <2>2. /\ lock' \in [Hosts -> Procs \cup {NoProcess}]
        /\ \A q \in Procs \ {w} : lock[Host(q)] = q => lock'[Host(q)] = q
    BY <1>0, <1>1, LockOthers DEF LockStep
  <2>3. r2.phase = store[w[2]].phase /\ r2.rgen = store[w[2]].rgen /\ store[w[2]].lease <= r2.lease
    BY <1>5, <1>8, <1>9
  <2> QED
    BY <1>0, <1>1, <1>5, <1>6, <1>7, <2>1, <2>2, <2>3, WorkerControl
<1> QED
  BY <1>10, <1>11

LEMMA RenewalTickStep ==
    ASSUME OneClient, Control, Data, NEW w \in Workers, RenewalTick(w)
    PROVE  Control' /\ Data' /\ Forward
<1> DEFINE s == proc[w]
           h == w[2]
           r == store[w[2]]
           s1 == [s EXCEPT !.loc = r]
           t == Phase(s1, "heartbeat", r.hgen, r.lease)
<1>0. /\ s.pc = "wait" /\ lock[w[1]] = NoProcess /\ UNCHANGED <<store, current, authority>>
      /\ \/ proc' = [proc EXCEPT ![w] = Idle] /\ stopping' = stopping \ {w} /\ lock' = lock
         \/ proc' = [proc EXCEPT ![w] = t] /\ stopping' = stopping /\ lock' = [lock EXCEPT ![w[1]] = w]
  BY DEF RenewalTick, Step
<1>1. /\ w \in Procs /\ h \in Handles /\ r \in RecordType /\ s \in ProcType /\ WorkerState(w)
      /\ stopping' \subseteq Workers /\ ControlTypes /\ Host(w) = w[1] /\ w[1] \in Hosts
  BY <1>0, Hosting DEF Control, ControlTypes
<1>2. s.h = h /\ r.hgen \in Nat /\ r.lease \in Nat /\ r.lease <= r.lease /\ "heartbeat" \in Kinds
  BY <1>0, <1>1 DEF WorkerState, RecordType, Kinds, LeaseKinds
<1>3. s1 \in ProcType /\ s1.h = h
  BY <1>1, <1>2 DEF ProcType
<1>4. Begun(t, s1, "intent", "heartbeat", r.hgen, r.lease)
  BY <1>2, <1>3, PhaseType
<1> HIDE DEF t
<1>5. PICK s2 \in ProcType :
         /\ proc' = [proc EXCEPT ![w] = s2] /\ s2.pc \in {"idle", "intent"}
         /\ s2.pc = "idle" => lock' = lock
         /\ s2.pc = "intent" => /\ lock' = [lock EXCEPT ![w[1]] = w] /\ s2.name = <<"heartbeat", r.hgen>>
                                /\ s2.arg = r.lease /\ s2.h = h
  <2>1. CASE proc' = [proc EXCEPT ![w] = Idle] /\ lock' = lock
    <3>1. Idle \in ProcType /\ Idle.pc = "idle"
      BY BlankType DEF Idle
    <3> QED
      BY <2>1, <3>1
  <2>2. CASE proc' = [proc EXCEPT ![w] = t] /\ lock' = [lock EXCEPT ![w[1]] = w]
    BY <1>3, <1>4, <2>2 DEF Begun
  <2> QED
    BY <1>0, <2>1, <2>2
<1>6. /\ lock' \in [Hosts -> Procs \cup {NoProcess}]
      /\ \A q \in Procs \ {w} : lock[Host(q)] = q => lock'[Host(q)] = q
  BY <1>0, <1>1, <1>5, LockOthers DEF LockStep
<1>7. Control'
  <2>1. /\ s2.pc \in InMutation \cup {"idle", "wait"} /\ s.pc # "idle" /\ current' = current
        /\ store' = [store EXCEPT ![w[2]] = r]
    BY <1>0, <1>1, <1>5, RecordAt DEF InMutation
  <2>2. s2.pc \in InMutation => s2.name = <<"heartbeat", r.hgen>> /\ s2.arg <= r.lease /\ lock'[w[1]] = w
    BY <1>1, <1>2, <1>5 DEF ControlTypes, InMutation
  <2>3. s2.pc # "idle" => s2.h = w[2]
    BY <1>5
  <2> QED
    BY <1>0, <1>1, <1>2, <1>5, <1>6, <2>1, <2>2, <2>3, WorkerControl
<1>8. \A q \in Procs : proc'[q].pc \notin Waiting \/ (proc'[q] = proc[q] /\ proc[q].h \in Handles)
  <2>1. ASSUME NEW q \in Procs, proc[q].pc \in Waiting PROVE proc[q].h \in Handles
    BY <2>1, OnHandle DEF Waiting
  <2>2. s2.pc \notin Waiting
    BY <1>5 DEF Waiting
  <2> QED
    BY <1>1, <1>5, <2>1, <2>2 DEF ControlTypes
<1>9. Data'
  BY <1>0, <1>8, DataKept DEF PhaseMove
<1>10. \A k \in Handles : store[k].phase \in Phases /\ store[k].lease \in Nat
  BY <1>1 DEF ControlTypes, RecordType
<1> QED
  BY <1>0, <1>7, <1>9, <1>10, RankType DEF Forward
-----------------------------------------------------------------------------
(* The theorems *)

\* The inductive invariant: Control is inductive only with Data (what is
\* recorded is an answer of the authority) and Data only with Control (no
\* one else makes the same mutation).
IInv == Control /\ Data

LEMMA CompactBegins == Init => IInv
<1> SUFFICES ASSUME Init PROVE IInv
  OBVIOUS
<1> USE DEF Init
<1>0. Idle \in ProcType /\ Blank \in RecordType /\ Idle.pc = "idle" /\ MaxHandles \in Nat
  BY BlankType, CompactAssumption DEF Idle
<1>1. ControlTypes /\ \A h \in Handles : h > current => store[h] = Blank
  BY <1>0 DEF ControlTypes
<1>2. \A c \in Callers : CallerState(c)
  BY <1>0, Hosting DEF CallerState, InMutation
<1>3. \A w \in Workers : WorkerState(w)
  BY <1>0, Hosting DEF WorkerState, InMutation
<1>4. Control
  BY <1>1, <1>2, <1>3 DEF Control
<1>5. /\ authority \in AuthorityType /\ authority.log = {}
      /\ \A h \in Handles : authority.attempt[h].lease = 0 /\ authority.attempt[h].state = "none"
  BY DEF NewAuthority, AuthorityType, AttemptStates
<1>6. \A p \in Procs : IntentState(p)
  BY <1>0 DEF IntentState
<1>7. ASSUME NEW h \in Handles PROVE LeaseState(h)
  <2>1. store[h].lease = 0 /\ Issues(h) = {}
    BY <1>5 DEF Blank, Issues
  <2> QED
    BY <1>5, <2>1 DEF LeaseState
<1>8. Data
  BY <1>5, <1>6, <1>7 DEF Data, ReplayIsExact, EffectOnce, KeysMatch
<1> QED
  BY <1>4, <1>8 DEF IInv

LEMMA Stutter ==
    ASSUME Control, Data, UNCHANGED vars
    PROVE  Control' /\ Data' /\ Forward
<1>0. UNCHANGED <<store, current, authority, proc, lock, stopping>> /\ ControlTypes
  BY DEF vars, Control
<1>1. Control'
  <2>1. \A c \in Callers : CallerState(c)'
    BY <1>0 DEF Control, CallerState, Host
  <2>2. \A w \in Workers : WorkerState(w)'
    BY <1>0 DEF Control, WorkerState, Host
  <2> QED
    BY <1>0, <2>1, <2>2 DEF Control, ControlTypes
<1>2. \A p \in Procs : proc'[p].pc \notin Waiting \/ (proc'[p] = proc[p] /\ proc[p].h \in Handles)
  <2>1. ASSUME NEW p \in Procs, proc[p].pc \in Waiting PROVE proc[p].h \in Handles
    BY <2>1, OnHandle DEF Waiting
  <2> QED
    BY <1>0, <2>1
<1>3. Data'
  BY <1>0, <1>2, DataKept DEF PhaseMove
<1>4. \A k \in Handles : store[k].phase \in Phases /\ store[k].lease \in Nat
  BY <1>0 DEF ControlTypes, RecordType
<1> QED
  BY <1>0, <1>1, <1>3, <1>4, RankType DEF Forward

LEMMA CompactStep ==
    ASSUME OneClient, IInv, [Next]_vars
    PROVE  IInv' /\ Forward
<1>0. Control /\ Data
  BY DEF IInv
<1>1. ASSUME NEW c \in Callers, Request(c) PROVE Control' /\ Data' /\ Forward
  <2>1. CASE NextTask(c)
    BY <1>0, <2>1, NextTaskAgain, NextTaskNew
  <2>2. CASE (\E o \in Operations : CoordinateTask(c, o)) \/ CoordinateResume(c) \/ CoordinateRecover(c)
    BY <1>0, <2>2, CoordinateStep
  <2>3. CASE \E act \in FinishActions : FinishTask(c, act)
    BY <1>0, <2>3, FinishTaskStep
  <2> QED
    BY <1>1, <2>1, <2>2, <2>3 DEF Request
<1>2. ASSUME NEW c \in Callers, CallStep(c) PROVE Control' /\ Data' /\ Forward
  <2>1. CASE SelectWork(c) \/ SetNoWork(c) \/ SaveSelection(c) \/ RecordWorkspace(c)
    BY <1>0, <2>1, SelectWorkStep, SetNoWorkStep, SaveSelectionStep, RecordWorkspaceStep
  <2>2. CASE RecordDispatch(c) \/ BuildContext(c) \/ EnsureRenewal(c) \/ TakeLock(c)
    BY <1>0, <2>2, RecordDispatchStep, BuildContextStep, EnsureRenewalStep, TakeLockStep
  <2>3. CASE RecordResume(c) \/ RecordOperation(c) \/ RecordVerification(c) \/ StopRenewal(c)
    BY <1>0, <2>3, RecordResumeStep, RecordOperationStep, RecordVerificationStep, StopRenewalStep
  <2>4. CASE JoinRenewal(c) \/ BeginFinish(c) \/ RecordHandback(c)
    BY <1>0, <2>4, JoinRenewalStep, BeginFinishStep, RecordHandbackStep
  <2>5. CASE RecordReport(c) \/ RecordRelease(c)
    BY <1>0, <2>5, RecordEndStep
  <2> QED
    BY <1>2, <2>1, <2>2, <2>3, <2>4, <2>5 DEF CallStep
<1>3. ASSUME NEW w \in Workers, RenewalTick(w) \/ RecordHeartbeat(w) PROVE Control' /\ Data' /\ Forward
  BY <1>0, <1>3, RenewalTickStep, RecordHeartbeatStep
<1>4. ASSUME NEW p \in Procs, PhaseStep(p) \/ InvokeLost(p) PROVE Control' /\ Data' /\ Forward
  BY <1>0, <1>4, PhaseIntentStep, InvokeAnsweredStep, ObserveRevisionStep, RefreshIntentStep,
     InvokeLostStep DEF PhaseStep
<1>5. CASE OtherCommit
  BY <1>0, <1>5, OtherCommitStep DEF IInv
<1>6. ASSUME NEW x \in Hosts, HostCrash(x) PROVE Control' /\ Data' /\ Forward
  BY <1>0, <1>6, HostCrashStep
<1>7. CASE UNCHANGED vars
  BY <1>0, <1>7, Stutter DEF IInv
<1> QED
  BY <1>1, <1>2, <1>3, <1>4, <1>5, <1>6, <1>7 DEF Next, IInv

\* What the inductive invariant says about the checked properties.
LEMMA RecordShape == \A r \in RecordType : RecordOK(r)
<1> SUFFICES ASSUME NEW r \in RecordType PROVE RecordOK(r)
  OBVIOUS
<1>1. r.intents \in IntentMaps
  BY DEF RecordType
<1>2. DOMAIN r.intents \subseteq Names /\ \A n \in DOMAIN r.intents : r.intents[n] \in IntentType
  BY <1>1, IntentMapType
<1> QED
  BY <1>2 DEF RecordType, RecordOK

LEMMA CompactImplied ==
    ASSUME IInv
    PROVE  CompactInv /\ ReplayIsExact /\ EffectOnce /\ FinishReadsNewestLease
<1>0. Control /\ Data /\ ControlTypes /\ authority \in AuthorityType
  BY DEF IInv, Control, Data
<1>1. TypeOK
  <2>1. \A h \in Handles : RecordOK(store[h])
    BY <1>0, RecordShape DEF ControlTypes
  <2>2. ASSUME NEW p \in Procs
        PROVE  /\ RecordOK(proc[p].loc) /\ proc[p].name \in Names
               /\ proc[p].h \in 0..MaxHandles /\ proc[p].intent \in IntentType
    <3>1. proc[p] \in ProcType
      BY <1>0 DEF ControlTypes
    <3> QED
      BY <3>1, RecordShape DEF ProcType
  <2>3. /\ authority.revision \in Nat
        /\ \A h \in Handles : authority.attempt[h] \in [state : AttemptStates, lease : Nat]
    BY <1>0 DEF AuthorityType
  <2> QED
    BY <1>0, <2>1, <2>2, <2>3 DEF TypeOK, ControlTypes
<1>2. LeaseTracked
  <2>1. ASSUME NEW h \in Handles
        PROVE  \/ store[h].lease = authority.attempt[h].lease
               \/ \E e \in authority.log : /\ e.key.handle = h /\ Unrecorded(e, store[h])
                                           /\ e.lease = authority.attempt[h].lease
    BY <1>0 DEF Data, LeaseState, Issues
  <2> QED
    BY <2>1 DEF LeaseTracked
<1>3. FinishReadsNewestLease
  <2>1. SUFFICES ASSUME NEW c \in Callers, proc[c].call = "finish_task",
                        proc[c].pc \notin {"lock", "stop", "join"},
                        proc[c].name[1] \in {"verify", "finish:handback"},
                        proc[c].loc.phase = "handback_pending",
                        authority.attempt[proc[c].h].state = "running"
                 PROVE  \/ proc[c].loc.lease = authority.attempt[proc[c].h].lease
                        \/ \E e \in authority.log :
                              /\ e.key.handle = proc[c].h /\ Unrecorded(e, store[proc[c].h])
                              /\ e.lease = authority.attempt[proc[c].h].lease
    BY DEF FinishReadsNewestLease
  <2>2. proc[c].pc # "idle"
    <3>1. Idle.call = "none" /\ CallerState(c)
      BY <1>0 DEF Idle, Control
    <3> QED
      BY <2>1, <3>1 DEF CallerState
  <2>3. /\ proc[c].h = current /\ current \in Handles /\ proc[c] \in ProcType
        /\ StepAt(proc[c], store[current])
    BY <1>0, <2>2, ClientAt
  <2>4. proc[c].pc \in InMutation
    BY <2>1, <2>2, <2>3 DEF StepAt, ProcType
  <2>5. KindAt(proc[c], store[current])
    BY <2>3, <2>4 DEF StepAt
  <2>6. proc[c].loc.lease = store[current].lease
    BY <2>1, <2>5 DEF KindAt
  <2> QED
    BY <1>2, <2>1, <2>3, <2>6 DEF LeaseTracked
<1> QED
  BY <1>0, <1>1, <1>2, <1>3 DEF CompactInv, Data

LEMMA CompactInductive ==
    ASSUME OneClient
    PROVE  Spec => []IInv
<1>1. IInv /\ [Next]_vars => IInv'
  BY CompactStep
<1> QED
  BY <1>1, CompactBegins, PTL DEF Spec

\* With one client, records, calls and authority stay well formed and the
\* lease of a running attempt is recorded or is the answer of the one
\* committed renewal that is still to be recorded (_heartbeat_active,
\* _resume_active_locked), for any number of workflows, renewals, lost
\* answers, foreign commits and host deaths.
THEOREM LeaseIsNeverLost ==
    ASSUME OneClient
    PROVE  Spec => []CompactInv
  BY CompactInductive, CompactImplied, PTL

\* With one client, whatever the authority has committed is replayed exactly
\* by the stored intent: a lost answer never changes the replay body
\* (_phase_intent).
THEOREM ReplayBodyIsStored ==
    ASSUME OneClient
    PROVE  Spec => []ReplayIsExact
  BY CompactInductive, CompactImplied, PTL

\* With one client, no phase of a workflow is committed twice: a refreshed
\* key is used only when the stale request had no commit (_invoke_phase,
\* _refresh_phase_intent).
THEOREM PhasesCommitOnce ==
    ASSUME OneClient
    PROVE  Spec => []EffectOnce
  BY CompactInductive, CompactImplied, PTL

\* With one client, finish hands back with the newest lease, whatever
\* renewal was in flight when it began (_stop_lease_renewal).
THEOREM FinishUsesNewestLease ==
    ASSUME OneClient
    PROVE  Spec => []FinishReadsNewestLease
  BY CompactInductive, CompactImplied, PTL

\* With one client, a record goes back neither in its phase nor in its
\* lease, although calls write copies that they read earlier.
THEOREM RecordsOnlyMoveForward ==
    ASSUME OneClient
    PROVE  Spec => RecordForward
<1>1. ASSUME IInv, [Next]_vars
      PROVE  /\ [\A h \in Handles : Rank(store[h].phase) <= Rank(store'[h].phase)]_vars
             /\ [\A h \in Handles : store[h].lease <= store'[h].lease]_vars
  BY <1>1, CompactStep DEF Forward
<1> QED
  BY <1>1, CompactInductive, PTL DEF Spec, RecordForward, PhaseForward, RenewalKept
=============================================================================
