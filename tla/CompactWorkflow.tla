--------------------------- MODULE CompactWorkflow ---------------------------
(***************************************************************************)
(* The compact task workflow: next_task, coordinate_task and finish_task   *)
(* drive one attempt of the native Todo authority through a durable        *)
(* record, while a renewal thread of every host keeps the lease alive.     *)
(*                                                                         *)
(* The record store is one file under an flock, so every get, update and   *)
(* atomic_update is one step; everything between two of them may be        *)
(* interleaved with the other calls, with the renewal threads, with other  *)
(* clients of the authority, with lost answers and with the death of a     *)
(* host process.  Read-only calls (inspect_task, the sync of an inbox) and *)
(* calls refused before they touch the store change nothing and are not    *)
(* modelled.                                                               *)
(***************************************************************************)
EXTENDS TodoAuthority

CONSTANTS
    Callers,        \* concurrent tool calls
    Hosts,          \* MCP host processes that share the record store
    HostOf,         \* the host that serves a caller
    Operations,     \* identities of coordinate actions
    FinishActions,  \* a subset of {"complete", "handoff", "release"}
    NoProcess,      \* nobody holds a renewal lock
    MaxHandles,     \* bound: workflows ever reserved
    MaxGeneration,  \* bound: heartbeats, and resumes, of one workflow
    MaxOther,       \* bound: commits of other clients of the authority
    MaxLost,        \* bound: answers of the authority lost on the way
    MaxCrashes      \* bound: deaths of a host process

ASSUME CompactAssumption ==
    /\ HostOf \in [Callers -> Hosts]
    /\ Operations \subseteq Nat \ {0}
    /\ FinishActions \subseteq {"complete", "handoff", "release"}
    /\ MaxHandles \in Nat /\ MaxGeneration \in Nat
    /\ MaxOther \in Nat /\ MaxLost \in Nat /\ MaxCrashes \in Nat
    /\ NoProcess \notin Callers \cup (Hosts \X (1..MaxHandles))
    /\ Callers \cap (Hosts \X (1..MaxHandles)) = {}

Handles == 1..MaxHandles
Workers == Hosts \X Handles
Procs   == Callers \cup Workers
Host(p) == IF p \in Callers THEN HostOf[p] ELSE p[1]

VARIABLES
    store,      \* workflow handle -> its durable record
    current,    \* the scope's workflow_current pointer, 0 when there is none
    authority,  \* the native Todo authority
    proc,       \* the control state and the locals of every call and worker
    lock,       \* the renewal lock of every host
    stopping,   \* the workers whose stop event is set
    faults      \* how often each kind of disturbance has happened

vars == <<store, current, authority, proc, lock, stopping, faults>>

-----------------------------------------------------------------------------
(* The durable record *)

ActivePhases == {"selecting", "workspace_pending", "dispatch_pending", "context_pending",
                 "active", "handback_pending", "report_pending", "release_pending"}
PendingFinish == {"handback_pending", "report_pending", "release_pending"}
FinalPhases   == {"no_work", "review_pending", "released"}
Phases == ActivePhases \cup FinalPhases \cup {"absent"}

\* A record with none of its optional fields: a zero or an empty value
\* stands for a missing key.
Blank == [phase |-> "absent", observed |-> 0, lease |-> 0, hgen |-> 0, rgen |-> 0,
          intents |-> <<>>, fin |-> "none", ops |-> {}]

\* update() with a whole local record: every key the local copy has
\* replaces the stored one, keys it lacks stay.
Overwrite(old, loc) ==
    [phase |-> loc.phase, observed |-> loc.observed, intents |-> loc.intents,
     lease |-> IF loc.lease = 0 THEN old.lease ELSE loc.lease,
     hgen  |-> IF loc.hgen = 0 THEN old.hgen ELSE loc.hgen,
     rgen  |-> IF loc.rgen = 0 THEN old.rgen ELSE loc.rgen,
     fin   |-> IF loc.fin = "none" THEN old.fin ELSE loc.fin,
     ops   |-> IF loc.ops = {} THEN old.ops ELSE loc.ops]

WithIntent(intents, name, i) ==
    [n \in DOMAIN intents \cup {name} |-> IF n = name THEN i ELSE intents[n]]

-----------------------------------------------------------------------------
(* Calls and their local state *)

NoIntent == [arg |-> 0, revision |-> 0, generation |-> 0]

Idle == [pc |-> "idle", call |-> "none", h |-> 0, loc |-> Blank, name |-> <<"verify", 0>>,
         arg |-> 0, retry |-> 0, intent |-> NoIntent, val |-> 0, act |-> "none", new |-> FALSE]

\* A call that is about to make a native mutation under a durable intent.
Phase(s, kind, n, arg) ==
    [s EXCEPT !.pc = "intent", !.name = <<kind, n>>, !.arg = arg, !.retry = 0]

\* The same, once the host's renewal lock is held.
LockedPhase(s, kind, n, arg) == [Phase(s, kind, n, arg) EXCEPT !.pc = "lock"]

\* How next_task goes on from the phase of its local record.
NextAt(s) ==
    CASE s.loc.phase = "selecting"         -> [s EXCEPT !.pc = "select"]
      [] s.loc.phase = "workspace_pending" -> Phase(s, "create_workspace", 0, 0)
      [] s.loc.phase = "dispatch_pending"  -> Phase(s, "dispatch_attempt", 0, 0)
      [] s.loc.phase = "context_pending"   -> [s EXCEPT !.pc = "context"]
      [] s.loc.phase = "active"            -> LockedPhase(s, "resume", s.loc.rgen, s.loc.lease)
      [] OTHER                             -> Idle

\* How finish_task goes on once the finish request is recorded.
ReportArg(act) == CASE act = "complete" -> 1 [] act = "handoff" -> 2 [] OTHER -> 3
FinishAt(s) ==
    CASE s.loc.phase = "handback_pending" -> Phase(s, "finish:handback", 0, s.loc.lease)
      [] s.loc.phase = "report_pending"   -> Phase(s, "finish:report", 0, ReportArg(s.loc.fin))
      [] s.loc.phase = "release_pending"  -> Phase(s, "finish:release", 0, s.loc.lease)
      [] OTHER                            -> Idle

Step(p, s) == proc' = [proc EXCEPT ![p] = s]

\* The end of a call or of a worker: it gives back the renewal lock.
Freed(p) == [x \in Hosts |-> IF lock[x] = p THEN NoProcess ELSE lock[x]]
Return(p) == Step(p, Idle) /\ lock' = Freed(p)

\* Only the store and the process change; only the process changes.
StoreStep == UNCHANGED <<current, authority, stopping, faults>>
LocalStep == StoreStep /\ UNCHANGED store

Init ==
    /\ store = [h \in Handles |-> Blank]
    /\ current = 0
    /\ authority = NewAuthority(Handles)
    /\ proc = [p \in Procs |-> Idle]
    /\ lock = [x \in Hosts |-> NoProcess]
    /\ stopping = {}
    /\ faults = [other |-> 0, lost |-> 0, crashes |-> 0]

-----------------------------------------------------------------------------
(* next_task *)

\* reserve_workflow: resume the current workflow of the scope or reserve a
\* new one, in one transaction of the store.
NextTask(c) ==
    /\ proc[c].pc = "idle"
    /\ IF current # 0 /\ store[current].phase \in ActivePhases
       THEN /\ store[current].phase = "active" => store[current].rgen < MaxGeneration
            /\ Step(c, NextAt([Idle EXCEPT !.call = "next_task", !.h = current,
                                           !.loc = store[current]]))
            /\ UNCHANGED <<store, current>>
       ELSE /\ current < MaxHandles
            /\ current' = current + 1
            /\ store' = [store EXCEPT ![current + 1].phase = "selecting"]
            /\ Step(c, NextAt([Idle EXCEPT !.call = "next_task", !.h = current + 1, !.new = TRUE,
                                           !.loc = [Blank EXCEPT !.phase = "selecting"]]))
    /\ UNCHANGED <<authority, lock, stopping, faults>>

\* todo_select_next_work: the authority names eligible work and the revision
\* at which it saw it, or none.
SelectWork(c) ==
    /\ proc[c].pc = "select"
    /\ \/ Step(c, [proc[c] EXCEPT !.pc = "no_work"])
       \/ Step(c, [proc[c] EXCEPT !.pc = "save", !.val = authority.revision])
    /\ LocalStep /\ UNCHANGED lock

\* set_no_work: the call that found nothing closes the selection unless
\* another call has made one; then reading the missing choice fails.
SetNoWork(c) ==
    /\ proc[c].pc = "no_work"
    /\ store' = IF store[proc[c].h].phase = "selecting"
                THEN [store EXCEPT ![proc[c].h].phase = "no_work"] ELSE store
    /\ Return(c) /\ StoreStep

\* save_selection: the first selection wins, a later one goes on with it.
Selected(r, revision) ==
    IF r.phase = "selecting"
    THEN [r EXCEPT !.phase = "workspace_pending", !.observed = revision] ELSE r
SaveSelection(c) ==
    LET h == proc[c].h  r == Selected(store[h], proc[c].val)
    IN  /\ proc[c].pc = "save"
        /\ store' = [store EXCEPT ![h] = r]
        /\ Step(c, NextAt([proc[c] EXCEPT !.loc = r]))
        /\ StoreStep /\ UNCHANGED lock

\* The workspace exists: the whole local record is merged into the store.
RecordWorkspace(c) ==
    LET h == proc[c].h  r == [proc[c].loc EXCEPT !.phase = "dispatch_pending"]
    IN  /\ proc[c].pc = "answered" /\ proc[c].name[1] = "create_workspace"
        /\ store' = [store EXCEPT ![h] = Overwrite(@, r)]
        /\ Step(c, NextAt([proc[c] EXCEPT !.loc = r]))
        /\ StoreStep /\ UNCHANGED lock

\* The attempt is dispatched: again the whole local record.
RecordDispatch(c) ==
    LET h == proc[c].h
        r == [proc[c].loc EXCEPT !.phase = "context_pending", !.lease = proc[c].val]
    IN  /\ proc[c].pc = "answered" /\ proc[c].name[1] = "dispatch_attempt"
        /\ store' = [store EXCEPT ![h] = Overwrite(@, r)]
        /\ Step(c, [proc[c] EXCEPT !.loc = r, !.pc = "ensure"])
        /\ StoreStep /\ UNCHANGED lock

(* Mutant: the whole local record is written with the context. *)
BuildContextWhole(c) ==
    LET h == proc[c].h  r == [proc[c].loc EXCEPT !.phase = "active"]
    IN  /\ proc[c].pc = "context"
        /\ store' = [store EXCEPT ![h] = Overwrite(@, r)]
        /\ Step(c, [proc[c] EXCEPT !.loc = r, !.pc = "ensure"])
        /\ StoreStep /\ UNCHANGED lock

\* todo_build_context, then only the context fields are merged; a call that
\* did not reserve the workflow itself renews the lease before it returns.
BuildContext(c) ==
    LET h == proc[c].h  r == [store[h] EXCEPT !.phase = "active"]
    IN  /\ proc[c].pc = "context"
        /\ store' = [store EXCEPT ![h] = r]
        /\ Step(c, IF proc[c].new THEN [proc[c] EXCEPT !.loc = r, !.pc = "ensure"]
                   ELSE NextAt([proc[c] EXCEPT !.loc = r]))
        /\ StoreStep /\ UNCHANGED lock

-----------------------------------------------------------------------------
(* One durable native mutation: _phase_intent, _invoke_phase and
   _refresh_phase_intent *)

\* The revision a new intent is bound to: the one the selection saw for
\* create_workspace, else the one the authority reports now.  A call that
\* already retried forgets the selection's revision, but then it has an
\* intent.
IntentRevision(s) ==
    IF s.name[1] = "create_workspace" THEN s.loc.observed ELSE authority.revision

(* Mutant: a repeated call binds the stored intent to the newest revision. *)
PhaseIntentRebound(p) ==
    LET s == proc[p]  r == store[s.h]
        fresh == [arg |-> s.arg, revision |-> IntentRevision(s), generation |-> 0]
        kept  == [r EXCEPT !.intents = WithIntent(r.intents, s.name, fresh)]
    IN  /\ s.pc = "intent"
        /\ store' = [store EXCEPT ![s.h] = kept]
        /\ Step(p, [s EXCEPT !.pc = "invoke", !.loc = kept, !.intent = fresh])
        /\ UNCHANGED lock
        /\ StoreStep

\* Reading the stored intent, observing the revision and persisting the
\* intent are one step: an intent stored in between is the one returned,
\* and a revision that moves in between is as stale as one that moves
\* after the intent is stored.  Coordinate, recover, verify, heartbeat and
\* resume hand over a copy of their record; they write single fields of it
\* afterwards, so one client cannot tell it from the stored record.
PhaseIntent(p) ==
    LET s == proc[p]  r == store[s.h]
        fresh == [arg |-> s.arg, revision |-> IntentRevision(s), generation |-> 0]
        kept  == IF s.name \in DOMAIN r.intents THEN r
                 ELSE [r EXCEPT !.intents = WithIntent(r.intents, s.name, fresh)]
    IN  /\ s.pc = "intent"
        /\ IF kept.intents[s.name].arg # s.arg
           THEN Return(p) /\ UNCHANGED store
           ELSE /\ store' = [store EXCEPT ![s.h] = kept]
                /\ Step(p, [s EXCEPT !.pc = "invoke", !.loc = kept,
                                     !.intent = kept.intents[s.name]])
                /\ UNCHANGED lock
        /\ StoreStep

\* The native call and its answer.  A definite stale answer is retried once.
InvokeAnswered(p) ==
    LET s == proc[p]  verdict == Verdict(authority, s.h, s.name, s.intent)
    IN  /\ s.pc = "invoke"
        /\ authority' = IF verdict = "committed" THEN Commit(authority, s.h, s.name, s.intent)
                        ELSE authority
        /\ \/ /\ verdict \in {"committed", "replayed"}
              /\ Step(p, [s EXCEPT !.pc = "answered",
                                   !.val = AnsweredLease(authority, s.h, s.name, s.intent)])
              /\ UNCHANGED lock
           \/ /\ verdict = "stale" /\ s.retry = 0
              /\ Step(p, [s EXCEPT !.pc = "observe"])
              /\ UNCHANGED lock
           \/ /\ verdict = "rejected" \/ (verdict = "stale" /\ s.retry = 1)
              /\ Return(p)
        /\ UNCHANGED <<store, current, stopping, faults>>

(* Mutant: an unknown failure is retried like a stale revision. *)
InvokeLostRetried(p) ==
    LET s == proc[p]  verdict == Verdict(authority, s.h, s.name, s.intent)
    IN  /\ s.pc = "invoke" /\ faults.lost < MaxLost
        /\ authority' = IF verdict = "committed" THEN Commit(authority, s.h, s.name, s.intent)
                        ELSE authority
        /\ faults' = [faults EXCEPT !.lost = @ + 1]
        /\ Step(p, [s EXCEPT !.pc = "observe"])
        /\ UNCHANGED <<lock, store, current, stopping>>

\* The authority carries out the call but its answer is lost: the call ends
\* with an unknown failure, the renewal worker ends.
InvokeLost(p) ==
    LET s == proc[p]  verdict == Verdict(authority, s.h, s.name, s.intent)
    IN  /\ s.pc = "invoke" /\ faults.lost < MaxLost
        /\ authority' = IF verdict = "committed" THEN Commit(authority, s.h, s.name, s.intent)
                        ELSE authority
        /\ faults' = [faults EXCEPT !.lost = @ + 1]
        /\ Return(p)
        /\ UNCHANGED <<store, current, stopping>>

\* _refresh_phase_intent reads the authority's revision ...
ObserveRevision(p) ==
    /\ proc[p].pc = "observe"
    /\ Step(p, [proc[p] EXCEPT !.pc = "refresh", !.val = authority.revision])
    /\ LocalStep /\ UNCHANGED lock

\* ... and then replaces the revision and the key of the stored intent.
RefreshIntent(p) ==
    LET s == proc[p]  r == store[s.h]
        old  == r.intents[s.name]
        next == IF old.revision = s.val THEN old
                ELSE [old EXCEPT !.revision = s.val, !.generation = @ + 1]
    IN  /\ s.pc = "refresh"
        /\ IF s.name \notin DOMAIN r.intents \/ old.arg # s.arg
           THEN Return(p) /\ UNCHANGED store
           ELSE LET kept == [r EXCEPT !.intents[s.name] = next]
                IN  /\ store' = [store EXCEPT ![s.h] = kept]
                    /\ Step(p, [s EXCEPT !.pc = "intent", !.retry = 1, !.loc = kept])
                    /\ UNCHANGED lock
        /\ StoreStep

-----------------------------------------------------------------------------
(* The lease and the renewal threads *)

\* _ensure_lease_renewal: start this host's worker for the handle unless it
\* is alive, then go on to the context or return.
EnsureRenewal(c) ==
    LET w == <<Host(c), proc[c].h>>
        next == IF proc[c].loc.phase = "context_pending"
                THEN [proc[c] EXCEPT !.pc = "context"] ELSE Idle
        worker == IF proc[w].pc = "idle"
                  THEN [Idle EXCEPT !.pc = "wait", !.call = "renewal", !.h = proc[c].h]
                  ELSE proc[w]
    IN  /\ proc[c].pc = "ensure" /\ lock[Host(c)] = NoProcess
        /\ proc' = [proc EXCEPT ![c] = next, ![w] = worker]
        /\ LocalStep /\ UNCHANGED lock

\* The wait of the renewal loop ends: a stopped worker, or one whose record
\* is no longer running, exits; otherwise it heartbeats under the lock.
RenewalTick(w) ==
    LET r == store[w[2]]
    IN  /\ proc[w].pc = "wait" /\ lock[w[1]] = NoProcess
        /\ IF w \in stopping \/ r.phase \notin {"active", "context_pending"}
           THEN Step(w, Idle) /\ stopping' = stopping \ {w} /\ UNCHANGED lock
           ELSE /\ r.hgen < MaxGeneration
                /\ Step(w, Phase([proc[w] EXCEPT !.loc = r], "heartbeat", r.hgen, r.lease))
                /\ lock' = [lock EXCEPT ![w[1]] = w]
                /\ UNCHANGED stopping
        /\ UNCHANGED <<store, current, authority, faults>>

(* Mutant: the generation advances but the renewed lease is not recorded. *)
RecordHeartbeatCount(w) ==
    /\ proc[w].pc = "answered" /\ proc[w].name[1] = "heartbeat"
    /\ store' = [store EXCEPT ![w[2]].hgen = proc[w].name[2] + 1]
    /\ Step(w, [Idle EXCEPT !.pc = "wait", !.call = "renewal", !.h = w[2]])
    /\ lock' = Freed(w)
    /\ StoreStep

\* _heartbeat_active records the new lease and the worker waits again.
RecordHeartbeat(w) ==
    /\ proc[w].pc = "answered" /\ proc[w].name[1] = "heartbeat"
    /\ store' = [store EXCEPT ![w[2]].lease = proc[w].val, ![w[2]].hgen = proc[w].name[2] + 1]
    /\ Step(w, [Idle EXCEPT !.pc = "wait", !.call = "renewal", !.h = w[2]])
    /\ lock' = Freed(w)
    /\ StoreStep

\* A recovery receipt proves the release of the attempt only if it names the
\* lease of the record that the call has read.
ConfirmsRelease(s, lease) == s.name[1] = "recover" /\ lease = s.loc.lease

\* A call takes the renewal lock with the record it has read before.  A
\* coordinate operation recorded as complete is answered at once.
TakeLock(c) ==
    LET s == proc[c]  x == Host(c)
        complete == s.name[1] \in {"coordinate", "recover"} /\ s.name[2] \in s.loc.ops
    IN  /\ s.pc = "lock" /\ lock[x] = NoProcess
        /\ \/ /\ ~complete
              /\ Step(c, [s EXCEPT !.pc = "intent"])
              /\ lock' = [lock EXCEPT ![x] = c]
              /\ UNCHANGED store
           \/ /\ complete
              /\ Step(c, Idle)
              /\ store' = IF \E e \in authority.log : /\ e.key.handle = s.h /\ e.key.name = s.name
                                                       /\ ConfirmsRelease(s, e.lease)
                          THEN [store EXCEPT ![s.h].phase = "released"] ELSE store
              /\ UNCHANGED lock
        /\ StoreStep

\* _resume_active_locked records the renewed lease; next_task then makes
\* sure that a worker renews it.
RecordResume(c) ==
    LET s == proc[c]
        r == [store[s.h] EXCEPT !.lease = s.val, !.rgen = s.name[2] + 1]
    IN  /\ s.pc = "answered" /\ s.name[1] = "resume"
        /\ store' = [store EXCEPT ![s.h] = r]
        /\ Step(c, IF s.call = "next_task" THEN [s EXCEPT !.pc = "ensure", !.loc = r] ELSE Idle)
        /\ lock' = Freed(c)
        /\ StoreStep

-----------------------------------------------------------------------------
(* coordinate_task *)

\* A call on an active workflow: a native operation, or a heartbeat or a
\* resume asked for by the client.
CoordinateTask(c, o) ==
    /\ proc[c].pc = "idle" /\ current # 0 /\ store[current].phase = "active"
    /\ Step(c, LockedPhase([Idle EXCEPT !.call = "coordinate_task", !.h = current,
                                        !.loc = store[current]], "coordinate", o, 0))
    /\ LocalStep /\ UNCHANGED lock

CoordinateResume(c) ==
    /\ proc[c].pc = "idle" /\ current # 0 /\ store[current].phase = "active"
    /\ store[current].rgen < MaxGeneration
    /\ Step(c, LockedPhase([Idle EXCEPT !.call = "coordinate_task", !.h = current,
                                        !.loc = store[current]],
                           "resume", store[current].rgen, store[current].lease))
    /\ LocalStep /\ UNCHANGED lock

\* Recovery of the attempt, also for a finish that is pending.
CoordinateRecover(c) ==
    /\ proc[c].pc = "idle" /\ current # 0
    /\ store[current].phase \in {"active"} \cup PendingFinish
    /\ Step(c, LockedPhase([Idle EXCEPT !.call = "coordinate_task", !.h = current,
                                        !.loc = store[current]], "recover", 0, 0))
    /\ LocalStep /\ UNCHANGED lock

\* _execute_coordinate_action: the operations that the call had read are
\* written back with the new one; a recovery whose receipt names the lease
\* of the local record ends the workflow.
RecordOperation(c) ==
    LET s == proc[c]  h == s.h
    IN  /\ s.pc = "answered" /\ s.name[1] \in {"coordinate", "recover"}
        /\ store' = [store EXCEPT ![h].ops = s.loc.ops \cup {s.name[2]},
                                  ![h].phase = IF ConfirmsRelease(s, s.val) THEN "released" ELSE @]
        /\ Return(c) /\ StoreStep

-----------------------------------------------------------------------------
(* finish_task *)

(* Mutant: a pending finish cannot be repeated. *)
FinishTaskOnce(c, act) ==
    /\ proc[c].pc = "idle" /\ current # 0 /\ store[current].phase = "active"
    /\ Step(c, [Idle EXCEPT !.call = "finish_task", !.h = current, !.loc = store[current],
                            !.act = act, !.pc = "stop"])
    /\ LocalStep /\ UNCHANGED lock

\* Finishing starts on an active workflow; a pending finish is repeated only
\* with the action it was started with.
FinishTask(c, act) ==
    LET r == store[current]
        s == [Idle EXCEPT !.call = "finish_task", !.h = current, !.loc = r, !.act = act]
    IN  /\ proc[c].pc = "idle" /\ current # 0
        /\ \/ /\ r.phase = "active"
              /\ Step(c, IF act = "complete" THEN LockedPhase(s, "verify", 0, 0)
                         ELSE [s EXCEPT !.pc = "stop"])
           \/ /\ r.phase \in PendingFinish /\ r.fin = act
              /\ Step(c, FinishAt(s))
        /\ LocalStep /\ UNCHANGED lock

\* The gates have been run; the lock is given back.
RecordVerification(c) ==
    /\ proc[c].pc = "answered" /\ proc[c].name[1] = "verify"
    /\ Step(c, [proc[c] EXCEPT !.pc = "stop"])
    /\ lock' = Freed(c)
    /\ LocalStep

\* _stop_lease_renewal: set the stop event under the lock, ...
StopRenewal(c) ==
    LET w == <<Host(c), proc[c].h>>
    IN  /\ proc[c].pc = "stop" /\ lock[Host(c)] = NoProcess
        /\ stopping' = IF proc[w].pc = "idle" THEN stopping ELSE stopping \cup {w}
        /\ Step(c, [proc[c] EXCEPT !.pc = "join"])
        /\ UNCHANGED <<store, current, authority, lock, faults>>

(* Mutant: the record is not read again after the renewal has stopped. *)
JoinRenewalStale(c) ==
    /\ proc[c].pc = "join" /\ proc[<<Host(c), proc[c].h>>].pc = "idle"
    /\ Step(c, [proc[c] EXCEPT !.pc = "begin"])
    /\ LocalStep /\ UNCHANGED lock

\* ... wait until the worker has ended and read the record again, ...
JoinRenewal(c) ==
    /\ proc[c].pc = "join" /\ proc[<<Host(c), proc[c].h>>].pc = "idle"
    /\ Step(c, [proc[c] EXCEPT !.pc = "begin", !.loc = store[proc[c].h]])
    /\ LocalStep /\ UNCHANGED lock

\* ... and merge the finish request into the stored record.
BeginFinish(c) ==
    LET s == proc[c]  h == s.h
        r == [s.loc EXCEPT !.phase = "handback_pending", !.fin = s.act]
    IN  /\ s.pc = "begin"
        /\ store' = [store EXCEPT ![h].phase = "handback_pending", ![h].fin = s.act]
        /\ Step(c, FinishAt([s EXCEPT !.loc = r]))
        /\ StoreStep /\ UNCHANGED lock

\* The writing attempt is handed back; an outcome is reported, a plain
\* release is not.
AfterHandback(r) == IF r.fin = "release" THEN "release_pending" ELSE "report_pending"
RecordHandback(c) ==
    LET s == proc[c]  r == [s.loc EXCEPT !.phase = AfterHandback(s.loc)]
    IN  /\ s.pc = "answered" /\ s.name[1] = "finish:handback"
        /\ store' = [store EXCEPT ![s.h].phase = r.phase]
        /\ Step(c, FinishAt([s EXCEPT !.loc = r]))
        /\ StoreStep /\ UNCHANGED lock

\* The outcome is reported: the workflow waits for its review.
RecordReport(c) ==
    /\ proc[c].pc = "answered" /\ proc[c].name[1] = "finish:report"
    /\ store' = [store EXCEPT ![proc[c].h].phase = "review_pending"]
    /\ Return(c) /\ StoreStep

\* The attempt is released.
RecordRelease(c) ==
    /\ proc[c].pc = "answered" /\ proc[c].name[1] = "finish:release"
    /\ store' = [store EXCEPT ![proc[c].h].phase = "released"]
    /\ Return(c) /\ StoreStep

-----------------------------------------------------------------------------
(* The environment *)

\* Another client of the authority commits something.
OtherCommit ==
    /\ faults.other < MaxOther
    /\ authority' = [authority EXCEPT !.revision = @ + 1]
    /\ faults' = [faults EXCEPT !.other = @ + 1]
    /\ UNCHANGED <<store, current, proc, lock, stopping>>

\* A host process dies with its calls and its (daemon) renewal threads.
HostCrash(x) ==
    /\ faults.crashes < MaxCrashes
    /\ proc' = [p \in Procs |-> IF Host(p) = x THEN Idle ELSE proc[p]]
    /\ lock' = [lock EXCEPT ![x] = NoProcess]
    /\ stopping' = {w \in stopping : w[1] # x}
    /\ faults' = [faults EXCEPT !.crashes = @ + 1]
    /\ UNCHANGED <<store, current, authority>>

-----------------------------------------------------------------------------

\* A step of a call or worker that has begun.
PhaseStep(p) ==
    \/ PhaseIntent(p) \/ InvokeAnswered(p) \/ ObserveRevision(p) \/ RefreshIntent(p)

CallStep(c) ==
    \/ SelectWork(c) \/ SetNoWork(c) \/ SaveSelection(c) \/ RecordWorkspace(c)
    \/ RecordDispatch(c) \/ BuildContext(c) \/ EnsureRenewal(c) \/ TakeLock(c)
    \/ RecordResume(c) \/ RecordOperation(c) \/ RecordVerification(c) \/ StopRenewal(c)
    \/ JoinRenewal(c) \/ BeginFinish(c) \/ RecordHandback(c) \/ RecordReport(c)
    \/ RecordRelease(c)

\* A call of the client.
Request(c) ==
    \/ NextTask(c)
    \/ \E o \in Operations : CoordinateTask(c, o)
    \/ CoordinateResume(c) \/ CoordinateRecover(c)
    \/ \E act \in FinishActions : FinishTask(c, act)

Next ==
    \/ \E c \in Callers : Request(c) \/ CallStep(c)
    \/ \E w \in Workers : RenewalTick(w) \/ RecordHeartbeat(w)
    \/ \E p \in Procs : PhaseStep(p) \/ InvokeLost(p)
    \/ OtherCommit
    \/ \E x \in Hosts : HostCrash(x)

Spec == Init /\ [][Next]_vars

-----------------------------------------------------------------------------
(* Properties *)

IntentType == [arg : Nat, revision : Nat, generation : Nat]
Names == Kinds \X Nat
RecordOK(r) ==
    /\ r.phase \in Phases /\ r.fin \in FinishActions \cup {"none"}
    /\ {r.observed, r.lease, r.hgen, r.rgen} \subseteq Nat
    /\ r.ops \subseteq Operations \cup {0}
    /\ DOMAIN r.intents \subseteq Names
    /\ \A n \in DOMAIN r.intents : r.intents[n] \in IntentType

\* Types: every record, call and lock of the workflow host has its shape.
TypeOK ==
    /\ \A h \in Handles : RecordOK(store[h])
    /\ current \in 0..MaxHandles
    /\ authority.revision \in Nat
    /\ \A h \in Handles : authority.attempt[h] \in [state : AttemptStates, lease : Nat]
    /\ \A p \in Procs : /\ RecordOK(proc[p].loc) /\ proc[p].name \in Names
                        /\ proc[p].h \in 0..MaxHandles /\ proc[p].intent \in IntentType
    /\ lock \in [Hosts -> Procs \cup {NoProcess}]
    /\ stopping \subseteq Workers

Rank(phase) ==
    CASE phase = "absent" -> 0             [] phase = "selecting" -> 1
      [] phase = "workspace_pending" -> 2  [] phase = "dispatch_pending" -> 3
      [] phase = "context_pending" -> 4    [] phase = "active" -> 5
      [] phase = "handback_pending" -> 6   [] phase \in {"report_pending", "release_pending"} -> 7
      [] phase \in FinalPhases -> 8

\* A workflow's stored phase never goes back, whatever a slow call still
\* writes: an attempt that is running, handed back or over is not dispatched
\* again.
PhaseForward ==
    [][\A h \in Handles : Rank(store[h].phase) <= Rank(store'[h].phase)]_vars

\* The stored intent of a phase that the authority has committed is exactly
\* the committed request, so that a lost answer can be replayed ("prevents a
\* lost response from changing the replay body", _phase_intent).
ReplayIsExact ==
    \A e \in authority.log :
        LET intents == store[e.key.handle].intents  n == e.key.name
        IN  /\ n \in DOMAIN intents
            /\ intents[n] = [arg |-> e.arg, revision |-> e.revision,
                             generation |-> e.key.generation]

\* No phase of a workflow is committed twice: a retry under a new key is
\* made only when the rejected request had no commit (_invoke_phase).  It
\* holds for one client; concurrent calls violate it (README).
EffectOnce ==
    \A e, f \in authority.log :
        e.key.handle = f.key.handle /\ e.key.name = f.key.name => e = f

\* The answer to a committed request is still to be recorded.
Unrecorded(e, r) ==
    \/ e.key.name[1] = "dispatch_attempt" /\ r.phase = "dispatch_pending"
    \/ e.key.name[1] = "heartbeat" /\ r.hgen = e.key.name[2]
    \/ e.key.name[1] = "resume" /\ r.rgen = e.key.name[2]

\* The lease of a running attempt is the recorded one, or the renewal that
\* replaced it is committed under an intent whose answer is still to be
\* recorded.
LeaseTracked ==
    \A h \in Handles :
        authority.attempt[h].state = "running" =>
            \/ store[h].lease = authority.attempt[h].lease
            \/ \E e \in authority.log : /\ e.key.handle = h /\ Unrecorded(e, store[h])
                                        /\ e.lease = authority.attempt[h].lease

\* Records, calls and authority are well formed, and the lease is never lost.
CompactInv == TypeOK /\ LeaseTracked

\* Finish hands back with the newest lease: it stops the renewal and waits
\* for a heartbeat in flight first (_stop_lease_renewal).
FinishReadsNewestLease ==
    \A c \in Callers :
        LET s == proc[c]
        IN  /\ s.call = "finish_task" /\ s.pc \notin {"lock", "stop", "join"}
            /\ s.name[1] \in {"verify", "finish:handback"} /\ s.loc.phase = "handback_pending"
            /\ authority.attempt[s.h].state = "running"
            => \/ s.loc.lease = authority.attempt[s.h].lease
               \/ \E e \in authority.log : /\ e.key.handle = s.h /\ Unrecorded(e, store[s.h])
                                           /\ e.lease = authority.attempt[s.h].lease

\* A recorded lease is never replaced by an older one ("writing the stale
\* local record would undo it", next_task).
RenewalKept ==
    [][\A h \in Handles : store[h].lease <= store'[h].lease]_vars

\* A record only moves forward, in its phase and in its lease, although calls
\* write back copies that they read long before.
RecordForward == PhaseForward /\ RenewalKept

-----------------------------------------------------------------------------
(* The inductive invariant for a single client.  With several, a slow call *)
(* writes an earlier phase back and none of this holds.                    *)

OneClient == \A c, d \in Callers : c = d

InMutation == {"intent", "invoke", "observe", "refresh", "answered"}

\* What the phase of a mutation says about the local state s of the call and
\* the stored record r: no one but the renewal thread has changed r.
KindAt(s, r) ==
    LET kind == s.name[1] IN
    /\ kind \in Kinds \ {"heartbeat"}
    /\ kind \in {"create_workspace", "dispatch_attempt"} => s.call = "next_task"
    /\ kind = "create_workspace" => r.phase = "workspace_pending" /\ s.loc = r
    /\ kind = "dispatch_attempt" => r.phase = "dispatch_pending" /\ s.loc = r
    /\ kind = "resume" => r.phase = "active" /\ s.name[2] = r.rgen /\ s.arg <= r.lease
    /\ kind \in {"coordinate", "recover"} => s.name[2] \in Operations \cup {0}
    /\ kind \in {"coordinate", "verify"} => r.phase = "active"
    /\ kind = "verify" => s.loc.phase = "active"
    /\ kind = "recover" => r.phase \in {"active"} \cup PendingFinish
    /\ kind = "finish:handback" =>
          r.phase = "handback_pending" /\ s.loc.phase = r.phase /\ s.loc.lease = r.lease
    /\ kind = "finish:report" => r.phase = "report_pending"
    /\ kind = "finish:release" => r.phase = "release_pending"

\* The same for every step of a call.
StepAt(s, r) ==
    /\ s.pc # "wait"
    /\ s.pc \in {"select", "no_work", "save", "context", "ensure"} => s.call = "next_task"
    /\ s.pc \in {"select", "no_work", "save"} => r.phase = "selecting"
    /\ s.pc = "context" => r.phase = "context_pending"
    /\ s.pc = "ensure" => r.phase \in {"context_pending", "active"} /\ s.loc.phase = r.phase
    /\ s.pc \in {"stop", "join", "begin"} => r.phase = "active"
    /\ s.pc = "begin" => s.loc.phase = "active" /\ s.loc.lease = r.lease
    /\ s.pc \in InMutation \cup {"lock"} => KindAt(s, r)

\* A call works on the current workflow, and mutations that meet the renewal
\* thread hold the lock.
CallerState(c) ==
    LET s == proc[c] IN
    /\ s.pc = "idle" => s = Idle
    /\ s.pc # "idle" => s.h = current /\ current # 0 /\ StepAt(s, store[current])
    /\ s.pc = "begin" => proc[<<Host(c), s.h>>].pc = "idle"
    /\ s.pc \in InMutation /\ s.name[1] \in {"resume", "coordinate", "recover", "verify"}
          => lock[Host(c)] = c

\* A renewal thread lives only between dispatch and finish, on the host of
\* the client, and renews the recorded lease.
WorkerState(w) ==
    LET s == proc[w]  r == store[w[2]] IN
    /\ s.pc \in InMutation \cup {"idle", "wait"}
    /\ s.pc # "idle" => /\ s.h = w[2] /\ \E c \in Callers : Host(c) = w[1]
                        /\ r.phase \in {"context_pending", "active", "released"}
    /\ s.pc \in InMutation => s.name = <<"heartbeat", r.hgen>> /\ s.arg <= r.lease /\ lock[w[1]] = w

Entries(h, name) == {e \in authority.log : e.key.handle = h /\ e.key.name = name}

\* A mutation under way is made with the stored intent, is refreshed only
\* when nothing of it was committed, and is answered with its log entry.
IntentState(p) ==
    LET s == proc[p] IN
    /\ s.pc = "invoke" => /\ s.name \in DOMAIN store[s.h].intents
                          /\ s.intent = store[s.h].intents[s.name] /\ s.intent.arg = s.arg
    /\ s.pc \in {"observe", "refresh"} => Entries(s.h, s.name) = {}
    /\ s.pc = "answered" => \E e \in Entries(s.h, s.name) : e.lease = s.val

\* The requests that issued a lease.
Issues(h) ==
    {e \in authority.log : e.key.handle = h /\ e.key.name[1] \in {"dispatch_attempt"} \cup LeaseKinds}

\* The recorded lease is the newest one, or the newest one is the answer of
\* the only request that is not recorded yet.
LeaseState(h) ==
    LET r == store[h]  t == authority.attempt[h] IN
    /\ t.state \in {"none", "workspace"} => t.lease = 0
    /\ r.lease <= t.lease
    /\ r.lease = t.lease \/ \E e \in Issues(h) : Unrecorded(e, r) /\ e.lease = t.lease
    /\ \A e \in Issues(h) :
          /\ e.lease <= t.lease
          /\ IF Unrecorded(e, r) THEN e.lease = t.lease /\ r.lease < t.lease ELSE e.lease <= r.lease
          /\ e.key.name[1] = "heartbeat" => e.key.name[2] <= r.hgen
          /\ e.key.name[1] = "resume" => e.key.name[2] <= r.rgen
          /\ r.phase \notin {"absent", "selecting", "no_work", "workspace_pending"}
    /\ \A e, f \in Issues(h) : e.lease = f.lease => e = f

-----------------------------------------------------------------------------
(* Fairness: threads run, the renewal timer fires, and a client repeats a
   finish that has not ended. *)

Fairness ==
    /\ \A c \in Callers : /\ WF_vars(CallStep(c) \/ PhaseStep(c))
                          /\ SF_vars(\E act \in FinishActions : FinishTask(c, act))
    /\ \A w \in Workers : WF_vars(RenewalTick(w) \/ RecordHeartbeat(w) \/ PhaseStep(w))

FairSpec == Spec /\ Fairness

\* The authority recovered the attempt, and so ended it.
Recovered(h) == \E e \in authority.log : e.key.handle = h /\ e.key.name[1] = "recover"

\* A finish that was recorded with the newest lease of a running attempt
\* reaches a final phase, through stale revisions, lost answers and host
\* restarts, unless the attempt is recovered under it.
FinishEnds ==
    \A h \in Handles :
        (/\ store[h].phase = "handback_pending" /\ authority.attempt[h].state = "running"
         /\ store[h].lease = authority.attempt[h].lease)
            ~> (store[h].phase \in FinalPhases \/ Recovered(h))

-----------------------------------------------------------------------------
(* What comments of the code say and the code does not do: concurrent     *)
(* calls or a renewal violate each of these.                               *)

\* A resume asks for the lease that is persisted at that moment ("renew only
\* the exact persisted attempt lease", _resume_active_locked).
ResumesPersistedLease ==
    \A c \in Callers :
        proc[c].pc = "invoke" /\ proc[c].name[1] = "resume"
            => proc[c].arg = store[proc[c].h].lease

\* A finish request that is recorded is immutable ("A failed finish retains
\* its immutable request", coordinate_task).
FinishIsImmutable ==
    [][\A h \in Handles : store[h].fin # "none" => store'[h].fin = store[h].fin]_vars

\* The operations recorded as complete stay recorded.
OperationHistoryKept ==
    [][\A h \in Handles : store[h].ops \subseteq store'[h].ops]_vars

\* A call that selected nothing while another call selected work resumes
\* that selection ("Resume that exact persisted selection rather than
\* replacing it", next_task).
LosingSelectionResumes ==
    [][\A c \in Callers :
          proc[c].pc = "no_work" /\ proc'[c].pc = "idle" /\ faults' = faults
              => store'[proc[c].h].phase = "no_work"]_vars
=============================================================================
