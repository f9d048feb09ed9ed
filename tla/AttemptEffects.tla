--------------------------- MODULE AttemptEffects ---------------------------
(***************************************************************************)
(* Authored effects of an attempt: the journaled command executor and its  *)
(* supervisor process, the fence in front of authoring git effects, the    *)
(* root's attestation that an external producer completed, and the durable *)
(* authoring handoff (native_providers.py, native_command_supervisor.py    *)
(* and native_authoring_handoff.py).                                       *)
(*                                                                         *)
(* Procs are operating-system processes, each serving one call at a time   *)
(* and each able to crash between any two steps.  The flocks of the code   *)
(* are read off the steps at which they are held, so a crash frees them as *)
(* the kernel does.  Durable files survive a crash; the supervisor of a    *)
(* command is a process of its own and survives its executor too.          *)
(***************************************************************************)
EXTENDS Naturals, FiniteSets

CONSTANTS
    Procs,         \* server processes that call the providers
    Ops,           \* operation identities of authored commands
    Attempts,      \* attempts of the Todo authority
    Sources,       \* contents a workspace can have; a commit is named by its tree
    Leases,        \* lease identities an attempt can hold
    attempt_of,    \* the attempt an operation is authored for
    expected,      \* the source identity an operation is authorized for
    None           \* the absent value

ASSUME AttemptOfAssumption == attempt_of \in [Ops -> Attempts]
ASSUME ExpectedAssumption == expected \in [Ops -> Sources]
ASSUME NoneAssumption == /\ None \notin Procs \cup Ops \cup Attempts
                         /\ None \notin Sources \cup Leases

VARIABLES
    \* durable files
    journal,       \* op -> state of its command journal record
    litter,        \* a ".command-" temporary left behind by a crashed write
    attestation,   \* attempt -> external producer attestation
    expired,       \* attempt -> its attestation is past its time to live
    pin,           \* attempt -> commit of its create-only handoff ref
    marker,        \* attempt -> commit of its durable handoff record
    \* processes outside the server
    supervisor,    \* op -> state of its supervisor process
    report,        \* op -> what the supervisor left on its control pipe
    live,          \* op -> some process of the command's tree is alive
    runs,          \* op -> how often the authored argv was started
    \* the attempt, its workspace and the host
    tree,          \* attempt -> content of the working tree and index
    head,          \* attempt -> content of the commit its branch points to
    lease,         \* attempt -> lease the authority records for it
    owners,        \* attempt -> the host registry has owner rows for it
    children,      \* attempt -> child executions not known to be stopped
    unresolved,    \* attempt -> a git effect was begun and never concluded
    \* the calls in progress
    pc,            \* proc -> step of its call
    cur,           \* proc -> operation it executes
    att,           \* proc -> attempt its call is about
    seen           \* proc -> what its call observed of the workspace

files   == <<journal, litter, attestation, expired, pin, marker>>
host    == <<supervisor, report, live, runs>>
world   == <<tree, head, lease, owners, children, unresolved>>
calls   == <<pc, cur, att, seen>>
vars    == <<files, host, world, calls>>

Journal    == {"none", "starting", "running", "not_started", "completed"}
Supervisor == {"none", "reading", "requested", "running", "exited", "killed"}
Report     == {"none", "not_started", "completed", "timed_out", "unresolved"}

\* Steps of execute that hold the operation lock and, of these, the ones that
\* hold the attempt lock as well.
Fenced    == {"fenced", "starting", "spawned", "unidentified", "recorded"}
Executing == {"op_locked", "waiting", "reported"} \cup Fenced
\* Steps of the other calls that hold the attempt lock.
Handing   == {"quiescent", "snapshotted", "pinned", "verified"}
Exclusive == Fenced \cup Handing \cup {"observed", "effect"}
\* Calls that wait for their first lock.
Called    == {"execute_called", "handoff_called", "attest_called", "effect_called"}
Steps     == {"idle"} \cup Called \cup Executing \cup Exclusive

\* What a call observes of an attempt and an attestation is bound to: the
\* source digest, whether the workspace is clean, and the lease.
Sight     == [tree : Sources, clean : BOOLEAN, lease : Leases \cup {None}]

ASSUME SightAssumption == None \notin Sight

TypeOK ==
    /\ journal \in [Ops -> Journal]
    /\ litter \in BOOLEAN
    /\ attestation \in [Attempts -> Sight \cup {None}]
    /\ expired \in [Attempts -> BOOLEAN]
    /\ pin \in [Attempts -> Sources \cup {None}]
    /\ marker \in [Attempts -> Sources \cup {None}]
    /\ supervisor \in [Ops -> Supervisor]
    /\ report \in [Ops -> Report]
    /\ live \in [Ops -> BOOLEAN]
    /\ runs \in [Ops -> Nat]
    /\ tree \in [Attempts -> Sources]
    /\ head \in [Attempts -> Sources]
    /\ lease \in [Attempts -> Leases \cup {None}]
    /\ owners \in [Attempts -> BOOLEAN]
    /\ children \in [Attempts -> BOOLEAN]
    /\ unresolved \in [Attempts -> BOOLEAN]
    /\ pc \in [Procs -> Steps]
    /\ cur \in [Procs -> Ops \cup {None}]
    /\ att \in [Procs -> Attempts \cup {None}]
    /\ seen \in [Procs -> Sight \cup {None}]

Init ==
    /\ journal = [op \in Ops |-> "none"]
    /\ litter = FALSE
    /\ attestation = [a \in Attempts |-> None]
    /\ expired = [a \in Attempts |-> FALSE]
    /\ pin = [a \in Attempts |-> None]
    /\ marker = [a \in Attempts |-> None]
    /\ supervisor = [op \in Ops |-> "none"]
    /\ report = [op \in Ops |-> "none"]
    /\ live = [op \in Ops |-> FALSE]
    /\ runs = [op \in Ops |-> 0]
    /\ \E s \in Sources, l \in Leases :
          /\ tree = [a \in Attempts |-> s]
          /\ head = [a \in Attempts |-> s]
          /\ lease = [a \in Attempts |-> l]
    /\ owners = [a \in Attempts |-> FALSE]
    /\ children = [a \in Attempts |-> FALSE]
    /\ unresolved = [a \in Attempts |-> FALSE]
    /\ pc = [p \in Procs |-> "idle"]
    /\ cur = [p \in Procs |-> None]
    /\ att = [p \in Procs |-> None]
    /\ seen = [p \in Procs |-> None]

-----------------------------------------------------------------------------
(* Locks, calls and what they read.                                        *)

OpLocked(op) == \E q \in Procs : pc[q] \in Executing /\ cur[q] = op
AttemptLocked(a) == \E q \in Procs : pc[q] \in Exclusive /\ att[q] = a

\* A call is made; it waits for its first lock.
Call(p, step, op, a) ==
    /\ pc[p] = "idle"
    /\ pc' = [pc EXCEPT ![p] = step]
    /\ cur' = [cur EXCEPT ![p] = op]
    /\ att' = [att EXCEPT ![p] = a]
    /\ UNCHANGED <<seen, files, host, world>>

Goto(p, step) ==
    /\ pc' = [pc EXCEPT ![p] = step]
    /\ UNCHANGED <<cur, att, seen>>

\* The call returns or raises: its locks are released, its locals are gone.
Return(p) ==
    /\ pc' = [pc EXCEPT ![p] = "idle"]
    /\ cur' = [cur EXCEPT ![p] = None]
    /\ att' = [att EXCEPT ![p] = None]
    /\ seen' = [seen EXCEPT ![p] = None]

write(op, state) == journal' = [journal EXCEPT ![op] = state]

\* A mutation of Terminal: a journaled running process passes for settled.
TerminalOrRunning == {"none", "running", "completed", "not_started"}

\* _command_journal_clear: no temporary file of any operation, and every
\* record of this attempt is terminal.
Terminal == {"none", "completed", "not_started"}

command_journal_clear(a) ==
    /\ ~litter
    /\ \A op \in Ops : attempt_of[op] = a => journal[op] \in Terminal

clean(a) == tree[a] = head[a]

Observed(a) == [tree |-> tree[a], clean |-> clean(a), lease |-> lease[a]]

\* ExternalProducerProcessObserver.inspect: the attestation stands in for a
\* registered process only while nothing it was bound to has changed.
producer_quiescent(a) ==
    /\ ~owners[a]
    /\ command_journal_clear(a)
    /\ lease[a] # None
    /\ attestation[a] = Observed(a)
    /\ ~expired[a]

-----------------------------------------------------------------------------
(* JournaledCommandExecutor.execute.                                       *)

execute_call(p, op) == Call(p, "execute_called", op, attempt_of[op])

\* A mutation of execute_lock: a record without a result is tried again.
execute_lock_retrying(p) ==
    LET op == cur[p] IN
    /\ pc[p] = "execute_called"
    /\ ~OpLocked(op)
    /\ IF journal[op] = "completed" THEN Return(p) ELSE Goto(p, "op_locked")
    /\ UNCHANGED <<files, host, world>>

\* The operation lock is held until the call returns.  A record of an earlier
\* call is answered from the journal, whatever its state; it never runs again.
execute_lock(p) ==
    LET op == cur[p] IN
    /\ pc[p] = "execute_called"
    /\ ~OpLocked(op)
    /\ IF journal[op] = "none" THEN Goto(p, "op_locked") ELSE Return(p)
    /\ UNCHANGED <<files, host, world>>

\* A mutation of execute_fence: the fence is read without the attempt lock.
execute_fence_unlocked(p) ==
    LET a == att[p] IN
    /\ pc[p] = "op_locked"
    /\ IF attestation[a] = None /\ marker[a] = None
       THEN Goto(p, "fenced") ELSE Return(p)
    /\ UNCHANGED <<files, host, world>>

\* Under the attempt lock: an attestation or a handoff marker refuses the call.
execute_fence(p) ==
    LET a == att[p] IN
    /\ pc[p] = "op_locked"
    /\ ~AttemptLocked(a)
    /\ IF attestation[a] = None /\ marker[a] = None
       THEN Goto(p, "fenced") ELSE Return(p)
    /\ UNCHANGED <<files, host, world>>

\* The workspace must hold the authorized source; then the intent is journaled.
execute_intent(p) ==
    LET op == cur[p] IN
    /\ pc[p] = "fenced"
    /\ \/ /\ tree[att[p]] # expected[op]
          /\ Return(p)
          /\ UNCHANGED journal
       \/ /\ tree[att[p]] = expected[op]
          /\ write(op, "starting")
          /\ Goto(p, "starting")
    /\ UNCHANGED <<litter, attestation, expired, pin, marker, host, world>>

\* Popen of the supervisor, which blocks reading its request from stdin.
execute_launch(p) ==
    LET op == cur[p] IN
    /\ pc[p] = "starting"
    /\ \/ /\ supervisor' = [supervisor EXCEPT ![op] = "reading"]
          /\ Goto(p, "spawned")
          /\ UNCHANGED journal
       \/ /\ write(op, "not_started")
          /\ Return(p)
          /\ UNCHANGED supervisor
    /\ UNCHANGED <<litter, attestation, expired, pin, marker>>
    /\ UNCHANGED <<report, live, runs, world>>

\* _stop_supervisor: SIGKILL to the supervisor's process group.
stop_supervisor(op) ==
    supervisor' = [supervisor EXCEPT ![op] = IF @ = "exited" THEN @ ELSE "killed"]

\* The process identity is journaled before the supervisor gets its request.
execute_identify(p) ==
    LET op == cur[p] IN
    /\ pc[p] = "spawned"
    /\ \/ /\ write(op, "running")                  \* identity read and journaled
          /\ Goto(p, "recorded")
          /\ UNCHANGED supervisor
       \/ /\ stop_supervisor(op)                   \* the journal write failed
          /\ Return(p)
          /\ UNCHANGED journal
       \/ /\ write(op, "running") \/ UNCHANGED journal
          /\ Goto(p, "unidentified")               \* no process identity
          /\ UNCHANGED supervisor
    /\ UNCHANGED <<litter, attestation, expired, pin, marker>>
    /\ UNCHANGED <<report, live, runs, world>>

\* A mutation of execute_unidentified: the outcome of the stop is ignored.
execute_unidentified_unconfirmed(p) ==
    LET op == cur[p] IN
    /\ pc[p] = "unidentified"
    /\ stop_supervisor(op) \/ UNCHANGED supervisor
    /\ write(op, "not_started")
    /\ Return(p)
    /\ UNCHANGED <<litter, attestation, expired, pin, marker>>
    /\ UNCHANGED <<report, live, runs, world>>

\* Without an identity the supervisor is stopped unasked; only a confirmed stop
\* is journaled as a command that did not start.
execute_unidentified(p) ==
    LET op == cur[p] IN
    /\ pc[p] = "unidentified"
    /\ \/ /\ stop_supervisor(op)
          /\ write(op, "not_started")
       \/ UNCHANGED <<supervisor, journal>>
    /\ Return(p)
    /\ UNCHANGED <<litter, attestation, expired, pin, marker>>
    /\ UNCHANGED <<report, live, runs, world>>

\* The request goes down the pipe and the attempt lock is released.
execute_send(p) ==
    LET op == cur[p] IN
    /\ pc[p] = "recorded"
    /\ \/ /\ supervisor[op] = "reading"
          /\ supervisor' = [supervisor EXCEPT ![op] = "requested"]
          /\ Goto(p, "waiting")
       \/ /\ stop_supervisor(op)                   \* broken pipe
          /\ Return(p)
    /\ UNCHANGED <<files, report, live, runs, world>>

\* A mutation of execute_report: the supervisor's state is journaled verbatim.
execute_report_verbatim(p) ==
    LET op == cur[p] IN
    /\ pc[p] = "waiting"
    /\ supervisor[op] \in {"exited", "killed"}
    /\ write(op, report[op])
    /\ Return(p)
    /\ UNCHANGED <<litter, attestation, expired, pin, marker, host, world>>

\* process.wait returned: only a well-formed report settles the record.
execute_report(p) ==
    LET op == cur[p] IN
    /\ pc[p] = "waiting"
    /\ supervisor[op] \in {"exited", "killed"}
    /\ \/ /\ report[op] = "not_started"
          /\ write(op, "not_started")
          /\ Return(p)
       \/ /\ report[op] = "timed_out"
          /\ write(op, "completed")
          /\ Return(p)
       \/ /\ report[op] = "completed"
          /\ Goto(p, "reported")
          /\ UNCHANGED journal
       \/ /\ report[op] \in {"none", "unresolved"}
          /\ Return(p)
          /\ UNCHANGED journal
    /\ UNCHANGED <<litter, attestation, expired, pin, marker, host, world>>

\* A mutation of execute_timeout: no deadline once the command was launched.
execute_timeout_unlaunched(p) ==
    LET op == cur[p] IN
    /\ pc[p] = "waiting"
    /\ supervisor[op] \in {"reading", "requested"}
    /\ stop_supervisor(op)
    /\ Return(p)
    /\ UNCHANGED <<files, report, live, runs, world>>

\* process.wait timed out: the supervisor is stopped and nothing is settled.
execute_timeout(p) ==
    LET op == cur[p] IN
    /\ pc[p] = "waiting"
    /\ supervisor[op] \notin {"exited", "killed"}
    /\ stop_supervisor(op)
    /\ Return(p)
    /\ UNCHANGED <<files, report, live, runs, world>>

\* A command that left the authorized source changed has no receipt.
execute_conclude(p) ==
    LET op == cur[p] IN
    /\ pc[p] = "reported"
    /\ IF tree[att[p]] = expected[op] THEN write(op, "completed") ELSE UNCHANGED journal
    /\ Return(p)
    /\ UNCHANGED <<litter, attestation, expired, pin, marker, host, world>>

-----------------------------------------------------------------------------
(* The supervisor process and the command's process tree.                  *)

\* _read_request finds the end of the pipe: no executor holds its other end.
supervisor_unasked(op) ==
    /\ supervisor[op] = "reading"
    /\ ~ \E p \in Procs : cur[p] = op /\ pc[p] \in {"spawned", "unidentified", "recorded"}
    /\ supervisor' = [supervisor EXCEPT ![op] = "exited"]
    /\ report' = [report EXCEPT ![op] = "not_started"]
    /\ UNCHANGED <<live, runs, files, world, calls>>

\* _run_request: the sandbox is refused, or the argv is started inside it.
\* The request is in the pipe, so this happens even if the executor is gone.
supervisor_refuses(op) ==
    /\ supervisor[op] = "requested"
    /\ supervisor' = [supervisor EXCEPT ![op] = "exited"]
    /\ report' = [report EXCEPT ![op] = "not_started"]
    /\ UNCHANGED <<live, runs, files, world, calls>>

run_command_tree(op) ==
    /\ supervisor[op] = "requested"
    /\ supervisor' = [supervisor EXCEPT ![op] = "running"]
    /\ live' = [live EXCEPT ![op] = TRUE]
    /\ runs' = [runs EXCEPT ![op] = @ + 1]
    /\ UNCHANGED <<report, files, world, calls>>

\* waitpid reported ECHILD: the tree is quiescent, in time or killed after it.
NoChildren(op) == ~live[op]

supervisor_completes(op) ==
    /\ supervisor[op] = "running"
    /\ NoChildren(op)
    /\ supervisor' = [supervisor EXCEPT ![op] = "exited"]
    /\ \E r \in {"completed", "timed_out"} : report' = [report EXCEPT ![op] = r]
    /\ UNCHANGED <<live, runs, files, world, calls>>

supervisor_unresolved(op) ==
    /\ supervisor[op] = "running"
    /\ supervisor' = [supervisor EXCEPT ![op] = "exited"]
    /\ report' = [report EXCEPT ![op] = "unresolved"]
    /\ UNCHANGED <<live, runs, files, world, calls>>

\* The kernel kills the supervisor; its tree dies with it, but not at once.
SupervisorDies(op) ==
    /\ supervisor[op] \in {"reading", "requested", "running"}
    /\ supervisor' = [supervisor EXCEPT ![op] = "killed"]
    /\ UNCHANGED <<report, live, runs, files, world, calls>>

\* The workspace is the only mount of the sandbox the command can write.
CommandWrites(op) ==
    /\ live[op]
    /\ \E s \in Sources : tree' = [tree EXCEPT ![attempt_of[op]] = s]
    /\ UNCHANGED <<head, lease, owners, children, unresolved, files, host, calls>>

CommandEnds(op) ==
    /\ live[op]
    /\ live' = [live EXCEPT ![op] = FALSE]
    /\ UNCHANGED <<supervisor, report, runs, files, world, calls>>

-----------------------------------------------------------------------------
(* NativeAuthoringHandoffProvider.handoff_authoring.                       *)

handoff_call(p, a) == Call(p, "handoff_called", None, a)

\* _require_quiescent_host, for an attempt without a handoff record; a record
\* is answered or refused without any change.
require_quiescent_host(a) ==
    /\ command_journal_clear(a)
    /\ ~owners[a]
    /\ ~children[a]

handoff_lock(p) ==
    LET a == att[p] IN
    /\ pc[p] = "handoff_called"
    /\ ~AttemptLocked(a)
    /\ IF marker[a] = None /\ require_quiescent_host(a)
       THEN Goto(p, "quiescent") ELSE Return(p)
    /\ UNCHANGED <<files, host, world>>

\* _workspace_snapshot: only a clean committed workspace can be handed off.
handoff_snapshot(p) ==
    LET a == att[p] IN
    /\ pc[p] = "quiescent"
    /\ IF clean(a)
       THEN /\ pc' = [pc EXCEPT ![p] = "snapshotted"]
            /\ seen' = [seen EXCEPT ![p] = Observed(a)]
            /\ UNCHANGED <<cur, att>>
       ELSE Return(p)
    /\ UNCHANGED <<files, host, world>>

\* A mutation of handoff_pin: a failed update-ref is taken for an exact retry.
handoff_pin_unchecked(p) ==
    LET a == att[p] IN
    /\ pc[p] = "snapshotted"
    /\ pin' = [pin EXCEPT ![a] = IF @ = None THEN seen[p].tree ELSE @]
    /\ Goto(p, "pinned")
    /\ UNCHANGED <<journal, litter, attestation, expired, marker, host, world>>

\* _pin: update-ref creates the ref or finds it at this very commit.
handoff_pin(p) ==
    LET a == att[p]
        commit == seen[p].tree
    IN
    /\ pc[p] = "snapshotted"
    /\ IF pin[a] \in {None, commit}
       THEN pin' = [pin EXCEPT ![a] = commit] /\ Goto(p, "pinned")
       ELSE UNCHANGED pin /\ Return(p)
    /\ UNCHANGED <<journal, litter, attestation, expired, marker, host, world>>

\* The workspace is read again after the pin.
handoff_reread(p) ==
    LET a == att[p] IN
    /\ pc[p] = "pinned"
    /\ IF clean(a) /\ tree[a] = seen[p].tree THEN Goto(p, "verified") ELSE Return(p)
    /\ UNCHANGED <<files, host, world>>

handoff_record(p) ==
    /\ pc[p] = "verified"
    /\ marker' = [marker EXCEPT ![att[p]] = seen[p].tree]
    /\ Return(p)
    /\ UNCHANGED <<journal, litter, attestation, expired, pin, host, world>>

-----------------------------------------------------------------------------
(* record_external_producer_completion.                                    *)

attest_call(p, a) == Call(p, "attest_called", None, a)

\* The authority's inspection: an active lease, no live attestation, no child.
attest_observe(p) ==
    LET a == att[p] IN
    /\ pc[p] = "attest_called"
    /\ ~AttemptLocked(a)
    /\ IF lease[a] # None /\ ~producer_quiescent(a) /\ ~children[a]
       THEN /\ pc' = [pc EXCEPT ![p] = "observed"]
            /\ seen' = [seen EXCEPT ![p] = Observed(a)]
            /\ UNCHANGED <<cur, att>>
       ELSE Return(p)
    /\ UNCHANGED <<files, host, world>>

\* A mutation of attest_record: the earlier attestation is not compared.
attest_record_replacing(p) ==
    LET a == att[p] IN
    /\ pc[p] = "observed"
    /\ IF ~owners[a] /\ command_journal_clear(a)
       THEN /\ attestation' = [attestation EXCEPT ![a] = seen[p]]
            /\ expired' = [expired EXCEPT ![a] = FALSE]
       ELSE UNCHANGED <<attestation, expired>>
    /\ Return(p)
    /\ UNCHANGED <<journal, litter, pin, marker, host, world>>

\* An earlier attestation is replaced only by its own renewal after it expired.
attest_record(p) ==
    LET a == att[p] IN
    /\ pc[p] = "observed"
    /\ IF /\ ~owners[a]
          /\ command_journal_clear(a)
          /\ \/ attestation[a] = None
             \/ attestation[a] = seen[p] /\ expired[a]
       THEN /\ attestation' = [attestation EXCEPT ![a] = seen[p]]
            /\ expired' = [expired EXCEPT ![a] = FALSE]
       ELSE UNCHANGED <<attestation, expired>>
    /\ Return(p)
    /\ UNCHANGED <<journal, litter, pin, marker, host, world>>

-----------------------------------------------------------------------------
(* fence_authoring_effect around git.perform and git.retry_not_applied.    *)

effect_call(p, a) == Call(p, "effect_called", None, a)

fence_authoring_effect(p) ==
    LET a == att[p] IN
    /\ pc[p] = "effect_called"
    /\ ~AttemptLocked(a)
    /\ \/ /\ marker[a] # None
          /\ Return(p)
          /\ UNCHANGED unresolved
       \/ /\ marker[a] = None
          /\ Goto(p, "effect")
          /\ unresolved' = [unresolved EXCEPT ![a] = TRUE]
    /\ UNCHANGED <<tree, head, lease, owners, children, files, host>>

\* The git provider changes the workspace or commits it, and may do so in
\* several steps; it concludes the effect in its own journal and returns.
GitEffect(p) ==
    LET a == att[p] IN
    /\ pc[p] = "effect"
    /\ \/ /\ \E s \in Sources : tree' = [tree EXCEPT ![a] = s]
          /\ UNCHANGED head
       \/ /\ head' = [head EXCEPT ![a] = tree[a]]
          /\ UNCHANGED tree
    /\ UNCHANGED <<lease, owners, children, unresolved, files, host, calls>>

GitEffectDone(p) ==
    /\ pc[p] = "effect"
    /\ unresolved' = [unresolved EXCEPT ![att[p]] = FALSE]
    /\ Return(p)
    /\ UNCHANGED <<tree, head, lease, owners, children, files, host>>

-----------------------------------------------------------------------------
(* Crashes, and what changes without Project Control.                      *)

\* The steps at which the next thing a call does is write a journal record.
Writing == {"fenced", "starting", "spawned", "unidentified", "waiting", "reported"}

\* The process dies, or an exception unwinds the call: every lock is released
\* and nothing durable changes, but a dying process can leave its temporary.
Crash(p) ==
    /\ pc[p] # "idle"
    /\ Return(p)
    /\ litter' \in {litter, litter \/ pc[p] \in Writing}
    /\ UNCHANGED <<journal, attestation, expired, pin, marker, host, world>>

\* The producer edits its workspace whenever it likes.
ProducerEdits(a) ==
    /\ \E s \in Sources : tree' = [tree EXCEPT ![a] = s]
    /\ UNCHANGED <<head, lease, owners, children, unresolved, files, host, calls>>

LeaseChanges(a) ==
    /\ \E l \in Leases \cup {None} : lease' = [lease EXCEPT ![a] = l]
    /\ UNCHANGED <<tree, head, owners, children, unresolved, files, host, calls>>

OccupancyChanges(a) ==
    /\ \/ owners' = [owners EXCEPT ![a] = ~@] /\ UNCHANGED children
       \/ children' = [children EXCEPT ![a] = ~@] /\ UNCHANGED owners
    /\ UNCHANGED <<tree, head, lease, unresolved, files, host, calls>>

AttestationExpires(a) ==
    /\ attestation[a] # None
    /\ ~expired[a]
    /\ expired' = [expired EXCEPT ![a] = TRUE]
    /\ UNCHANGED <<journal, litter, attestation, pin, marker, host, world, calls>>

-----------------------------------------------------------------------------
Execute(p) ==
    \/ execute_lock(p) \/ execute_fence(p) \/ execute_intent(p)
    \/ execute_launch(p) \/ execute_identify(p) \/ execute_unidentified(p)
    \/ execute_send(p) \/ execute_report(p) \/ execute_timeout(p)
    \/ execute_conclude(p)

Handoff(p) ==
    \/ handoff_lock(p) \/ handoff_snapshot(p) \/ handoff_pin(p)
    \/ handoff_reread(p) \/ handoff_record(p)

Attest(p) == attest_observe(p) \/ attest_record(p)

Effect(p) == fence_authoring_effect(p) \/ GitEffectDone(p)

Supervise(op) ==
    \/ supervisor_unasked(op) \/ supervisor_refuses(op) \/ run_command_tree(op)
    \/ supervisor_completes(op) \/ supervisor_unresolved(op)
    \/ SupervisorDies(op) \/ CommandWrites(op) \/ CommandEnds(op)

Calls(p) ==
    \/ \E op \in Ops : execute_call(p, op)
    \/ \E a \in Attempts : handoff_call(p, a) \/ attest_call(p, a) \/ effect_call(p, a)

Surroundings(a) ==
    ProducerEdits(a) \/ LeaseChanges(a) \/ OccupancyChanges(a) \/ AttestationExpires(a)

Next ==
    \/ \E p \in Procs :
          \/ Calls(p) \/ Execute(p) \/ Handoff(p) \/ Attest(p) \/ Effect(p)
          \/ GitEffect(p) \/ Crash(p)
    \/ \E op \in Ops : Supervise(op)
    \/ \E a \in Attempts : Surroundings(a)

Spec == Init /\ [][Next]_vars

-----------------------------------------------------------------------------
(* Safety.                                                                 *)

FencedOff(a) == attestation[a] # None \/ marker[a] # None

\* The promise "run exact authored argv checks once": no interleaving of calls,
\* retries, crashes and late supervisors starts one operation's argv twice.
AtMostOnce == \A op \in Ops : runs[op] <= 1

\* A record that says how a command ended is true of the process tree: after
\* "not_started" the argv never ran and no supervisor is left that could run
\* it; after "completed" it ran and nothing of its tree is left.
JournalIsTrue ==
    \A op \in Ops :
        /\ journal[op] = "not_started" =>
              runs[op] = 0 /\ supervisor[op] \notin {"reading", "requested", "running"}
        /\ journal[op] = "completed" => runs[op] = 1 /\ ~live[op]

\* The fence: once an attempt is attested complete or handed off, none of its
\* commands is running, about to run, or inside the part of execute that starts
\* it, and once it is handed off no authoring git effect is in progress.
FenceHolds ==
    /\ \A op \in Ops : FencedOff(attempt_of[op]) =>
          ~live[op] /\ supervisor[op] \notin {"requested", "running"}
    /\ \A p \in Procs :
          /\ pc[p] \in Fenced => ~FencedOff(att[p])
          /\ pc[p] = "effect" => marker[att[p]] = None

\* A handoff record names the very commit its immutable ref pins, whatever was
\* interrupted between the two.
MarkerIsPinned == \A a \in Attempts : marker[a] # None => pin[a] = marker[a]

\* The fence and the pin are for good: no step withdraws or changes a handoff
\* record or ref, and an attestation is never replaced by a different one.
FenceIsFinal ==
    [][\A a \in Attempts :
          /\ marker[a] # None => marker'[a] = marker[a]
          /\ pin[a] # None => pin'[a] = pin[a]
          /\ attestation[a] # None => attestation'[a] = attestation[a]]_vars

\* The executor, its journal and its fences implement the promise of
\* EffectFence: commands run at most once, and never behind the fence.
Promise == INSTANCE EffectFence WITH
    running <- {op \in Ops : live[op]},
    spent <- {op \in Ops : runs[op] > 0},
    fenced <- {a \in Attempts : FencedOff(a)}

ImplementsFence == Promise!Spec

-----------------------------------------------------------------------------
(* The inductive invariant the proofs rest on.                             *)

\* What a call holds is well formed, and no two calls hold the same lock.
CallState ==
    /\ \A p \in Procs :
          /\ pc[p] # "idle" => att[p] \in Attempts
          /\ pc[p] \in Executing \cup {"execute_called"} =>
                cur[p] \in Ops /\ att[p] = attempt_of[cur[p]]
          /\ pc[p] \in {"snapshotted", "pinned", "verified", "observed"} =>
                seen[p] \in Sight
    /\ \A p, q \in Procs :
          pc[p] \in Executing /\ pc[q] \in Executing /\ cur[p] = cur[q] => p = q
    /\ \A p, q \in Procs :
          pc[p] \in Exclusive /\ pc[q] \in Exclusive /\ att[p] = att[q] => p = q

\* How far a call of execute is, and what that says of its operation.
StepState ==
    \A p \in Procs :
        LET op == cur[p] IN
        /\ pc[p] \in {"op_locked", "fenced"} => journal[op] = "none"
        /\ pc[p] = "starting" => journal[op] = "starting" /\ supervisor[op] = "none"
        /\ pc[p] = "spawned" =>
              /\ journal[op] = "starting" /\ runs[op] = 0
              /\ supervisor[op] \in {"reading", "killed"}
        /\ pc[p] = "unidentified" =>
              /\ journal[op] \in {"starting", "running"} /\ runs[op] = 0
              /\ supervisor[op] \in {"reading", "killed"}
        /\ pc[p] = "recorded" =>
              /\ journal[op] = "running" /\ runs[op] = 0
              /\ supervisor[op] \in {"reading", "killed"}
        /\ pc[p] = "waiting" => journal[op] = "running"
        /\ pc[p] = "reported" => journal[op] = "running" /\ report[op] = "completed"

\* The record, the supervisor, its report and the process tree agree.
OpState ==
    \A op \in Ops :
        /\ journal[op] = "none" => supervisor[op] = "none"
        /\ journal[op] = "not_started" =>
              runs[op] = 0 /\ supervisor[op] \in {"none", "exited", "killed"}
        /\ journal[op] = "completed" => runs[op] = 1 /\ ~live[op]
        /\ supervisor[op] \in {"none", "reading", "requested"} =>
              runs[op] = 0 /\ report[op] = "none"
        /\ supervisor[op] \in {"requested", "running"} => journal[op] = "running"
        /\ supervisor[op] = "running" => runs[op] = 1
        /\ live[op] => runs[op] = 1 /\ journal[op] = "running"
        /\ report[op] = "not_started" => runs[op] = 0 /\ supervisor[op] = "exited"
        /\ report[op] \in {"completed", "timed_out"} =>
              runs[op] = 1 /\ ~live[op] /\ supervisor[op] = "exited"
        /\ runs[op] <= 1

\* Behind the fence, and in front of it while a handoff is being recorded,
\* every record of the attempt is settled and no call can unsettle one.
FenceState ==
    /\ \A op \in Ops : FencedOff(attempt_of[op]) => journal[op] \in Terminal
    /\ \A p \in Procs :
          /\ pc[p] \in Fenced => ~FencedOff(att[p])
          /\ pc[p] = "effect" => marker[att[p]] = None
          /\ pc[p] \in Handing =>
                /\ marker[att[p]] = None
                /\ \A op \in Ops : attempt_of[op] = att[p] => journal[op] \in Terminal

\* From the pin on, a handoff works with the commit its ref holds.
PinState ==
    /\ MarkerIsPinned
    /\ \A p \in Procs : pc[p] \in {"pinned", "verified"} => pin[att[p]] = seen[p].tree

IInv == TypeOK /\ CallState /\ StepState /\ OpState /\ FenceState /\ PinState

-----------------------------------------------------------------------------
(* What comments of the code say and the code does not do.                 *)

\* "External completion is accepted only for [...] a fresh clean tree"
\* (ExternalProducerProcessObserver): the observer accepts a dirty one too.
CompletionNeedsCleanTree == \A a \in Attempts : producer_quiescent(a) => clean(a)

\* handoff_authoring "takes this same lock before checking that no effect is
\* unresolved" (fence_authoring_effect): only command effects are checked, so a
\* git effect cut short by a crash is still unresolved behind the fence.
HandoffAfterEffects == \A a \in Attempts : marker[a] # None => ~unresolved[a]

-----------------------------------------------------------------------------
(* Liveness.                                                               *)

\* The steps of a call that wait for a lock, and the ones that do not.
Acquire(p) ==
    \/ execute_lock(p) \/ execute_fence(p) \/ handoff_lock(p)
    \/ attest_observe(p) \/ fence_authoring_effect(p)

Proceed(p) == Execute(p) \/ Handoff(p) \/ Attest(p) \/ GitEffectDone(p)

\* flock wakes its waiters in order; every other step is local work, a bounded
\* subprocess or a wait with a timeout.
Fairness == \A p \in Procs : SF_vars(Acquire(p)) /\ WF_vars(Proceed(p))

FairSpec == Spec /\ Fairness

\* No call hangs: not on a supervisor that never ends, and not on the operation
\* and attempt locks that calls hold while they wait for each other.
CallsReturn == \A p \in Procs : pc[p] # "idle" ~> pc[p] = "idle"

=============================================================================
