# TLA+ verification of Project Control

Project Control (`src/src/project_control`, 88 Python files) is a local server
that gives coding agents a project view, runs their checks, shares the
accelerators of the host between them, and moves their work through a ledger
kept by the Todo Orchestrator. Most of its files read and format. The parts
that keep state across processes, threads and crashes are the ones modelled
here: each has a component module, a TLC configuration and machine-checked
proofs; the two at the centre, the host coordinator and the effects of an
attempt, also have an abstract specification.

## 1. Inventory

| Component (source) | State | Operations | Interacts through | What makes it correct |
|---|---|---|---|---|
| Host coordinator (`host_resources/coordinator.py`, `policy.py`, `process.py`, `facade.py`) | SQLite tables of resources, owners, reservations, foreground intents; residency metadata | reserve background/service, begin/activate foreground, preempt, heartbeat, sweep, protect residency, release | one database shared by all processes; each operation is one `BEGIN IMMEDIATE` transaction | a device has one holder; a live model keeps its devices; foreground work is served; dead owners go away |
| Command executor (`native_providers.py`, `JournaledCommandExecutor`) | one journal record per operation, operation and attempt lock files | `execute`, `inspect` | flocks, journal files, a pipe to the supervisor | a command runs at most once; the record is true |
| Command supervisor (`native_command_supervisor.py`) | a process, its command tree, its report | read request, refuse, run, drain the tree, report | pipes, `/proc` | nothing of the tree is left when it reports |
| Attestation (`native_providers.py`, `record_external_producer_completion`, `ExternalProducerProcessObserver`) | one attestation per attempt, with a time to live | record, observe | attempt lock, workspace, lease | nothing runs behind it; it is not replaced |
| Authoring handoff (`native_authoring_handoff.py`) | an immutable git ref and a durable record per attempt | `handoff_authoring` | attempt lock, git, journal | nothing runs behind it; the record names the pinned commit |
| Git effects (`native_providers.py`, `fence_authoring_effect`) | — | `perform`, `retry_not_applied` | attempt lock | refused behind a handoff |
| Compact workflow (`compact_workflow.py`) | a journal of workflow handles: phase, selection, phase intents, operations, lease | `next_task`, `work_step`, `coordinate`, `finish`, a lease renewal thread | store lock, renewal lock, calls to the Todo authority that may be lost | one selection and one dispatch per handle; replays are exact; phases do not go back |
| Terminal sessions (`terminal.py`) | sessions, labels, expired keys; per session a process, a reader thread, a state | launch, recapture, resize, terminate, retire, shutdown | registry lock, state lock, threads | no process without a session; limits; captures return |
| Device Scheduler client (`device_scheduler.py`) | the selected authority; leases of a remote scheduler | reserve, reject, heartbeat, release | a remote service that may lose a request or handle it late | a reservation is the caller's own; a release that returns has reclaimed what it found |
| Packet store (`as1_packets.py`) | packets, bodies by hash, pins, retention, notes | put, pin, retain, gc, reconcile | SQLite transactions | a live packet has its body and its ancestors; provenance can be read |
| Metadata store (`project_metadata.py`) | declarations by version, operations, previews, revision | preview, amend | SQLite transactions | an operation is applied once, as reviewed; a removal leaves no relation behind |
| Session stores (`workflow_binding.py`, `native_child_identity.py`) | bearer tokens; pending one-use credentials | store, open, forget, issue, authenticate, prune | file lock, threads | a credential is used once and in time |
| Migration (`migration.py`) | three files and a record | apply, remove, roll back | files | all or nothing, and reversible |
| Observer jobs (`archive/assistance-v0/as1_jobs.py`, `assistance/frames.py`, `assistance/power.py`) | jobs, frames, waits and execution slots in a database; model sessions; the release veto | submit, claim, execute, private wait, finish, expire, cancel, wake, demand stop, resume | SQLite transactions, dispatcher threads of several processes, a watchdog | one worker per job; the parent's slot is free before its child starts; turns add up; a reported stop holds; jobs end |
| Pre-ledger (`preledger.py`) | — | lowering to a plan | — | deterministic; order and dependencies kept |

Everything else is listed in `PROJECT.json` with the reason it is left out:
services and adapters read and format, the native workflow host forwards calls
to the Todo Orchestrator (not part of the repository), and most of `archive/`
and all of `legacy/` is retired code that nothing installs. The observer jobs
are archived too; they are modelled because they are the most intricate
concurrent protocol of the repository, and the archive keeps their tests and
qualification plan as the record of what they promise.

How the parts meet: the compact workflow calls the Todo authority through the
native workflow host, which opens sessions from the credential store and
dispatches commands to the executor; executor, handoff, attestation and git
effects meet at the lock of the attempt; local work asks the selected resource
authority (local coordinator or Device Scheduler) for devices. Packets,
metadata, migration and terminals stand by themselves.

The behaviours that are hard to test are listed under `hazards` in
`PROJECT.json`, each at its line. They fall into four groups: transactions of
other processes between two transactions of a protocol (foreground intents,
preemption, residency, waking of parents); crashes between two durable writes,
or between a write and the effect it announces (journal, pin and record,
migration, bearers); state that is read before a wait and used after it
(quiescence proofs, attestations, lease ids, workflow records); and clients
that poll, retry or wait for each other's locks for ever.

## 2. Modules

| Module | Models |
|---|---|
| `ResourceLeases` | abstract: owners lease sets of resources all-or-nothing and exclusively; pinned owners keep theirs |
| `HostResources` | the host coordinator |
| `HostResourcesProofs` | its theorems |
| `MCHostResources`, `MCHostPolling` | instances for TLC; the second restricts the steps to a polling requester and crashes |
| `EffectFence` | abstract: a command starts at most once, and never behind its attempt's fence |
| `AttemptEffects` | executor, supervisor, attestation, handoff and git effects, in one module because they meet at the attempt lock |
| `AttemptEffectsProofs` | its theorems |
| `MCAttemptEffects` | an instance for TLC |
| `TodoAuthority` | external: the ledger as the workflow uses it (idempotency keys, expected revisions, leases) |
| `CompactWorkflow`, `CompactWorkflowProofs`, `MCCompactWorkflow` | the task workflow over that authority; its theorems; its instances |
| `TerminalSessions`, `TerminalSessionsProofs`, `MCTerminalSessions` | terminal registry, reader threads, captures, shutdown; its theorem; an instance |
| `SessionCredentials`, `SessionCredentialsProofs`, `MCSessionCredentials` | credential file, issuer of child identities, the host's calls on children; its theorem; an instance |
| `ObserverJobs`, `ObserverJobsProofs`, `MCObserverJobs` | the archived job service; its theorems; an instance |
| `PacketStore`, `MetadataStore`, `Migration`, `ResourceAuthority` | packets, project metadata, the routing migration, the two resource authorities |
| `MCComponents` | these four together, each explored while the others rest |
| `ComponentsProofs` | the theorems about `PacketStore`, `MetadataStore`, `ResourceAuthority` and `Migration`, through the instances of `MCComponents` |
| `SumTheorems` | lemmas about sums over finite sets, for the bounds of `HostResources` and `ObserverJobs` |

`EffectFence` and `ResourceLeases` are refined by INSTANCE with a mapping in
`AttemptEffects` and `HostResources`. `CompactWorkflow` composes the host with
`TodoAuthority`; `MCComponents` composes components that share no variable, so
an interleaving of their steps adds no behaviour and TLC explores each of them
from the initial states of the rest.

### HostResources

The variables are the columns of the tables (`state`, `pid`, `preempt`, `class`,
`threads`, `age` of an owner; `held`, `past` for its reservation rows; `bundle`,
`intents` for its foreground intent; the residency columns and metadata) and
the environment: which processes live, which model process was really started,
and which quiescence proofs are fresh. Every public operation of
`HostCoordinator` that writes is one action, as it is one transaction; an
operation that raises changes nothing. The sweep of stale owners that admission
transactions run first is part of each of them (`SweptState`, `SweptHeld`, ...). The residency
triggers of `_install_residency_guards` are `Guarded`: they act on the released
rows of every action, and on the plain SQL of an earlier release of the
program (`LegacyRelease`).

Abstracted: time is an age per owner that stops at the staleness threshold
(`StaleAge`, 30 s in the code); RAM is accounted as CPU threads are and left
out; resource ids, domains and requests are small sets; a process is a pid
with its start time, so a reused pid is another process. A failed activation and
a refused reservation still commit their sweep, and so do the actions. A
heartbeat without a pid keeps the recorded process. A quiescence observation is
made when the model process is gone, and no model is started between it and the
release that uses it: that is the service host's obligation. The code would
accept a proof up to five seconds old (`coordinator.py:779-790`), so
`ModelKeepsDevices` says nothing about a model started in those seconds.

### AttemptEffects

A process serves one call at a time, one action per step between two points at
which another process, a crash or the supervisor can be seen. The flocks are
not variables: who holds one is read off `pc` (`OpLocked`, `AttemptLocked`), so
a crash frees it as the kernel does. Files survive a crash; supervisors and
command trees survive their executor. `Crash` also stands for an exception
that unwinds a call. A crash while a file is written may leave a `.command-`
temporary (`litter`), which blocks every later quiescence check.

Abstracted: the content of a workspace is one of `Sources`, and a commit is
named by its tree; output, digests and time limits are left out; the time to
live of an attestation is an action that may fire at any time. The lock on an
attestation or handoff record is only taken inside the attempt lock or for one
read, so it is not modelled. Calls that only read (`inspect`, a replayed
result, a prior handoff, `prepare_attempt_credential`) are stuttering steps.

### CompactWorkflow

`store` is the private record file (every `get`, `update` and `atomic_update`
holds its flock, so it is one step), `current` the scope's pointer, `proc` the
calls and the renewal threads with their local copy of the record (`loc`),
`lock` the renewal lock of a host process. The interesting part is what happens
between two steps: a call works on the copy it read, and `Overwrite` merges it
back the way `update` does. A native mutation is four steps: `PhaseIntent` pins
arguments and revision, the authority answers (`InvokeAnswered`) or the answer
is lost after or before the commit (`InvokeLost`), and a stale revision leads
through `ObserveRevision` and `RefreshIntent` to a new key. `HostCrash` ends a
host with its calls and threads; records and authority survive.

Abstracted: selections, contexts and reports carry no content; a lease is its
generation; gates pass or the call is refused; `inspect_task`, review handles,
previews of proposals and the inbox change nothing here and are left out. Some
calls hand `_phase_intent` a copy of the record (`dict(record)`:
`compact_workflow.py:1848, 2090, 2171, 2214`), where the model updates the
caller's own; with one client no later step reads the difference.

### TerminalSessions

A step is one critical section or one system call. A timeout may end whenever
a thread waits with one, so SIGTERM, grace period, SIGKILL and the last join
interleave with the reader thread in every order. A process may ignore SIGTERM.
Screen emulation, the sandbox command line, sizes and times are left out; the
two byte limits are the actions `StreamLimit` and `CaptureWaited(c, TRUE)`. The
limit per workspace (`terminal.py:639`), the cap on remembered expired sessions
(575) and a `Popen` that fails are left out: the first and the last only refuse
a launch, and the second forgets sessions that are over.

### SessionCredentials

`store` is the credential file, `subjects` and `pending` the issuer in the
memory of the host, `child` and `parent` what the authority committed. Start
of a child is issue, authenticate, store, in three steps; each may fail or be
lost with the process. A bearer is an actor number; the file's size is its
number of entries. The issuer forgets a subject that is evicted and one that is
24 hours old (`native_child_identity.py:124, 163`); the two are one step here.

### ObserverJobs

Dispatcher threads claim a job with a slot, pass the gate, open a session, call
the model, charge the turn, commit or suspend, close the session and release
the slot; the watchdog, cancellation and the operator's stop run beside them.
Evidence packets, retry delays, the preparation of contexts and the inquiry
cache are left out; a job is a node of a fixed family tree of the depth that
`register_wait` admits (`DepthAssumption`; `MAX_ROOT_DEPTH` is 2). A row of
`pa1_frames` is two functions: `frame` has its state and failures, `turns` its
counters, because what the frames say about each other never depends on a
counter. A wait reserves one or two turns for its child, as `register_wait`
allows. The statuses of a job that will be claimed again (queued, yielding,
requeued) are one, `"queued"`, as nothing here tells them apart. A private child
inherits mode and skill of its root (`as1_jobs.py:2541-2543`), so the removal of
a skill is the removal of a whole tree's.

### PacketStore, MetadataStore, Migration, ResourceAuthority

Packets: every transaction of the store, with expiry as a step of time;
payloads are hashes and scopes are sets of facts. The `updated` column of the
retention table is the order of its rows, not a time. The store is the one the
package builds (`as1_surface.py:32`), without an `authority_access` callback:
with one, `lookup` asks the callback (`as1_packets.py:529-530`, also 501) while
`_put` compares scopes (444), and `ParentsResolve` would not be guaranteed.

Metadata: previews, applies, no-ops, replays and removals of declarations over
a source that is edited, by hosts that differ in the trusted providers and in
the names of the workspace they know. `_workspace_identities` asks a Todo
authority for the native names, ignores its failure and caches what it has
(`as1_control.py:77-90`), so a host may know fewer names than another, and both
the check of a relation's endpoints (`EndsKnown`) and the removal of relations
(`Related`) use the names of the host that runs them. A relation that names
itself cannot be removed: its next version would be inserted twice, and the
transaction is rolled back. `scope_digest`, which `amend` writes
(`project_metadata.py:253-255, 262`) and never reads, is left out, as are the
control service's checks of payload fields, repositories and paths.

Migration: the plan from one reading, then one step per file in the order of
the list of changes (`First`), a failing write, the rollback, whose writes may
fail as well (`RestoreFails`), and crashes. A `project.json` in another layout
is rewritten although its front door stays (`reformat`). `lost` remembers that
a call ended, by a crash or a failed rollback, between the new front door and
the first record of the old one.

Resource authorities: owners that reserve from the authority selected when
their process started, and the operator's switch. A request to the scheduler is
on its way (`sent`) until it is handled or lost; the client may time out before
and go on, and the request may be granted later. An owner has a lease per
idempotency key, that is per request it makes (`Wants`), and a lease keeps the
owner context (`gen`) of the process that obtained it. `reserve_background`
returns what the lease allocates; `release` lists the leases, refuses to choose
between several active ones, and releases the one it found. Under a registry
that was retired to a directory the switch finds no rows, as in an empty one.

## 3. Runs

| Run | Instance | Shows |
|---|---|---|
| `HostContention` | 2 background owners, 1 foreground, 2 devices on one NVLink domain, CPU limit 2 | `Exclusive`, `RowsHaveLiveOwners`, `BackgroundWithinLimit`, `IntentFence`, `PreemptionStands` |
| `HostResidency` | 1 core4 service, 1 background owner, 1 device, 3 processes | `TypeOK`, `ModelKeepsDevices`, `ImplementsLeases` |
| `HostForeground` | 2 background owners, 1 foreground, 1 device, with fairness | `ForegroundServed` |
| `HostPolling` | 1 dead background owner, a service that polls | violates `DeadOwnersSwept` |
| `EffectsFence` | 2 processes, 1 operation, 2 sources | `TypeOK`, `AtMostOnce`, `JournalIsTrue`, `FenceHolds`, `MarkerIsPinned`, `ImplementsFence`, `FenceIsFinal` |
| `EffectsCalls` | 2 processes, 1 operation, with fairness | `CallsReturn` |
| `CompactFaults` | 1 client, 1 host, 1 workflow; one heartbeat, resume, foreign commit, lost answer and crash each; with fairness | `CompactInv` (types, `LeaseTracked`), `ReplayIsExact`, `FinishReadsNewestLease`, `RecordForward` (`PhaseForward`, `RenewalKept`), `FinishEnds` |
| `CompactOperations` | the same client with two operations instead of a finish | `EffectOnce` |
| `Terminal` | 1 session, 2 callers, 1 label, 1 shutdown, with fairness | `RegistryInv` (types, `LiveIsRegistered`, `LabelNamesSession`), `StoppedIsRetired`, `CapturesReturn` |
| `Credentials` | 2 calls, 2 executions, a table for 1 identity, 2 faults, with fairness | `CredentialInv` (types, `ActorPerExecution`), `StartCompletes` |
| `Observer` | 2 workers in their own processes, a job and its child, 4 turns, 1 fault, with fairness | `SlotInv` (types, `SlotPerWorker`, `SlotsAccounted`), `ParentReleasedFirst`, `TurnBudget`, `StoppedIsReleased`, `JobsEnd` (with `EndIsFinal`) |
| `Components` | 2 packets, 1 body, 2 jobs, 1 note; 1 identity, 1 relation, 1 provider, 2 repositories, 3 names of which 1 is known to every host, 3 operations; 4 migrations, 2 crashes; 1 owner with 2 requests, 2 of them under way, 2 GPUs, 1 restart, 2 switches | `PacketInv` (types, `BodyStored`, `LiveIsStored`, `EvidenceKept`, `TerminalBounded`), `ParentsResolve`; `MetadataInv` (types, `LogExplainsRows`, `NoDanglingRelation`), `CarriedOutAsReviewed`; `MigrationInv` (types, `RolledBack`, `ApplyCompletes`, `RemoveRestores`); `AuthorityInv` (types, `ReservationIsOwn`, `FreedIsReclaimed`); `HistoryKept` (`Immutable`, `AppendOnly`) |

Why the bounds are enough to be interesting: with two devices on one domain an
owner can hold part of what another wants, isolation takes the domain and so
both devices, and a CPU limit of two is reached by two owners. Three processes
let the origin of a residency die, its model survive and a new owner arrive.
Two server processes suffice for every pair of calls that meet at a lock, and
each may crash and be called again any number of times. A single workflow goes
through every phase and every way to finish it; one heartbeat rotates the lease
at any point of a call, and each kind of fault can hit every native call. The
session of `Terminal` is launched once and is captured by two
calls against its reader thread and a shutdown. A table for one identity makes
the second execution evict the first. Two packets share a body, and one may be
the parent of the other; the second finished job exceeds the limit of one.
Three operations let one amendment come between the preview and the apply of
another. A host that knows the native name registers a relation under
it, and one that does not removes the identity. Four migrations with two crashes
are apply, torn apply, repair and remove. Two requests of one owner, by two
processes one after the other, make an old grant meet a new request, and a late
one a release that has returned; owners share nothing but the free GPUs, and a
refusal may come at any time, so a second owner adds nothing. A parent, its child and two workers are what the wait, the wake and
the release of slots need. The proofs below remove the bounds, for the compact
workflow all but the one on its clients.

`Terminal`, `Compact*`, `Credentials`, `Observer` and `Components` do not check
deadlock: their calls are bounded (a workflow per handle, a launch per session,
jobs and operations that are used up), and a state in which all of them are over
is a proper end. The properties qualified in their definitions are so for a
reason given there: `LiveIsRegistered` and `LabelNamesSession` until a shutdown
begins, `RemoveRestores` unless a call ended between the
new front door and its first record, `RolledBack` when the rollback went through,
`NoDanglingRelation` for the names that every host knows, `FreedIsReclaimed` for
the leases that the release found, `SlotsAccounted` while the skill of the job's
root is registered, `StartCompletes` while the issuer remembers the execution.

One run is expected to find a violation, and is a finding in `PROJECT.json`:

- `HostPolling`. A preemption request sets the victim's heartbeat
  (`coordinator.py:410`) whether or not its process lives. A requester that
  polls more often than every 30 s keeps a dead owner fresh, and it is never
  swept. `facade.py:165-167` says that dead owners must not poison the
  registry and that reservation repeats the sweep.

### Known divergences

Where the code does not do what one of its comments or documents says, the
model follows the code. These were met with TLC while modelling; they are not
kept as runs. The named definitions are in the modules, and the instance is the
smallest that shows the behaviour.

| Definition (module) | Instance | What the code does, and what it says |
|---|---|---|
| `CompletionNeedsCleanTree` (`AttemptEffects`) | as `EffectsFence` | `native_providers.py:357` accepts a dirty workspace; the docstring at 281 says a fresh clean tree |
| `HandoffAfterEffects` (`AttemptEffects`) | as `EffectsFence` | a git effect cut short by a crash stays unresolved behind the handoff; the comment at `native_providers.py:1235` says handoff checks that no effect is unresolved |
| `ResumesPersistedLease` (`CompactWorkflow`) | 1 caller, 1 heartbeat | `coordinate_task` reads the lease before it waits for the renewal lock (2185); 2192 says exactly the persisted lease |
| `RenewalKept` (`CompactWorkflow`) | 2 callers, 1 heartbeat | a slower `next_task` writes its whole record back after dispatch (990) and undoes a renewal; 1006 names that hazard for the context only |
| `EffectOnce` (`CompactWorkflow`) | 2 callers in 2 hosts, 1 operation, 1 foreign commit | the renewal lock is a `threading.RLock` (483) and the record is shared: the foreign commit makes both hosts stale, one refreshes the intent and commits, the other observes the revision after that commit and commits under the next key; 696 says the rejected request had no commit, so a new revision and key can safely retry |
| `EffectOnce` (`CompactWorkflow`) | 2 callers in 1 host, 1 foreign commit, 1 lost answer | a slower `next_task` writes its whole record back (969, 990) and drops the refreshed intent of an operation whose answer was lost, which is then committed under its first key; the docstring of `_phase_intent` says that capturing the intent prevents a lost response from changing the replay body |
| `FinishIsImmutable` (`CompactWorkflow`) | 2 callers, two finish actions | a second finish that also read `active` replaces the recorded request (2407); 1801 calls it immutable |
| `LosingSelectionResumes` (`CompactWorkflow`) | 2 callers | the call that found no work validates its own empty choice (914) instead of resuming the stored selection |
| `OperationHistoryKept` (`CompactWorkflow`) | 2 callers, 2 operations | the operations map is read before the native call and written back after it (1876) |
| `RemoveRestores` without its qualification (`Migration`) | 1 crash, or none | a crash after `project.json` and before the record, or a write and a restoring write that both fail there (`migration.py:129-134`): the repeated apply records the installed front door as the previous one (151) |
| `NoDanglingRelation` for all names (`MetadataStore`) | 2 hosts, 1 identity, 1 relation | a host whose Todo authority did not answer does not know the native name (`as1_control.py:77-90`), and a removal there leaves the relations under that name active (`project_metadata.py:203`) |
| `FreedIsReclaimed` for all leases (`ResourceAuthority`) | 1 owner, 1 request | a request that the client gave up (`device_scheduler.py:215`) is granted after a release that found no lease has returned; the lease stays until it expires |
| `LocalFenced` (`ResourceAuthority`) | 1 owner, 1 switch | `connect` reads the selector before it opens the database (`coordinator.py:114`); 96 says all legacy access is fenced after a cutover |
| `OneAuthority` (`ResourceAuthority`) | 1 owner, 2 switches | the switch counts local owners and writes the selector later (`cli_v0.py:1165`) |
| `ChildIsCoordinated` (`SessionCredentials`) | 1 execution | `execution_id` is local to the start branch of `action` (`native_workflow.py:1254`), so every other operation on a child is rejected |
| `StoreStaysReadable` (`SessionCredentials`) | 3 executions, a limit of 3 entries | the writer of the credential file has no limit, its reader has, and bearers of children are never forgotten (`workflow_binding.py:153`) |
| `AnswerCommitted` (`ObserverJobs`) | 2 families, 2 workers | the end of any child requeues every woken parent, also one that is running (`as1_jobs.py:2579`), whose answer is then dropped |
| `VetoStopsModel` (`ObserverJobs`) | 1 job | the veto may be committed between the gate and the model call (`as1_jobs.py:3265`) |
| `SlotsAccounted` without its qualification (`ObserverJobs`) | 1 job, 1 fault | a job of a removed skill, a root or a private child that inherits it, returns before the block that releases its slot (`as1_jobs.py:3115`) |
| — (`ObserverJobs!ConsumeAck`) | a job and its child | a job whose answer was in time, and is acknowledged after the deadline, keeps a running frame: `record_terminal` refuses a completion past the deadline (`frames.py:525`) |
| — (`HostResources!ObserveQuiescence`) | not in the model | a quiescence proof may be five seconds old when it is used (`coordinator.py:779-790`); nothing in the registry prevents a model started in between |

### Fairness

`HostResources!Fairness`: the clock runs, a foreground client that was refused
calls `activate_foreground` again, and a live owner polls `drain_if_requested`
with a callback that ends by draining. The last two are obligations of the
facade's clients, which are outside the package: the facade offers both calls
for polling (a refusal is an answer, not an error; `wait_for_quiescence` has a
time limit after which the client tries again), and without them no foreground
request is served by anyone. `ForegroundServed` therefore says what the
coordinator adds: for clients that keep to the protocol, no later arrival,
death, sweep or preemption starves an intent. It is stated under
`DeadNotRenewed`, because the polling requester of `HostPolling` would otherwise
defeat it; nothing is assumed of sweeps, which are part of the activation.

`AttemptEffects!Fairness`: strong fairness of taking a free lock (flock serves
its waiters in order), weak fairness of the other steps of a call, each of
which is local work, a bounded subprocess or a wait with a timeout. Supervisors
and commands are not assumed to be fair: a command that never ends is what the
timeout is for.

`CompactWorkflow!Fairness`: the steps of a call and of a renewal thread are
local work or bounded calls, so they are weakly fair while the host lives.
`FinishTask` is strongly fair: the client repeats a finish that failed, which
is what the record keeps the request for. It is an assumption about the client
and part of the meaning of `FinishEnds`; heartbeats, foreign commits and faults
are not assumed.

`TerminalSessions!Fairness`: threads run, their timeouts end, SIGKILL ends a
process and the end of the process reaches the reader. A process that has only
been asked to end is assumed nothing of.

`SessionCredentials!Fairness`: calls go on, and a client repeats a start that
failed (strongly fair, since other calls may keep the issuer's table full).

`ObserverJobs!FairSpec`: deadlines pass and the watchdog loops, nothing else:
jobs end although every worker may hang and every process may die.

## 4. Proofs

All theorems hold for every value of the constants that satisfies the named
assumptions, so for any number of owners, devices, processes and operations.

**HostResources** (`OwnerAssumption`: the three kinds of owner ids are disjoint;
`EnvironmentAssumption`: types of the constants). `Exclusive` is not inductive
alone: an intent that is revived is activated with its old bundle, and a
protected owner is skipped by every release. The invariant `IInv` adds that no
row outlives its owner (`RowsHaveLiveOwners`), that a foreground owner holds
nothing outside its bundle (`ForegroundHoldsBundle`), that a protected owner is
active and holds what its metadata lists (`ProtectedHoldsResidents`), and that
a model runs only under protection and never against a fresh observation
(`ModelProtected`). `Invariance` proves it with one step per action;
`TypeCorrect`, `MutualExclusion`, `NoDanglingRows` and `ResidencySafety` are its
consequences, `ForegroundFence` and `PreemptionIsFinal` the action properties,
and `LeaseRefinement` shows that every step is a step of `ResourceLeases` or
leaves it alone. `AdmissionControl` proves `BackgroundWithinLimit`, a bound on
a sum over the owners. The set of owner ids may be infinite, so its invariant
`AdmissionIInv` adds that the live owners are finitely many: a step admits at
most one (`Admitting`, after the sweep of its own transaction) or none
(`NotAdmitting`). Of the rest it needs only the types.

**SumTheorems.** `SumFunctionOnSet` is a fold, that is a function recursive over
the subsets of its set. What a sum does is shown without an induction theorem,
by a smallest counterexample: the subsets for which a fact fails form a set, and
if it is not empty, the finite subset order gives it a minimal element, which one
unfolding of the recursion refutes. This gives existence and uniqueness of the
recursion (`UnfoldedExists`, `UnfoldedUnique`), independence of the order
(`SumRemove`), and what changing one summand, or striking out several, does to
the sum (`SumUpdate`, `SumStruck`).

**AttemptEffects** (`AttemptOfAssumption`, `ExpectedAssumption`,
`NoneAssumption`, `SightAssumption`: types, and that the absent value is no
value). `FenceHolds` needs to know that a record of an attempt is settled only
when nothing of it can run any more, and this depends on how far a call has
come. `IInv` has five parts besides types: `CallState` (what a call holds is
well formed; two calls never hold one lock), `StepState` (what each step of
`execute` says about its operation), `OpState` (record, supervisor, report and
process tree agree), `FenceState` (behind the fence, and under a handoff in
progress, every record is settled) and `PinState` (from the pin on, a handoff
works with the commit of its ref). Each part has a lemma per group of actions;
`Invariance` combines them. `RunsOnce`, `JournalTruth`, `FenceSafety` and
`PinSafety` follow, `FinalFence` is the action property, and `FenceRefinement`
shows the implementation of `EffectFence`.

**ResourceAuthority** (`AuthorityAssumption`). Nothing is proved about the
scheduler, whose exclusivity is its own; what is proved is what the client makes
of its answers. `ReservationIsOwn` fails to be inductive because it is about a
call that is over: `CallConsistent` follows the call, from an answer on its way,
which is about an allocation in the ledger (`AnswerIsLedger`), to the
reservation, and from the leases a release listed (`ListingHolds`) to the ones
it saw reclaimed. Both need that a lease keeps its allocation and its owner for
good while its state changes (`LedgerKept`). `FreedIsReclaimed` also rests on
`_current_lease` refusing several active leases: one that chose among them would
return with the others still allocated. `ReservationsAreReclaimed` follows.

**Migration** (`MigrationAssumption`). A call may end after every write, by a
crash or in its rollback, so the invariant has to say where a call is: `Progress`
relates disk, plan and originals file by file and says that the record is
written last, `Consistent` the three files between two calls as long as the old
front door is not `lost`. `MigrationIsReversible` is `RolledBack`,
`ApplyCompletes` and `RemoveRestores` together; `ApplyCompletes` needs no
qualification.

**PacketStore** (`PacketAssumption`; it names that there is a hash).
`LiveIsStored` is about all ancestors of a live packet and cannot be carried
through a step as it is. `Rooted` is closed under parents and can: what is
pinned is stored, and the parents of what is stored are stored. It does not
say that the relation of parents is well founded, nor need it: the ancestors
are defined as what every set closed under parents contains. With
`ScopesNested` and `EvidencePinned`, `CollectionKeepsWhatIsLive` and
`ProvenanceResolves` follow. `TerminalBounded` is a bound on a cardinality
after deleting a surplus from a table: `RetentionOrdered` says that the table is
finite and totally ordered, so the retained finished jobs that are not the
oldest are counted by `Newer` of the oldest one.

**MetadataStore** (`MetadataAssumption`: relations are neither identities nor
providers, and what relations and hosts may name). `NoDanglingRelation` is for
any hosts and whatever names each of them knows: a removal retires what it finds
under the names of its host, which include the common ones, and what is
registered again later has a later revision. `RevisionsOwned` states both directions between revisions and applied
operations, which `LogExplainsRows` counts; `LogExplainsStore`, `ReviewsBind`
and, with the packets, `HistoriesAreKept` (an action property) follow.

**SessionCredentials** (`CredentialAssumption`). That no two executions share an
actor fails to be inductive because an actor is named in four places: the table
of the issuer, a start that is under way, the record of the authority and the
credential file. `Claims` is the set of all of them; `ClaimsAgree` says that
they agree on the execution of an actor, `GrantsRecorded` that what was granted
is what was recorded. `ActorsBelongToOneExecution` follows.

**TerminalSessions** (`TerminalAssumption`). `LiveIsRegistered` is about processes, the registry is
maintained by the reader threads: `Registered` says that it holds exactly the
sessions whose reader has not ended, `Threaded` that a reader leaves its loop
only after its process was killed or has ended. `RegistryKnowsProcesses`
follows.

**ObserverJobs** (`ObserverAssumption`, `DepthAssumption`). The proof has two
halves that hardly meet. About workers: `WorkersNamed` (also that a worker which
skips the cleanup has a job of a removed skill), `SlotPerWorker`,
`SlotsAccounted` and `StopKeepsSlots` (once the stop has seen no slot, the veto
keeps it so, because `claim` reads the veto in its own transaction). About the
rows: `RowAgrees` ties a job's row to its frame, its wait and its slot, and
`TakesTurns` says of a parent and its child that the parent waits as long as
the child's frame is open, and is suspended once the child has begun. They are
needed together: a child starts because its parent is suspended, and a parent
is only suspended by the release of its own slot. The lemmas `RowsMove`,
`TreesEnd` and `CancelledRows` carry the rows through every way in which frames
end; there is one lemma per group of actions. `SlotsHaveOneWorker`,
`ChildrenWaitForRelease` and `StopMeansReleased` are the consequences,
`EndsAreFinal` is the action property, the safety half of `JobsEnd`.

`TurnsAddUp` proves `TurnBudget` (with `TreeAssumption`: a tree of jobs is
finite). The bound is not inductive: `consume_turns` charges a turn long after
the gate that looked whether one was left, and the frame may have ended between
the two and given its reserve back. `TurnsIInv` says why this is harmless. A worker
that was admitted works on a running frame or on one whose whole tree has ended
(`TurnIsRunning`), so no two workers are at a turn in one tree
(`OneTurnPerTree`) and nobody else spends the turn this one was admitted for
(`TurnIsLeft`); a frame that is not open has nothing in reserve (`TurnsAgree`),
so ending it twice returns nothing twice. That a tree has one turn at a time comes
from the other invariant: parents and children take turns (`TakesTurns`), and a
job has one worker.

**CompactWorkflow** (`CompactAssumption`; and `OneClient`, the hypothesis of each
of its theorems: at most one call of `next_task`, `coordinate_task` and
`finish_task` at a time, beside which the renewal threads, other clients'
commits, lost answers and crashes of the host happen at any step). A call works
on a copy of the record that it read earlier, and the properties are about the
record and the authority's log, so the invariant has to follow both. `Control`
says at each step of a call what phase the record is in, what of the copy is
still current, and which lock is held; a renewal thread lives only on the
client's host and between dispatch and finish (`StepAt`, `KindAt`,
`CallerState`, `WorkerState`). `Data` says that a mutation is sent with the
stored intent, that it is refreshed only when the log has no entry of it
(`IntentState`), and that the recorded lease is the newest one or the newest one
is the answer of the only lease request still to be recorded (`LeaseState`). Each
needs the other: two heartbeats can only be told apart because the lock makes the
thread's counter current, and an answer may be recorded over the record only
because its entry in the log is the one the phase waits for. There is one lemma
per action; `ClientStep`, `CommitData` and `LeaseRecorded` are what they share.
`LeaseIsNeverLost`, `ReplayBodyIsStored`, `PhasesCommitOnce`, `FinishUsesNewestLease` and
`RecordsOnlyMoveForward` follow. The hypothesis is needed: with two concurrent
calls each of the two mechanisms that the invariant rests on, the record written
back whole and the thread lock, has a counterexample (Known divergences).

TLC checked every inductive invariant as an invariant of the instances above
before it was proved (`ObserverJobs` also with two children and a grandchild).
Every invariant and every action property of the passing runs is stated by a
theorem; `PROJECT.json` lists them.

Only model-checked:

- the liveness properties (`ForegroundServed`, `CallsReturn`, `FinishEnds`,
  `StoppedIsRetired`, `CapturesReturn`, `StartCompletes`, and the second half of
  `JobsEnd`): liveness under fairness is outside the prover;
- `CompactWorkflow` beyond one client: what fails there is listed under Known
  divergences, and no weaker statement about several clients is made.

## 5. Not modelled, and what is left

The map covers about 6 % of the Python in the repository. Two thirds of
that code is in `archive/` and `legacy/`: retired releases and a copy of the Todo
Orchestrator, which nothing imports. Of the package itself the modelled parts are
the ones with state that two actors share; what is left there reads, validates
and formats:

- the native workflow host beyond attempts and children passes arguments to the
  Todo authority, which is outside the repository;
- AS1 context, contracts, surface and trace compute budgets and text over packets;
- the pre-ledger, the source index, the graph and reconciliation are pure
  functions of large documents, better served by the repository's own unit tests
  than by a bounded model;
- discovery of the host's topology, configuration parsing, the screen emulator
  and the read-only services keep no shared state;
- of `archive/`, the worker supervisor, the model servers, the demand runtime and
  the lab were retired with the machines they drove.

Left for the proofs: liveness, which is outside the prover, and statements about
several concurrent clients of one compact workflow, for which the code would
first have to change.
