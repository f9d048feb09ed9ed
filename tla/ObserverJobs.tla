---------------------------- MODULE ObserverJobs ----------------------------
(***************************************************************************)
(* The durable job service of the archived assistance runtime: dispatcher  *)
(* threads of several processes claim jobs from one database, hold an      *)
(* execution slot and a model session while they work, and may suspend a   *)
(* job until a private child has answered.  A watchdog ends jobs at their  *)
(* deadline whether or not their worker returns, and an operator can stop  *)
(* everything and ask for proof.  Every action is one transaction or one   *)
(* call between two transactions.  Evidence packets, the retry delay and   *)
(* the wording of results are left out.                                    *)
(***************************************************************************)
EXTENDS Integers, FiniteSets, FiniteSetsExt, Functions

CONSTANTS
    Workers,        \* dispatcher threads, each of its own process
    Jobs, NoJob,
    Parent,         \* job -> the job that may propose it, NoJob for a root
    Dead,           \* owner of a slot whose process has died
    Capacity,       \* EXECUTION_SLOT_CAPACITY
    TurnLimit,      \* DEFAULT_MODEL_TURN_LIMIT
    MaxFailures,    \* failed attempts of a frame
    MaxAttempts,    \* bound: claims of a job
    MaxFaults       \* bound: crashes and failed calls

ASSUME ObserverAssumption ==
    /\ NoJob \notin Jobs /\ Dead \notin Workers
    /\ Parent \in [Jobs -> Jobs \cup {NoJob}]
    /\ \A x \in {Capacity, TurnLimit, MaxFailures, MaxAttempts, MaxFaults} : x \in Nat

VARIABLES
    job,       \* job -> status (queued: also yielding and after eviction) and attempt
    frame,     \* job -> state and failures of its frame
    turns,     \* job -> model turns that its frame used, and set aside
    wait,      \* job -> the wait it registered for its child
    slot,      \* job -> its row in execution_slots
    wk,        \* worker -> its control state
    sessions,  \* workers with an open model session
    orphans,   \* dead owners whose sessions the supervisor still holds
    late,      \* roots whose deadline has passed
    removed,   \* roots whose skill is no longer registered
    veto,      \* the release veto of the power policy
    stop,      \* the operator's stop: its control state and its list
    owed,      \* the watchdog has to wake parents
    faults

db == <<job, frame, turns, wait, slot>>
vars == <<job, frame, turns, wait, slot, wk, sessions, orphans, late, removed, veto, stop, owed, faults>>

Roots == {j \in Jobs : Parent[j] = NoJob}
Up(j) == IF Parent[j] = NoJob THEN j ELSE Parent[j]
Root(j) == Up(Up(j))
Children(j) == {c \in Jobs : Parent[c] = j}
Descendants(j) == Children(j) \cup UNION {Children(c) : c \in Children(j)}
Tree(r) == {r} \cup Descendants(r)
\* MAX_ROOT_DEPTH
Deep(j) == Up(j) # Root(j)

\* No proposal goes deeper than that.
ASSUME DepthAssumption == \A j \in Jobs : Root(j) \in Roots

\* The turns of a tree are added up: it has finitely many jobs.
ASSUME TreeAssumption == \A r \in Roots : IsFiniteSet(Tree(r))

Terminal == {"completed", "ended", "cancelled"}
Live(j) == job[j].status \notin Terminal \cup {"none"}
Over(f) == f.state \in {"completed", "ended", "cancelled", "expired"}

NoFrame == [state |-> "none", failed |-> 0]
NoTurns == [used |-> 0, reserved |-> 0, held |-> 0]
NoWait == [state |-> "none", released |-> FALSE, consumed |-> FALSE, ack |-> FALSE]
NoSlot == [attempt |-> 0, owner |-> Dead, failed |-> FALSE]
Idle == [pc |-> "idle", job |-> NoJob, attempt |-> 0, ready |-> FALSE, answer |-> "none"]
Slots == {j \in Jobs : slot[j] # NoSlot}

Init ==
    /\ job = [j \in Jobs |-> [status |-> "none", attempt |-> 0]]
    /\ frame = [j \in Jobs |-> NoFrame] /\ turns = [j \in Jobs |-> NoTurns]
    /\ wait = [j \in Jobs |-> NoWait]
    /\ slot = [j \in Jobs |-> NoSlot]
    /\ wk = [w \in Workers |-> Idle]
    /\ sessions = {} /\ orphans = {} /\ late = {} /\ removed = {} /\ veto = FALSE
    /\ stop = [pc |-> "idle", list |-> {}] /\ owed = FALSE
    /\ faults = 0

Fault == faults < MaxFaults /\ faults' = faults + 1
Step(w, pc) == wk' = [wk EXCEPT ![w].pc = pc, ![w].answer = "none"]
Current(w) == LET j == wk[w].job IN job[j].status = "running" /\ job[j].attempt = wk[w].attempt

-----------------------------------------------------------------------------
(* The frame store *)

\* record_terminal: a frame ends once, ...
Ending(f, js) == {j \in js : f[j].state # "none" /\ ~Over(f[j])}
EndFrames(f, js, state) ==
    [j \in Jobs |-> IF j \in Ending(f, js) THEN [f[j] EXCEPT !.state = state] ELSE f[j]]

\* The turns reserved for each frame.
ReservedOf(t) == [j \in Jobs |-> t[j].reserved]

(* Mutant: the reservation of an ended frame stays with its root. *)
ReturnedHeld(t, js) ==
    [j \in Jobs |-> IF j \in js THEN [t[j] EXCEPT !.reserved = 0] ELSE t[j]]

\* ... and its reserved turns go back to its root.
Returned(t, js) ==
    [j \in Jobs |->
        [used |-> t[j].used, reserved |-> IF j \in js THEN 0 ELSE t[j].reserved,
         held |-> t[j].held - SumFunctionOnSet(ReservedOf(t), {k \in js : Root(k) = j})]]

\* The frames of jobs end as state, those of their descendants as cancelled.
EndTrees(f, tops, state) ==
    LET kids == UNION {Descendants(j) : j \in tops}
    IN  /\ frame' = EndFrames(EndFrames(f, kids, "cancelled"), tops, state)
        /\ turns' = Returned(turns, Ending(f, tops \cup kids))

\* The rows of a parent's children are deleted.
Forgotten(table, j, none) == [k \in Jobs |-> IF k \in Children(j) THEN none ELSE table[k]]

\* _cancel_descendants: the rows of the children change with the frames.
CancelledJobs(jb, js) ==
    [j \in Jobs |-> IF j \in js /\ jb[j].status \notin Terminal \cup {"none"} /\ frame[j].state # "none"
                    THEN [status |-> "cancelled", attempt |-> jb[j].attempt + 1] ELSE jb[j]]

\* reconcile: a wait is ready when its child's frame has ended.
Ready(j) ==
    /\ wait[j].state \in {"waiting", "ready"}
    /\ wait[j].consumed \/ \E c \in Children(j) : Over(frame[c])

(* Mutant: a child may start while its parent still holds its slot. *)
EligibleEarly(c) == wait[Parent[c]].state = "waiting" /\ Root(c) \notin late

\* eligible: a child starts after the release of its parent was verified.
Eligible(c) ==
    /\ frame[Parent[c]].state = "suspended"
    /\ wait[Parent[c]].state = "waiting" /\ wait[Parent[c]].released
    /\ Root(c) \notin late

\* remaining_turns
Remaining(j) ==
    IF turns[j].reserved > 0 THEN turns[j].reserved
    ELSE TurnLimit - turns[Root(j)].used - turns[Root(j)].held

\* consume_turns: the turn is charged to the frame and to its root; the
\* frame of a job that ended meanwhile is charged without its reservation.
MayCharge(j) ==
    IF Over(frame[j]) THEN TRUE
    ELSE /\ frame[j].state = "running" /\ turns[j].used < TurnLimit
         /\ IF Parent[j] = NoJob
            THEN turns[j].reserved + TurnLimit - turns[j].used - turns[j].held >= 1
            ELSE turns[j].reserved >= 1

Charged(j) ==
    LET own == IF Over(frame[j]) \/ turns[j].reserved = 0 THEN 0 ELSE 1
        t == [turns EXCEPT ![j].used = @ + 1, ![j].reserved = @ - own]
    IN  IF Parent[j] = NoJob THEN [t EXCEPT ![j].held = @ - own]
        ELSE [t EXCEPT ![Root(j)].used = @ + 1, ![Root(j)].held = @ - own]

\* register_wait: one turn is reserved for the parent's return, n for the
\* child.
MayWait(j, n) ==
    LET r == Root(j) IN
    /\ r \notin late /\ ~Over(frame[j]) /\ wait[j].state = "none" /\ ~Deep(j) /\ Children(j) # {}
    /\ TurnLimit - turns[j].used - turns[j].reserved >= 1
    /\ TurnLimit - turns[r].used - turns[r].held + turns[j].reserved >= 1 + n

Registered(j, c, n) ==
    /\ frame' = [frame EXCEPT ![c] = [NoFrame EXCEPT !.state = "queued"], ![j].state = "waiting"]
    /\ turns' = [[turns EXCEPT ![c] = [NoTurns EXCEPT !.reserved = n],
                               ![Root(j)].held = @ + 1 + n - turns[j].reserved]
                    EXCEPT ![j].reserved = 1]

-----------------------------------------------------------------------------
(* Admission and dispatch *)

\* submit: the job and its root frame are inserted together.
Submit(r) ==
    /\ job[r].status = "none" /\ r \notin late
    /\ job' = [job EXCEPT ![r].status = "queued"]
    /\ frame' = [frame EXCEPT ![r] = [NoFrame EXCEPT !.state = "queued"]]
    /\ UNCHANGED <<turns, wait, slot, wk, sessions, orphans, late, removed, veto, stop, owed, faults>>

\* The rows that a claim deletes: leases that ran out, unless the owner lives
\* or its cleanup failed.
Lapsed == {j \in Slots : slot[j].owner = Dead /\ ~slot[j].failed}

Without(gone) == [j \in Jobs |-> IF j \in gone THEN NoSlot ELSE slot[j]]

\* claim: what the loop passes over before it looks at the budget.
Dispatchable(j, held) ==
    /\ Live(j) /\ ~Over(frame[j]) /\ frame[j].state \notin {"none", "waiting"}
    /\ frame[j].state = "suspended" => Ready(j)
    /\ Parent[j] # NoJob /\ frame[j].state = "queued" => Eligible(j)
    /\ ~veto /\ held[j] = NoSlot

Exhausted(j) == Root(j) \in late \/ frame[j].failed >= MaxFailures

Claim(w, j, gone) ==
    LET held == Without(gone) IN
    /\ wk[w].pc = "idle" /\ gone \subseteq Lapsed
    /\ Dispatchable(j, held) /\ ~Exhausted(j)
    /\ Cardinality({k \in Jobs : held[k] # NoSlot}) < Capacity
    /\ job[j].attempt < MaxAttempts
    /\ job' = [job EXCEPT ![j] = [status |-> "running", attempt |-> @.attempt + 1]]
    /\ frame' = [frame EXCEPT ![j].state = "running"]
    /\ wait' = IF Ready(j) THEN [wait EXCEPT ![j].state = "ready"] ELSE wait
    /\ slot' = [held EXCEPT ![j] = [attempt |-> job[j].attempt + 1, owner |-> w, failed |-> FALSE]]
    /\ wk' = [wk EXCEPT ![w] = [Idle EXCEPT !.pc = "claimed", !.job = j, !.attempt = job[j].attempt + 1]]
    /\ UNCHANGED <<turns, sessions, orphans, late, removed, veto, stop, owed, faults>>

\* claim: there may be no job for it, and the rows are deleted all the same.
ClaimNothing(w, gone) ==
    /\ wk[w].pc = "idle" /\ gone \subseteq Lapsed /\ gone # {}
    /\ slot' = Without(gone)
    /\ UNCHANGED <<job, frame, turns, wait, wk, sessions, orphans, late, removed, veto, stop, owed, faults>>

\* claim: a job without deadline or attempts left ends; its frame does not.
ClaimExhausted(w, j) ==
    /\ wk[w].pc = "idle" /\ Dispatchable(j, slot) /\ Exhausted(j)
    /\ job' = [job EXCEPT ![j].status = "ended"]
    /\ wait' = IF Ready(j) THEN [wait EXCEPT ![j].state = "ready"] ELSE wait
    /\ UNCHANGED <<frame, turns, slot, wk, sessions, orphans, late, removed, veto, stop, owed, faults>>

-----------------------------------------------------------------------------
(* Finishing an attempt *)

\* finish: an attempt that was overtaken changes nothing.  An answer that
\* consumed its child's result is acknowledged and ends the frame later; any
\* other end cancels the descendants and ends the frame now.
Finish(w, result) ==
    LET j == wk[w].job
        failures == frame[j].failed + (IF result = "failed" THEN 1 ELSE 0)
        end == result \in {"completed", "ended"} \/ Root(j) \in late \/ failures >= MaxFailures
        status == IF Root(j) \in late \/ (end /\ result # "completed") THEN "ended"
                  ELSE IF end THEN "completed" ELSE "queued"
        ack == result = "completed" /\ wk[w].ready /\ Ready(j) /\ ~wait[j].consumed
        f == [frame EXCEPT ![j].failed = failures]
    IN  IF ~Current(w) THEN UNCHANGED db /\ Step(w, "closing")
        ELSE /\ job' = LET jb == [job EXCEPT ![j].status = status]
                       IN  IF end /\ ~ack THEN CancelledJobs(jb, Descendants(j)) ELSE jb
             /\ IF end /\ ~ack
                THEN EndTrees(f, {j}, IF status = "completed" THEN "completed" ELSE "expired")
                ELSE frame' = f /\ UNCHANGED turns
             /\ wait' = IF ack THEN [wait EXCEPT ![j].ack = TRUE, ![j].state = "ready"] ELSE wait
             /\ Step(w, IF end /\ ~ack /\ Parent[j] # NoJob THEN "waking" ELSE "closing")
             /\ UNCHANGED slot

\* A removed skill, which a private child inherits from its root, fails the
\* job before the block that cleans up: the slot stays.
ExecuteRetired(w) ==
    LET j == wk[w].job IN
    /\ wk[w].pc = "claimed" /\ Root(j) \in removed
    /\ IF Current(w)
       THEN /\ job' = CancelledJobs([job EXCEPT ![j].status = "ended"], Descendants(j))
            /\ EndTrees(frame, {j}, IF Root(j) \in late THEN "expired" ELSE "ended")
       ELSE UNCHANGED <<job, frame, turns>>
    /\ IF Current(w) /\ Parent[j] # NoJob THEN Step(w, "retiring") ELSE wk' = [wk EXCEPT ![w] = Idle]
    /\ UNCHANGED <<wait, slot, sessions, orphans, late, removed, veto, stop, owed, faults>>

-----------------------------------------------------------------------------
(* Executing an attempt *)

\* _dispatch_gate: the attempt is current and nobody vetoed.
Admitted(w) == Current(w) /\ ~veto

\* The runtime is started and the gate read before a session is opened.
ExecuteGate(w) ==
    /\ wk[w].pc = "claimed" /\ Root(wk[w].job) \notin removed
    /\ \/ Admitted(w) /\ Step(w, "gated") /\ UNCHANGED <<db, faults>>
       \/ ~Admitted(w) /\ Finish(w, "failed") /\ UNCHANGED faults
       \/ Fault /\ Finish(w, "failed")
    /\ UNCHANGED <<sessions, orphans, late, removed, veto, stop, owed>>

ExecuteOpen(w) ==
    /\ wk[w].pc = "gated"
    /\ sessions' = sessions \cup {w} /\ Step(w, "open")
    /\ UNCHANGED <<db, orphans, late, removed, veto, stop, owed, faults>>

\* With a session: the deadline, the children's results, the gate again and
\* the turn budget.
ExecutePrepare(w) ==
    LET j == wk[w].job IN
    /\ wk[w].pc = "open"
    /\ CASE Root(j) \in late -> Finish(w, "ended")
         [] Root(j) \notin late /\ ~Admitted(w) -> Finish(w, "failed")
         [] Root(j) \notin late /\ Admitted(w) /\ Remaining(j) <= 0 -> Finish(w, "ended")
         [] OTHER -> /\ wk' = [wk EXCEPT ![w].pc = "admitted",
                                         ![w].ready = Ready(j) /\ ~wait[j].consumed]
                     /\ UNCHANGED db
    /\ UNCHANGED <<sessions, orphans, late, removed, veto, stop, owed, faults>>

\* run_slice: the model is called, for one turn.
ExecuteModel(w) ==
    /\ wk[w].pc = "admitted" /\ Step(w, "thinking")
    /\ UNCHANGED <<db, sessions, orphans, late, removed, veto, stop, owed, faults>>

\* The model answers, and the turn is charged before anything else.
ExecuteCharge(w, answer) ==
    LET j == wk[w].job IN
    /\ wk[w].pc = "thinking"
    /\ IF MayCharge(j)
       THEN /\ turns' = Charged(j) /\ UNCHANGED <<job, frame, wait, slot>>
            /\ wk' = [wk EXCEPT ![w].pc = "charged", ![w].answer = answer]
       ELSE Finish(w, "ended")
    /\ UNCHANGED <<sessions, orphans, late, removed, veto, stop, owed, faults>>

\* The call itself fails, before a turn was counted.
ExecuteFails(w) ==
    /\ wk[w].pc = "thinking" /\ Fault /\ Finish(w, "ended")
    /\ UNCHANGED <<sessions, orphans, late, removed, veto, stop, owed>>

ExecuteFinish(w) ==
    /\ wk[w].pc = "charged" /\ wk[w].answer # "wait"
    /\ Finish(w, wk[w].answer)
    /\ UNCHANGED <<sessions, orphans, late, removed, veto, stop, owed, faults>>

\* _private_wait: the wait, the child's row and its frame are one
\* transaction; a proposal, which asks for one turn or two, that is refused
\* ends the job.
PrivateWait(w) ==
    LET j == wk[w].job IN
    /\ wk[w].pc = "charged" /\ wk[w].answer = "wait"
    /\ \E n \in 1..2 :
          IF Current(w) /\ MayWait(j, n)
          THEN \E c \in Children(j) :
                 /\ job' = [job EXCEPT ![j].status = "queued", ![c].status = "queued"]
                 /\ Registered(j, c, n)
                 /\ wait' = [wait EXCEPT ![j].state = "waiting"]
                 /\ Step(w, "closing") /\ UNCHANGED slot
          ELSE Finish(w, "ended")
    /\ UNCHANGED <<sessions, orphans, late, removed, veto, stop, owed, faults>>

-----------------------------------------------------------------------------
(* Cleaning up *)

\* close_session, or a close that cannot be proved: then the slot stays.
CloseSession(w) ==
    /\ wk[w].pc = "closing" /\ sessions' = sessions \ {w} /\ Step(w, "release")
    /\ UNCHANGED <<db, orphans, late, removed, veto, stop, owed, faults>>

CloseFails(w) ==
    /\ wk[w].pc = "closing" /\ w \in sessions /\ Fault
    /\ LET j == wk[w].job IN
       slot' = IF slot[j].attempt = wk[w].attempt THEN [slot EXCEPT ![j].failed = TRUE] ELSE slot
    /\ wk' = [wk EXCEPT ![w] = Idle]
    /\ sessions' = sessions \ {w} /\ orphans' = orphans \cup {wk[w].job}
    /\ UNCHANGED <<job, frame, turns, wait, late, removed, veto, stop, owed>>

(* Mutant: only the current attempt deletes its slot. *)
ReleaseSlotCurrent(w) ==
    LET j == wk[w].job
        held == [slot EXCEPT ![j] = IF job[j].attempt = wk[w].attempt THEN NoSlot ELSE @]
        freed == frame[j].state = "waiting" /\ held[j] = NoSlot
    IN  /\ wk[w].pc = "release"
        /\ slot' = held
        /\ frame' = IF freed THEN [frame EXCEPT ![j].state = "suspended"] ELSE frame
        /\ wait' = IF freed THEN [wait EXCEPT ![j].released = TRUE] ELSE wait
        /\ wk' = [wk EXCEPT ![w] = Idle]
        /\ UNCHANGED <<job, turns, sessions, orphans, late, removed, veto, stop, owed, faults>>

\* The slot is deleted, and a waiting parent is now known to be released.
ReleaseSlot(w) ==
    LET j == wk[w].job
        held == [slot EXCEPT ![j] = IF @.attempt = wk[w].attempt THEN NoSlot ELSE @]
        freed == frame[j].state = "waiting" /\ held[j] = NoSlot
    IN  /\ wk[w].pc = "release"
        /\ slot' = held
        /\ frame' = IF freed THEN [frame EXCEPT ![j].state = "suspended"] ELSE frame
        /\ wait' = IF freed THEN [wait EXCEPT ![j].released = TRUE] ELSE wait
        /\ wk' = [wk EXCEPT ![w] = Idle]
        /\ UNCHANGED <<job, turns, sessions, orphans, late, removed, veto, stop, owed, faults>>

\* _wake_ready_parents: every parent whose child has ended is queued again.
Woken ==
    /\ job' = [j \in Jobs |-> IF Live(j) /\ Ready(j) THEN [job[j] EXCEPT !.status = "queued"] ELSE job[j]]
    /\ wait' = [j \in Jobs |-> IF Ready(j) THEN [wait[j] EXCEPT !.state = "ready"] ELSE wait[j]]

WakeParents(w) ==
    /\ wk[w].pc = "waking" /\ Woken /\ Step(w, "closing")
    /\ UNCHANGED <<frame, turns, slot, sessions, orphans, late, removed, veto, stop, owed, faults>>

\* The finish of a child whose skill was removed wakes its parent too.
RetiredWakes(w) ==
    /\ wk[w].pc = "retiring" /\ Woken /\ wk' = [wk EXCEPT ![w] = Idle]
    /\ UNCHANGED <<frame, turns, slot, sessions, orphans, late, removed, veto, stop, owed, faults>>

WatchdogWakes ==
    /\ owed /\ owed' = FALSE /\ Woken
    /\ UNCHANGED <<frame, turns, slot, wk, sessions, orphans, late, removed, veto, stop, faults>>

\* _consume_pending_frame_acks, by the watchdog and after every release: an
\* acknowledged result is consumed when parent and child have left their
\* slots.  The frame of a parent that ended ends with it, unless the answer
\* was in time and the deadline has passed since: then it stays running.
ConsumeAck(j) ==
    /\ wait[j].ack /\ wait[j].released /\ ~wait[j].consumed /\ Ready(j) /\ frame[j].state # "none"
    /\ \A k \in {j} \cup Children(j) : slot[k] = NoSlot
    /\ wait' = [wait EXCEPT ![j].ack = FALSE, ![j].consumed = TRUE]
    /\ LET f == Forgotten(frame, j, NoFrame)  t == Forgotten(turns, j, NoTurns)
           ends == IF Live(j) \/ (job[j].status = "completed" /\ Root(j) \in late) THEN {} ELSE {j}
       IN  /\ frame' = EndFrames(f, ends, IF job[j].status = "completed" THEN "completed" ELSE "expired")
           /\ turns' = Returned(t, Ending(f, ends))
    /\ owed' = (owed \/ (~Live(j) /\ Parent[j] # NoJob))
    /\ UNCHANGED <<job, slot, wk, sessions, orphans, late, removed, veto, stop, faults>>

\* retire_wait: the results of a child that nobody will read are discarded.
RetireWait(j) ==
    /\ ~wait[j].ack /\ ~wait[j].consumed /\ wait[j].state \in {"waiting", "ready"}
    /\ job[j].status \in Terminal /\ Over(frame[j])
    /\ \A k \in {j} \cup Children(j) : slot[k] = NoSlot
    /\ \A c \in Children(j) : frame[c].state = "none" \/ Over(frame[c])
    /\ wait' = [wait EXCEPT ![j].state = "retired", ![j].consumed = TRUE]
    /\ frame' = Forgotten(frame, j, NoFrame) /\ turns' = Forgotten(turns, j, NoTurns)
    /\ UNCHANGED <<job, slot, wk, sessions, orphans, late, removed, veto, stop, owed, faults>>

-----------------------------------------------------------------------------
(* Deadlines, cancellation and the operator's stop *)

DeadlinePasses(r) ==
    /\ r \in Roots \ late /\ job[r].status # "none" /\ late' = late \cup {r}
    /\ UNCHANGED <<db, wk, sessions, orphans, removed, veto, stop, owed, faults>>

(* Mutant: only running jobs are ended at their deadline. *)
ExpireRunning(r) ==
    /\ r \in late /\ \E j \in Tree(r) : job[j].status = "running"
    /\ job' = [j \in Jobs |-> IF j \in Tree(r) /\ job[j].status = "running"
                              THEN [status |-> "ended", attempt |-> job[j].attempt + 1] ELSE job[j]]
    /\ UNCHANGED <<frame, turns, wait, slot, wk, sessions, orphans, late, removed, veto, stop, owed, faults>>

\* _expire_deadlines: all jobs of a tree share a deadline; slots are left to
\* the calls that hold them.
Expire(r) ==
    /\ r \in late /\ \E j \in Tree(r) : Live(j)
    /\ job' = [j \in Jobs |-> IF j \in Tree(r) /\ Live(j)
                              THEN [status |-> "ended", attempt |-> job[j].attempt + 1] ELSE job[j]]
    /\ EndTrees(frame, {j \in Tree(r) : Live(j)}, "expired")
    /\ owed' = (owed \/ \E j \in Tree(r) \ {r} : Live(j))
    /\ UNCHANGED <<wait, slot, wk, sessions, orphans, late, removed, veto, stop, faults>>

\* cancel: a root and its descendants.
Cancelled(r) ==
    /\ job' = CancelledJobs([job EXCEPT ![r] = [status |-> "cancelled", attempt |-> @.attempt + 1]],
                            Descendants(r))
    /\ EndTrees(frame, {r}, "cancelled")

Cancel(r) ==
    /\ r \in Roots /\ Live(r) /\ Cancelled(r)
    /\ UNCHANGED <<wait, slot, wk, sessions, orphans, late, removed, veto, stop, owed, faults>>

\* coordinate_demand_stop: the veto is committed before anything else, ...
StopVeto ==
    /\ stop.pc \in {"idle", "released"} /\ veto' = TRUE
    /\ stop' = [pc |-> "cancelling", list |-> {r \in Roots : Live(r)}]
    /\ UNCHANGED <<db, wk, sessions, orphans, late, removed, owed, faults>>

\* ... the roots that were active are cancelled one by one, ...
StopCancel(r) ==
    /\ stop.pc = "cancelling" /\ r \in stop.list
    /\ stop' = [stop EXCEPT !.list = @ \ {r}]
    /\ IF Live(r) THEN Cancelled(r) ELSE UNCHANGED <<job, frame, turns>>
    /\ UNCHANGED <<wait, slot, wk, sessions, orphans, late, removed, veto, owed, faults>>

(* Mutant: only the jobs are looked at. *)
QuietJobs == \A j \in Jobs : ~Live(j)

Quiet == Slots = {} /\ \A j \in Jobs : ~Live(j)

\* ... until no job is active and no slot is held, ...
StopSettled ==
    /\ stop.pc = "cancelling" /\ stop.list = {} /\ Quiet
    /\ stop' = [stop EXCEPT !.pc = "settled"]
    /\ UNCHANGED <<db, wk, sessions, orphans, late, removed, veto, owed, faults>>

\* ... the supervisor reports no session, and the work is read once more.
StopObserved ==
    /\ stop.pc = "settled" /\ sessions = {} /\ orphans = {}
    /\ stop' = [stop EXCEPT !.pc = "observed"]
    /\ UNCHANGED <<db, wk, sessions, orphans, late, removed, veto, owed, faults>>

StopReturns ==
    /\ stop.pc \in {"cancelling", "settled", "observed"} /\ stop.list = {}
    /\ stop' = [stop EXCEPT !.pc = IF @ = "observed" /\ Quiet THEN "released" ELSE "idle"]
    /\ UNCHANGED <<db, wk, sessions, orphans, late, removed, veto, owed, faults>>

\* resume_owned_resources: the operator lifts the veto.
Resume ==
    /\ veto /\ veto' = FALSE
    /\ UNCHANGED <<db, wk, sessions, orphans, late, removed, stop, owed, faults>>

-----------------------------------------------------------------------------
(* The outside *)

\* A process dies: its slots stay, their owner is gone.
Crash(w) ==
    /\ wk[w].pc # "idle" /\ Fault
    /\ slot' = [j \in Jobs |-> IF slot[j].owner = w THEN [slot[j] EXCEPT !.owner = Dead] ELSE slot[j]]
    /\ orphans' = IF w \in sessions THEN orphans \cup {wk[w].job} ELSE orphans
    /\ sessions' = sessions \ {w}
    /\ wk' = [wk EXCEPT ![w] = Idle]
    /\ UNCHANGED <<job, frame, turns, wait, late, removed, veto, stop, owed>>

\* The supervisor takes back the session of a borrower that is gone.
Reclaim(j) ==
    /\ j \in orphans /\ orphans' = orphans \ {j}
    /\ UNCHANGED <<db, wk, sessions, late, removed, veto, stop, owed, faults>>

\* The configuration of the worker loses a skill that jobs were queued for.
RemoveSkill(r) ==
    /\ r \notin removed /\ Fault /\ removed' = removed \cup {r}
    /\ UNCHANGED <<db, wk, sessions, orphans, late, veto, stop, owed>>

Answers == {"completed", "sliced", "failed", "wait"}

WorkerStep(w) ==
    \/ ExecuteRetired(w) \/ ExecuteGate(w) \/ ExecuteOpen(w) \/ ExecutePrepare(w) \/ ExecuteModel(w)
    \/ \E answer \in Answers : ExecuteCharge(w, answer)
    \/ ExecuteFails(w) \/ ExecuteFinish(w) \/ PrivateWait(w)
    \/ WakeParents(w) \/ RetiredWakes(w) \/ CloseSession(w) \/ CloseFails(w) \/ ReleaseSlot(w)

Next ==
    \/ \E w \in Workers :
          \/ WorkerStep(w) \/ Crash(w)
          \/ \E j \in Jobs : ClaimExhausted(w, j)
          \/ \E gone \in SUBSET Lapsed : ClaimNothing(w, gone) \/ \E j \in Jobs : Claim(w, j, gone)
    \/ \E r \in Roots : Submit(r) \/ DeadlinePasses(r) \/ Expire(r) \/ Cancel(r) \/ StopCancel(r)
                          \/ RemoveSkill(r)
    \/ \E j \in Jobs : ConsumeAck(j) \/ RetireWait(j) \/ Reclaim(j)
    \/ WatchdogWakes \/ StopVeto \/ StopSettled \/ StopObserved \/ StopReturns \/ Resume

Spec == Init /\ [][Next]_vars

\* Time passes and the watchdog loops; nothing is assumed of the workers.
FairSpec == Spec /\ \A r \in Roots : WF_vars(DeadlinePasses(r)) /\ WF_vars(Expire(r))

-----------------------------------------------------------------------------
(* Properties *)

Statuses == Terminal \cup {"none", "queued", "running"}
OpenStates == {"queued", "running", "waiting", "suspended"}
WithSession == {"open", "admitted", "thinking", "charged", "waking", "closing"}

JobType == [status : Statuses, attempt : 0..(MaxAttempts + 1)]
FrameType == [state : Terminal \cup OpenStates \cup {"none", "expired"}, failed : 0..MaxFailures]
WaitType == [state : {"none", "waiting", "ready", "retired"}, released : BOOLEAN,
             consumed : BOOLEAN, ack : BOOLEAN]
SlotType == [attempt : 0..MaxAttempts, owner : Workers \cup {Dead}, failed : BOOLEAN]
WorkerType == [pc : WithSession \cup {"idle", "claimed", "gated", "retiring", "release"},
               job : Jobs \cup {NoJob}, attempt : 0..MaxAttempts, ready : BOOLEAN,
               answer : Answers \cup {"none"}]
StopType == [pc : {"idle", "cancelling", "settled", "observed", "released"}, list : SUBSET Roots]

\* Types: rows of the database, workers, the operator's stop.
TypeOK ==
    /\ job \in [Jobs -> JobType] /\ frame \in [Jobs -> FrameType] /\ wait \in [Jobs -> WaitType]
    /\ slot \in [Jobs -> SlotType] /\ wk \in [Workers -> WorkerType] /\ stop \in StopType
    /\ sessions \subseteq Workers /\ orphans \subseteq Jobs /\ late \subseteq Roots /\ removed \subseteq Roots
    /\ veto \in BOOLEAN /\ owed \in BOOLEAN /\ faults \in 0..MaxFaults

\* The turns of a root: what its frames hold in reserve is what the root has
\* set aside, and used and reserved turns never exceed the limit, although
\* frames end while a turn of theirs is still being counted.
TurnBudget ==
    /\ turns \in [Jobs -> [used : 0..TurnLimit, reserved : 0..TurnLimit, held : 0..TurnLimit]]
    /\ \A r \in Roots :
          /\ turns[r].held = SumFunctionOnSet(ReservedOf(turns), Tree(r))
          /\ turns[r].used + turns[r].held <= TurnLimit

\* One worker per job and one slot per worker: every live worker past its
\* claim has the slot of its own attempt, so no job is executed twice and
\* sessions stay within the slots.
SlotPerWorker ==
    \A w \in Workers :
       wk[w].pc # "idle" => /\ slot[wk[w].job].owner = w
                           /\ slot[wk[w].job].attempt = wk[w].attempt

\* A child never works while its parent occupies a slot: the parent's release
\* comes first.
ParentReleasedFirst ==
    \A c \in Jobs \ Roots : job[c].status = "running" => slot[Parent[c]] = NoSlot

\* A slot of a living process is one that a call is using or whose cleanup
\* failed: slots are occupied until the call returns and no longer.  The jobs
\* of a removed skill, a root and its private children, are the exception:
\* _execute returns before the block that releases their slot.
SlotsAccounted ==
    \A j \in Slots :
       slot[j].owner \in Workers /\ ~slot[j].failed /\ Root(j) \notin removed =>
          \E w \in Workers : wk[w].job = j /\ wk[w].attempt = slot[j].attempt

\* Every slot has one worker or is about to be given back, and no other
\* worker executes its job.
SlotInv == TypeOK /\ SlotPerWorker /\ SlotsAccounted

\* What the operator is told: after a stop that reports a release no session
\* is open until the veto is lifted.
StoppedIsReleased == stop.pc = "released" /\ veto => sessions = {} /\ Slots = {}

\* A worker at work has a job, a resting one has none, only a worker at work
\* has a session, and one that leaves its slot behind lost its skill.
WorkersNamed ==
    /\ \A w \in Workers : wk[w].job \in Jobs <=> wk[w].pc # "idle"
    /\ \A w \in Workers : wk[w].pc = "retiring" => Root(wk[w].job) \in removed
    /\ \A w \in sessions : wk[w].pc \in WithSession

\* What the row of a job says about its frame, its wait and its slot.
RowAgrees(j) ==
    /\ Live(j) => frame[j].state \in OpenStates /\ job[j].attempt <= MaxAttempts
    /\ job[j].status = "running" => frame[j].state = "running" /\ frame[j].failed < MaxFailures
    /\ job[j].status = "none" => job[j].attempt = 0 /\ frame[j] = NoFrame /\ wait[j].state = "none"
    /\ wait[j].state = "none" => ~wait[j].consumed /\ ~wait[j].ack
    /\ wait[j].ack => ~Live(j)
    /\ frame[j].state = "suspended" => slot[j] = NoSlot

\* A parent has at most one child; while the child's frame is open the
\* parent waits for it, and once the child has begun the parent is suspended.
TakesTurns(p, c) ==
    /\ wait[p].state = "none" => job[c].status = "none"
    /\ frame[c].state \in OpenStates =>
          /\ frame[p].state \in {"waiting", "suspended"}
          /\ wait[p].state = "waiting" /\ ~wait[p].consumed
    /\ frame[c].state \in OpenStates \ {"queued"} => frame[p].state = "suspended"
    /\ \A d \in Children(p) \ {c} : job[c].status = "none" \/ job[d].status = "none"

RowsAgree == \A j \in Jobs : RowAgrees(j)
FamiliesTakeTurns == \A p \in Jobs : \A c \in Children(p) : TakesTurns(p, c)

\* Once the stop has seen the slots empty, the veto keeps them empty.
StopKeepsSlots == veto /\ stop.pc \in {"settled", "observed", "released"} => Slots = {}

\* The inductive invariant.
IInv ==
    /\ TypeOK /\ WorkersNamed /\ SlotPerWorker /\ SlotsAccounted
    /\ RowsAgree /\ FamiliesTakeTurns /\ StopKeepsSlots

\* The turns need more.  A worker that was admitted to the model works on a
\* running frame, or on one that ended together with its whole tree, ...
AtTurn(w) == wk[w].pc \in {"admitted", "thinking", "charged"}

TurnIsRunning ==
    \A w \in Workers : AtTurn(w) =>
       LET j == wk[w].job IN
       \/ Live(j) /\ frame[j].state = "running"
       \/ Over(frame[j]) /\ \A k \in Jobs : Root(k) = Root(j) => ~Live(k)

\* ... no two workers are at a turn in one tree, ...
OneTurnPerTree ==
    \A v, w \in Workers :
       AtTurn(v) /\ AtTurn(w) /\ v # w => Root(wk[v].job) # Root(wk[w].job)

\* ... the turn that a worker was admitted for is still there when it is
\* charged, ...
TurnIsLeft ==
    \A w \in Workers : wk[w].pc \in {"admitted", "thinking"} =>
       LET j == wk[w].job  r == Root(j) IN
       turns[j].reserved > 0 \/ turns[r].used + turns[r].held < TurnLimit

\* ... and a frame that is not open has no turn in reserve, nor used more
\* than its root.
TurnsAgree ==
    \A j \in Jobs :
       /\ frame[j].state = "none" \/ Over(frame[j]) => turns[j].reserved = 0
       /\ turns[j].used <= turns[Root(j)].used

TurnsIInv == TurnBudget /\ TurnIsRunning /\ OneTurnPerTree /\ TurnIsLeft /\ TurnsAgree

\* A job that has ended never changes again: late answers, wakes, expiry and
\* cancellation leave it alone.
EndIsFinal ==
    [][\A j \in Jobs : job[j].status \in Terminal => job'[j].status = job[j].status]_vars

\* Every tree of jobs ends as a whole and for good, although workers hang,
\* processes die and children are proposed on the way.
JobsEnd ==
    /\ EndIsFinal
    /\ \A r \in Roots : (\E j \in Tree(r) : Live(j)) ~> (\A j \in Tree(r) : ~Live(j))

-----------------------------------------------------------------------------
(* What the code intends and does not do: both are violated.               *)

\* The answer of a worker whose attempt is current and that holds its slot is
\* committed.
AnswerCommitted ==
    [][\A w \in Workers :
          wk[w].pc = "charged" /\ wk'[w].pc \in {"closing", "waking"} /\ wk[w].answer = "completed"
          /\ job[wk[w].job].attempt = wk[w].attempt
             => job'[wk[w].job].status \in Terminal]_vars

\* The model is not called after the veto.
VetoStopsModel ==
    [][\A w \in Workers : wk[w].pc = "admitted" /\ wk'[w].pc = "thinking" => ~veto]_vars
=============================================================================
