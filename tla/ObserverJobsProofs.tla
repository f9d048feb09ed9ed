------------------------- MODULE ObserverJobsProofs -------------------------
(***************************************************************************)
(* Proofs about ObserverJobs: the inductive invariant of the job service,  *)
(* for any number of workers, any forest of jobs and any limits.  Its two  *)
(* halves are kept apart: RowsInv is about the database (jobs, frames,     *)
(* waits and slots), WorkersInv about the workers and the slots they hold. *)
(***************************************************************************)
EXTENDS ObserverJobs, SumTheorems, TLAPS

RowsInv ==
    /\ job \in [Jobs -> JobType] /\ frame \in [Jobs -> FrameType]
    /\ wait \in [Jobs -> WaitType] /\ slot \in [Jobs -> SlotType]
    /\ RowsAgree /\ FamiliesTakeTurns

WorkersInv ==
    /\ slot \in [Jobs -> SlotType] /\ wk \in [Workers -> WorkerType] /\ sessions \subseteq Workers
    /\ WorkersNamed /\ SlotPerWorker /\ SlotsAccounted /\ StopKeepsSlots

RestOK ==
    /\ stop \in StopType /\ orphans \subseteq Jobs /\ late \subseteq Roots /\ removed \subseteq Roots
    /\ veto \in BOOLEAN /\ owed \in BOOLEAN /\ faults \in 0..MaxFaults

LEMMA Halves == IInv <=> RowsInv /\ WorkersInv /\ RestOK
  BY DEF IInv, RowsInv, WorkersInv, RestOK, TypeOK

LEMMA HalvesPrime == IInv' <=> RowsInv' /\ WorkersInv' /\ RestOK'
  BY Halves, PTL

LEMMA NoSlotType == NoSlot \in SlotType /\ Idle \in WorkerType /\ Idle.job = NoJob /\ Idle.pc = "idle"
  BY ObserverAssumption DEF NoSlot, SlotType, Idle, WorkerType

-----------------------------------------------------------------------------
(* Facts about families *)

\* A set of jobs with all their descendants is closed under children.
LEMMA Descent ==
    ASSUME NEW tops \in SUBSET Jobs, NEW p \in tops \cup UNION {Descendants(j) : j \in tops},
           NEW c \in Children(p)
    PROVE  c \in UNION {Descendants(j) : j \in tops} /\ p \in Jobs /\ c \in Jobs
<1>0. c \in Jobs /\ Parent[c] = p
  BY DEF Children
<1>1. CASE p \in tops
  BY <1>0, <1>1 DEF Descendants
<1>2. ASSUME NEW t \in tops, p \in Descendants(t) PROVE c \in Descendants(t) /\ p \in Jobs
  <2>1. CASE p \in Children(t)
    BY <2>1 DEF Descendants, Children
  <2>2. ASSUME NEW m \in Children(t), p \in Children(m) PROVE FALSE
    <3>1. /\ p \in Jobs /\ m \in Jobs /\ t \in Jobs /\ Parent[c] = p /\ Parent[p] = m /\ Parent[m] = t
      BY <1>0, <2>2 DEF Children
    <3>2. Root(c) = m
      BY <3>1, ObserverAssumption DEF Root, Up
    <3>3. Root(c) \in Roots
      BY <1>0, DepthAssumption
    <3> QED
      BY <3>1, <3>2, <3>3, ObserverAssumption DEF Roots
  <2> QED
    BY <1>2, <2>1, <2>2 DEF Descendants
<1> QED
  BY <1>0, <1>1, <1>2

\* A parent that is ready has no child at work.
LEMMA ReadyHasNoChild ==
    ASSUME RowsInv, NEW p \in Jobs, Ready(p), NEW c \in Children(p)
    PROVE  frame[c].state \notin OpenStates
<1> SUFFICES ASSUME frame[c].state \in OpenStates PROVE FALSE
  OBVIOUS
<1>1. TakesTurns(p, c) /\ RowAgrees(c) /\ c \in Jobs
  BY DEF RowsInv, RowsAgree, FamiliesTakeTurns, Children
<1>2. ~wait[p].consumed
  BY <1>1 DEF TakesTurns
<1>3. PICK d \in Children(p) : Over(frame[d])
  BY <1>2 DEF Ready
<1>4. d # c /\ d \in Jobs /\ RowAgrees(d)
  BY <1>3 DEF Over, OpenStates, Children, RowsInv, RowsAgree
<1>5. job[c].status # "none" /\ job[d].status # "none"
  BY <1>1, <1>3, <1>4 DEF RowAgrees, NoFrame, Over, OpenStates
<1> QED
  BY <1>1, <1>4, <1>5 DEF TakesTurns
-----------------------------------------------------------------------------
(* The rows: what a step may do to jobs, frames and waits *)

\* Only slots change, and none is taken by a suspended job.
LEMMA RowsKept ==
    ASSUME RowsInv, UNCHANGED <<job, frame, wait>>, slot' \in [Jobs -> SlotType],
           \A j \in Jobs : frame[j].state = "suspended" => slot'[j] = NoSlot
    PROVE  RowsInv'
  BY DEF RowsInv, RowsAgree, FamiliesTakeTurns, RowAgrees, TakesTurns, Live

\* What the end of some trees does to the frames.
LEMMA EndedFrames ==
    ASSUME NEW f \in [Jobs -> FrameType], NEW tops \in SUBSET Jobs,
           NEW state \in Terminal \cup {"expired"}, EndTrees(f, tops, state)
    PROVE  LET all == tops \cup UNION {Descendants(j) : j \in tops} IN
           /\ frame' \in [Jobs -> FrameType]
           /\ \A j \in Jobs \ all : frame'[j] = f[j]
           /\ \A j \in Jobs : f[j].state = "none" => frame'[j] = f[j]
           /\ \A j \in Jobs : j \in all => frame'[j].state \notin OpenStates
<1> DEFINE kids == UNION {Descendants(j) : j \in tops}
           g == EndFrames(f, kids, "cancelled")
<1>1. /\ g \in [Jobs -> FrameType]
      /\ \A j \in Jobs \ kids : g[j] = f[j]
      /\ \A j \in Jobs : f[j].state = "none" => g[j] = f[j]
      /\ \A j \in Jobs : j \in kids => g[j].state \notin OpenStates
  <2>1. \A j \in Jobs : /\ g[j] = IF j \in Ending(f, kids) THEN [f[j] EXCEPT !.state = "cancelled"] ELSE f[j]
                        /\ f[j] \in FrameType
    BY DEF EndFrames
  <2>2. \A j \in Jobs : g[j] \in FrameType
    BY <2>1 DEF FrameType, Terminal
  <2>3. \A j \in Jobs : j \in kids => g[j].state \notin OpenStates
    BY <2>1 DEF Ending, Over, FrameType, Terminal, OpenStates
  <2> QED
    BY <2>1, <2>2, <2>3 DEF EndFrames, Ending
<1>2. frame' = EndFrames(g, tops, state)
  BY DEF EndTrees
<1> HIDE DEF g, kids
<1>3. \A j \in Jobs : /\ frame'[j] = IF j \in Ending(g, tops) THEN [g[j] EXCEPT !.state = state] ELSE g[j]
                      /\ g[j] \in FrameType
  BY <1>1, <1>2 DEF EndFrames
<1>4. \A j \in Jobs : frame'[j] \in FrameType
  BY <1>3 DEF FrameType, Terminal
<1>5. \A j \in Jobs : j \in tops => frame'[j].state \notin OpenStates
  BY <1>3 DEF Ending, Over, FrameType, Terminal, OpenStates
<1>6. \A j \in Jobs : j \notin tops \/ g[j].state = "none" => frame'[j] = g[j]
  BY <1>3 DEF Ending
<1>7. frame' \in [Jobs -> FrameType]
  BY <1>2, <1>4 DEF EndFrames
<1> QED
  BY <1>1, <1>5, <1>6, <1>7 DEF kids

\* Trees end together with the rows of their jobs.
LEMMA TreesEnd ==
    ASSUME RowsInv, UNCHANGED <<wait, slot>>, job' \in [Jobs -> JobType],
           NEW f \in [Jobs -> FrameType], NEW tops \in SUBSET Jobs,
           NEW state \in Terminal \cup {"expired"}, EndTrees(f, tops, state),
           \A j \in Jobs \ tops : f[j] = frame[j],
           \A j \in tops : job[j].status # "none" /\ ~Live(j)',
           \A k \in UNION {Descendants(j) : j \in tops} : k \in Jobs => ~Live(k)',
           \A j \in Jobs : job'[j] = job[j] \/ (job[j].status # "none" /\ job'[j].status \in Terminal)
    PROVE  RowsInv'
<1> DEFINE all == tops \cup UNION {Descendants(j) : j \in tops}
<1>1. /\ frame' \in [Jobs -> FrameType]
      /\ \A j \in Jobs \ all : frame'[j] = f[j]
      /\ \A j \in Jobs : f[j].state = "none" => frame'[j] = f[j]
      /\ \A j \in Jobs : j \in all => frame'[j].state \notin OpenStates
  BY EndedFrames
<1>2. \A p \in Jobs : \A c \in Children(p) : p \in all => c \in all
  BY Descent
<1>3. \A j \in Jobs : j \in all => ~Live(j)'
  OBVIOUS
<1>4. tops \subseteq all
  OBVIOUS
<1> HIDE DEF all
<1>5. ASSUME NEW j \in Jobs PROVE RowAgrees(j)'
  <2>1. RowAgrees(j) /\ (job'[j] = job[j] \/ (job[j].status # "none" /\ job'[j].status \in Terminal))
    BY DEF RowsInv, RowsAgree
  <2>2. CASE j \in all
    <3>1. ~Live(j)' /\ frame'[j].state \notin OpenStates
      BY <1>1, <1>3, <2>2
    <3>2. job'[j].status # "running" /\ frame'[j].state # "suspended"
      BY <3>1 DEF Live, Terminal, OpenStates
    <3>3. job'[j].status = "none" => job'[j].attempt = 0 /\ frame'[j] = NoFrame /\ wait'[j].state = "none"
      <4>1. SUFFICES ASSUME job'[j].status = "none"
                     PROVE  job'[j].attempt = 0 /\ frame'[j] = NoFrame /\ wait'[j].state = "none"
        OBVIOUS
      <4>2. job[j].status = "none" /\ job'[j] = job[j] /\ j \notin tops
        BY <2>1, <4>1 DEF Terminal
      <4>3. job[j].attempt = 0 /\ f[j] = NoFrame /\ wait[j].state = "none"
        BY <2>1, <4>2 DEF RowAgrees
      <4> QED
        BY <1>1, <4>2, <4>3 DEF NoFrame
    <3> QED
      BY <2>1, <3>1, <3>2, <3>3 DEF RowAgrees
  <2>3. CASE j \notin all
    <3>1. frame'[j] = frame[j]
      BY <1>1, <1>4, <2>3
    <3> QED
      BY <2>1, <3>1 DEF RowAgrees, Live, Terminal
  <2> QED
    BY <2>2, <2>3
<1>6. ASSUME NEW p \in Jobs, NEW c \in Children(p) PROVE TakesTurns(p, c)'
  <2>1. TakesTurns(p, c) /\ c \in Jobs
    BY DEF RowsInv, FamiliesTakeTurns, Children
  <2>2. \A d \in Jobs : job[d].status = "none" => job'[d].status = "none"
    BY DEF Terminal
  <2>3. frame'[c].state \in OpenStates => frame'[c] = frame[c] /\ frame'[p] = frame[p]
    BY <1>1, <1>2, <1>4, <2>1
  <2> QED
    BY <2>1, <2>2, <2>3 DEF TakesTurns, Children
<1> QED
  BY <1>1, <1>5, <1>6 DEF RowsInv, RowsAgree, FamiliesTakeTurns
\* _cancel_descendants: the rows of the jobs js end, and no other row changes.
LEMMA CancelledRows ==
    ASSUME RowsInv, NEW jb \in [Jobs -> JobType], NEW js,
           \A j \in Jobs : jb[j] = job[j] \/ (job[j].status # "none" /\ jb[j].status \in Terminal)
    PROVE  /\ CancelledJobs(jb, js) \in [Jobs -> JobType]
           /\ \A j \in Jobs : \/ CancelledJobs(jb, js)[j] = job[j]
                              \/ /\ job[j].status # "none"
                                 /\ CancelledJobs(jb, js)[j].status \in Terminal
           /\ \A j \in Jobs : j \in js => CancelledJobs(jb, js)[j].status \in Terminal \cup {"none"}
           /\ \A j \in Jobs : jb[j].status \in Terminal => CancelledJobs(jb, js)[j] = jb[j]
<1> DEFINE r == CancelledJobs(jb, js)
<1>1. ASSUME NEW j \in Jobs
      PROVE  /\ r[j] \in JobType
             /\ r[j] = job[j] \/ (job[j].status # "none" /\ r[j].status \in Terminal)
             /\ j \in js => r[j].status \in Terminal \cup {"none"}
             /\ jb[j].status \in Terminal => r[j] = jb[j]
  <2>1. r[j] = IF j \in js /\ jb[j].status \notin Terminal \cup {"none"} /\ frame[j].state # "none"
               THEN [status |-> "cancelled", attempt |-> jb[j].attempt + 1] ELSE jb[j]
    BY DEF CancelledJobs
  <2>2. RowAgrees(j) /\ jb[j] \in JobType
    BY DEF RowsInv, RowsAgree
  <2>3. CASE jb[j].status \in Terminal \cup {"none"}
    BY <2>1, <2>2, <2>3 DEF Terminal
  <2>4. CASE jb[j].status \notin Terminal \cup {"none"}
    <3>1. jb[j] = job[j] /\ Live(j)
      BY <2>4 DEF Live, Terminal
    <3>2. frame[j].state # "none" /\ jb[j].attempt <= MaxAttempts
      BY <2>2, <3>1 DEF RowAgrees, OpenStates
    <3>3. jb[j].attempt + 1 \in 0..(MaxAttempts + 1)
      <4>1. jb[j].attempt \in 0..(MaxAttempts + 1) /\ MaxAttempts \in Nat
        BY <2>2, ObserverAssumption DEF JobType
      <4> QED
        BY <3>2, <4>1
    <3>4. [status |-> "cancelled", attempt |-> jb[j].attempt + 1] \in JobType
      BY <3>3 DEF JobType, Statuses, Terminal
    <3> QED
      BY <2>1, <2>2, <2>4, <3>1, <3>2, <3>4 DEF Terminal
  <2> QED
    BY <2>3, <2>4
<1>2. r = [j \in Jobs |-> r[j]]
  BY DEF CancelledJobs
<1> HIDE DEF r
<1>3. r \in [Jobs -> JobType]
  BY <1>1, <1>2
<1> QED
  BY <1>1, <1>3 DEF r

\* One job and its descendants end.
LEMMA TreeEnds ==
    ASSUME RowsInv, UNCHANGED <<wait, slot>>, NEW j \in Jobs, NEW f \in [Jobs -> FrameType],
           NEW jb \in [Jobs -> JobType], NEW state \in Terminal \cup {"expired"},
           job[j].status # "none", jb[j].status \in Terminal,
           \A k \in Jobs \ {j} : f[k] = frame[k] /\ jb[k] = job[k],
           job' = CancelledJobs(jb, Descendants(j)), EndTrees(f, {j}, state)
    PROVE  RowsInv'
<1>1. \A k \in Jobs : jb[k] = job[k] \/ (job[k].status # "none" /\ jb[k].status \in Terminal)
  OBVIOUS
<1>2. /\ job' \in [Jobs -> JobType]
      /\ \A k \in Jobs : job'[k] = job[k] \/ (job[k].status # "none" /\ job'[k].status \in Terminal)
      /\ \A k \in Jobs : k \in Descendants(j) => job'[k].status \in Terminal \cup {"none"}
      /\ job'[j] = jb[j]
  BY <1>1, CancelledRows
<1>3. UNION {Descendants(k) : k \in {j}} = Descendants(j)
  OBVIOUS
<1>4. ~Live(j)' /\ \A k \in Descendants(j) : k \in Jobs => ~Live(k)'
  BY <1>2 DEF Live
<1>5. {j} \in SUBSET Jobs /\ \A k \in Jobs \ {j} : f[k] = frame[k]
  OBVIOUS
<1> QED
  BY <1>2, <1>3, <1>4, <1>5, TreesEnd

LEMMA CancelledStep ==
    ASSUME RowsInv, UNCHANGED <<wait, slot>>, NEW r \in Jobs, Live(r), Cancelled(r)
    PROVE  RowsInv'
<1> DEFINE jb == [job EXCEPT ![r] = [status |-> "cancelled", attempt |-> job[r].attempt + 1]]
<1>1. job[r] \in JobType /\ job[r].attempt <= MaxAttempts /\ MaxAttempts \in Nat
  BY ObserverAssumption DEF RowsInv, RowsAgree, RowAgrees
<1>2. job[r].attempt \in 0..(MaxAttempts + 1)
  BY <1>1 DEF JobType
<1>3. job[r].attempt + 1 \in 0..(MaxAttempts + 1)
  BY <1>1, <1>2
<1>4. [status |-> "cancelled", attempt |-> job[r].attempt + 1] \in JobType
  BY <1>3 DEF JobType, Statuses, Terminal
<1>5. jb \in [Jobs -> JobType] /\ jb[r].status \in Terminal /\ \A k \in Jobs \ {r} : jb[k] = job[k]
  BY <1>4 DEF RowsInv, Terminal
<1>6. job' = CancelledJobs(jb, Descendants(r)) /\ EndTrees(frame, {r}, "cancelled")
  BY DEF Cancelled
<1>7. job[r].status # "none" /\ frame \in [Jobs -> FrameType] /\ "cancelled" \in Terminal \cup {"expired"}
  BY DEF Live, RowsInv, Terminal
<1> HIDE DEF jb
<1> QED
  BY <1>5, <1>6, <1>7, TreeEnds
\* Jobs change their status, frames keep their state, and only a wait that is
\* ready is marked.
LEMMA RowsMove ==
    ASSUME RowsInv, UNCHANGED slot, job' \in [Jobs -> JobType], frame' \in [Jobs -> FrameType],
           wait' \in [Jobs -> WaitType],
           \A j \in Jobs :
              /\ frame'[j].state = frame[j].state
              /\ \/ job'[j] = job[j] /\ frame'[j] = frame[j]
                 \/ /\ job[j].status # "none" /\ job'[j].status \notin {"none", "running"}
                    /\ Live(j)' => Live(j) /\ job'[j].attempt = job[j].attempt
              /\ wait'[j] = wait[j] \/ (Ready(j) /\ wait'[j].state = "ready")
              /\ wait'[j].ack => wait[j].ack \/ ~Live(j)'
    PROVE  RowsInv'
<1>1. ASSUME NEW j \in Jobs PROVE RowAgrees(j)'
  <2>1. /\ RowAgrees(j) /\ (wait[j].state = "none" \/ wait'[j].state = "none" => wait'[j] = wait[j])
        /\ wait'[j].ack => wait[j].ack \/ ~Live(j)'
    BY DEF RowsInv, RowsAgree, Ready
  <2>2. /\ frame'[j].state = frame[j].state
        /\ \/ job'[j] = job[j] /\ frame'[j] = frame[j]
           \/ /\ job[j].status # "none" /\ job'[j].status \notin {"none", "running"}
              /\ Live(j)' => Live(j) /\ job'[j].attempt = job[j].attempt
    OBVIOUS
  <2>3. CASE job'[j] = job[j] /\ frame'[j] = frame[j]
    BY <2>1, <2>3 DEF RowAgrees, Live
  <2>4. CASE ~(job'[j] = job[j] /\ frame'[j] = frame[j])
    BY <2>1, <2>2, <2>4 DEF RowAgrees
  <2> QED
    BY <2>3, <2>4
<1>2. ASSUME NEW p \in Jobs, NEW c \in Children(p) PROVE TakesTurns(p, c)'
  <2>1. TakesTurns(p, c) /\ c \in Jobs
    BY DEF RowsInv, FamiliesTakeTurns, Children
  <2>2. frame[c].state \in OpenStates => wait'[p] = wait[p]
    BY ReadyHasNoChild
  <2>3. wait'[p].state = "none" => wait[p].state = "none"
    OBVIOUS
  <2>4. \A d \in Jobs : job[d].status = "none" => job'[d].status = "none"
    OBVIOUS
  <2>5. frame'[c].state = frame[c].state /\ frame'[p].state = frame[p].state
    BY <2>1
  <2> QED
    BY <2>1, <2>2, <2>3, <2>4, <2>5 DEF TakesTurns, Children
<1> QED
  BY <1>1, <1>2 DEF RowsInv, RowsAgree, FamiliesTakeTurns

\* finish, whatever its outcome.
LEMMA FinishStep ==
    ASSUME RowsInv, NEW w \in Workers, wk \in [Workers -> WorkerType], wk[w].job \in Jobs,
           NEW result, Finish(w, result)
    PROVE  /\ RowsInv' /\ UNCHANGED slot
           /\ \E pc \in {"closing", "waking"} : Step(w, pc)
<1> DEFINE j == wk[w].job
           failures == frame[j].failed + (IF result = "failed" THEN 1 ELSE 0)
           end == result \in {"completed", "ended"} \/ Root(j) \in late \/ failures >= MaxFailures
           status == IF Root(j) \in late \/ (end /\ result # "completed") THEN "ended"
                     ELSE IF end THEN "completed"
                     ELSE "queued"
           ack == result = "completed" /\ wk[w].ready /\ Ready(j) /\ ~wait[j].consumed
           f == [frame EXCEPT ![j].failed = failures]
           jb == [job EXCEPT ![j].status = status]
<1>1. CASE ~Current(w)
  <2>1. UNCHANGED db /\ Step(w, "closing")
    BY <1>1 DEF Finish
  <2> QED
    BY <2>1, RowsKept DEF db, RowsInv, RowsAgree, RowAgrees
<1>2. CASE Current(w)
  <2>1. /\ job' = IF end /\ ~ack THEN CancelledJobs(jb, Descendants(j)) ELSE jb
        /\ IF end /\ ~ack
           THEN EndTrees(f, {j}, IF status = "completed" THEN "completed" ELSE "expired")
           ELSE frame' = f /\ UNCHANGED turns
        /\ wait' = IF ack THEN [wait EXCEPT ![j].ack = TRUE, ![j].state = "ready"] ELSE wait
        /\ Step(w, IF end /\ ~ack /\ Parent[j] # NoJob THEN "waking" ELSE "closing")
        /\ UNCHANGED slot
    BY <1>2 DEF Finish
  <2>2. /\ j \in Jobs /\ job[j].status = "running" /\ frame[j].state = "running"
        /\ frame[j].failed < MaxFailures /\ frame[j] \in FrameType /\ job[j] \in JobType
    BY <1>2 DEF Current, RowsInv, RowsAgree, RowAgrees
  <2>3. failures \in 0..MaxFailures
    BY <2>2, ObserverAssumption DEF FrameType
  <2>4. /\ status \in Statuses \ {"none", "running"}
        /\ end => status \in Terminal
    BY DEF Statuses, Terminal
  <2> HIDE DEF failures, status, end, ack
  <2>5. f \in [Jobs -> FrameType] /\ f[j].state = frame[j].state /\ \A k \in Jobs \ {j} : f[k] = frame[k]
    <3>1. [frame[j] EXCEPT !.failed = failures] \in FrameType
      BY <2>2, <2>3 DEF FrameType
    <3> QED
      BY <2>2, <3>1 DEF RowsInv, FrameType
  <2>6. /\ jb \in [Jobs -> JobType] /\ jb[j].status = status /\ jb[j].attempt = job[j].attempt
        /\ \A k \in Jobs \ {j} : jb[k] = job[k]
    <3>1. [job[j] EXCEPT !.status = status] \in JobType
      BY <2>2, <2>4 DEF JobType
    <3> QED
      BY <2>2, <3>1 DEF RowsInv, JobType
  <2> HIDE DEF f, jb
  <2>7. CASE end /\ ~ack
    <3>1. UNCHANGED <<wait, slot>> /\ (IF status = "completed" THEN "completed" ELSE "expired") \in Terminal \cup {"expired"}
      BY <2>1, <2>7 DEF Terminal
    <3>2. RowsInv'
      BY <2>1, <2>2, <2>4, <2>5, <2>6, <2>7, <3>1, TreeEnds
    <3> QED
      BY <2>1, <3>2
  <2>8. CASE ~(end /\ ~ack)
    <3>1. job' = jb /\ frame' = f
      BY <2>1, <2>8
    <3>2. /\ wait' \in [Jobs -> WaitType]
          /\ \A k \in Jobs : wait'[k] = wait[k] \/ (Ready(k) /\ wait'[k].state = "ready")
          /\ \A k \in Jobs : wait'[k].ack => wait[k].ack \/ (k = j /\ ack)
      <4>1. wait \in [Jobs -> WaitType] /\ wait[j] \in WaitType
        BY <2>2 DEF RowsInv
      <4>2. [wait[j] EXCEPT !.ack = TRUE, !.state = "ready"] \in WaitType
        BY <4>1 DEF WaitType
      <4>3. ack => Ready(j)
        BY DEF ack
      <4> QED
        BY <2>1, <2>2, <4>1, <4>2, <4>3 DEF WaitType
    <3>3. ASSUME NEW k \in Jobs
          PROVE  /\ frame'[k].state = frame[k].state
                 /\ \/ job'[k] = job[k] /\ frame'[k] = frame[k]
                    \/ /\ job[k].status # "none" /\ job'[k].status \notin {"none", "running"}
                       /\ Live(k)' => Live(k) /\ job'[k].attempt = job[k].attempt
                 /\ wait'[k].ack => wait[k].ack \/ ~Live(k)'
      <4>1. ack => end
        BY DEF ack, end
      <4> QED
        BY <2>2, <2>4, <2>5, <2>6, <3>1, <3>2, <4>1 DEF Live, Terminal
    <3>4. RowsInv'
      BY <2>1, <2>5, <2>6, <3>1, <3>2, <3>3, RowsMove
    <3> QED
      BY <2>1, <3>4
  <2> QED
    BY <2>7, <2>8
<1> QED
  BY <1>1, <1>2
\* _execute of a removed skill.
LEMMA RetiredRows ==
    ASSUME RowsInv, NEW w \in Workers, wk[w].job \in Jobs, ExecuteRetired(w)
    PROVE  RowsInv'
<1> DEFINE j == wk[w].job
           jb == [job EXCEPT ![j].status = "ended"]
           state == IF Root(j) \in late THEN "expired" ELSE "ended"
<1>0. UNCHANGED <<wait, slot>>
  BY DEF ExecuteRetired
<1>1. CASE Current(w)
  <2>1. /\ job' = CancelledJobs(jb, Descendants(j)) /\ EndTrees(frame, {j}, state)
        /\ state \in Terminal \cup {"expired"}
    BY <1>1 DEF ExecuteRetired, Terminal
  <2>2. j \in Jobs /\ job[j].status = "running" /\ job[j] \in JobType /\ job \in [Jobs -> JobType]
        /\ frame \in [Jobs -> FrameType] /\ "ended" \in Terminal
    BY <1>1 DEF Current, RowsInv, Terminal
  <2>3. [job[j] EXCEPT !.status = "ended"] \in JobType
    BY <2>2 DEF JobType, Statuses
  <2>4. jb \in [Jobs -> JobType] /\ jb[j].status = "ended" /\ \A k \in Jobs \ {j} : jb[k] = job[k]
    BY <2>2, <2>3 DEF JobType
  <2> HIDE DEF jb, state
  <2> QED
    BY <1>0, <2>1, <2>2, <2>4, TreeEnds
<1>2. CASE ~Current(w)
  BY <1>0, <1>2, RowsKept DEF ExecuteRetired, RowsInv, RowsAgree, RowAgrees
<1> QED
  BY <1>1, <1>2

\* _expire_deadlines.
LEMMA ExpireRows ==
    ASSUME RowsInv, NEW r \in Roots, Expire(r)
    PROVE  RowsInv'
<1> DEFINE tops == {j \in Tree(r) : Live(j)}
<1>0. r \in Jobs /\ UNCHANGED <<wait, slot>> /\ EndTrees(frame, tops, "expired")
  BY DEF Expire, Roots
<1>1. Tree(r) \subseteq Jobs
  BY <1>0 DEF Tree, Descendants, Children
<1>2. \A j \in Jobs : job'[j] = IF j \in Tree(r) /\ Live(j)
                                THEN [status |-> "ended", attempt |-> job[j].attempt + 1] ELSE job[j]
  BY DEF Expire
<1>3. \A j \in Jobs : Live(j) => [status |-> "ended", attempt |-> job[j].attempt + 1] \in JobType
  <2> SUFFICES ASSUME NEW j \in Jobs, Live(j)
               PROVE  [status |-> "ended", attempt |-> job[j].attempt + 1] \in JobType
    OBVIOUS
  <2>1. job[j] \in JobType /\ job[j].attempt <= MaxAttempts /\ MaxAttempts \in Nat
    BY ObserverAssumption DEF RowsInv, RowsAgree, RowAgrees
  <2>2. job[j].attempt \in 0..(MaxAttempts + 1)
    BY <2>1 DEF JobType
  <2>3. job[j].attempt + 1 \in 0..(MaxAttempts + 1)
    BY <2>1, <2>2
  <2> QED
    BY <2>3 DEF JobType, Statuses, Terminal
<1>4. job' \in [Jobs -> JobType]
  <2>1. job' = [j \in Jobs |-> job'[j]] /\ job \in [Jobs -> JobType]
    BY DEF Expire, RowsInv
  <2> QED
    BY <1>2, <1>3, <2>1
<1>5. ASSUME NEW j \in Jobs
      PROVE  /\ job'[j] = job[j] \/ (job[j].status # "none" /\ job'[j].status \in Terminal)
             /\ j \in Tree(r) => ~Live(j)'
  <2>1. CASE j \in Tree(r) /\ Live(j)
    <3>1. job'[j] = [status |-> "ended", attempt |-> job[j].attempt + 1]
      BY <1>2, <2>1
    <3>2. job'[j].status = "ended"
      BY <3>1
    <3> QED
      BY <2>1, <3>2 DEF Live, Terminal
  <2>2. CASE ~(j \in Tree(r) /\ Live(j))
    <3>1. job'[j] = job[j]
      BY <1>2, <2>2
    <3> QED
      BY <2>2, <3>1 DEF Live
  <2> QED
    BY <2>1, <2>2
<1>6. \A j \in Jobs : j \in Tree(r) => ~Live(j)'
  BY <1>5
<1>7. \A j \in tops : job[j].status # "none" /\ ~Live(j)'
  BY <1>1, <1>6 DEF Live
<1>8. \A k \in UNION {Descendants(j) : j \in tops} : k \in Jobs => ~Live(k)'
  <2>1. \A p \in Tree(r) : \A c \in Children(p) : c \in Tree(r)
    <3>1. Tree(r) = {r} \cup UNION {Descendants(j) : j \in {r}} /\ {r} \in SUBSET Jobs
      BY <1>0 DEF Tree
    <3> QED
      BY <3>1, Descent
  <2>2. \A p \in Tree(r) : Descendants(p) \subseteq Tree(r)
    BY <2>1 DEF Descendants
  <2> QED
    BY <1>6, <2>2
<1>9. tops \in SUBSET Jobs /\ frame \in [Jobs -> FrameType] /\ "expired" \in Terminal \cup {"expired"}
  BY <1>1 DEF RowsInv
<1> HIDE DEF tops
<1> QED
  BY <1>0, <1>4, <1>5, <1>7, <1>8, <1>9, TreesEnd

\* submit: the new job is a root.
LEMMA SubmitRows ==
    ASSUME RowsInv, NEW r \in Roots, Submit(r)
    PROVE  RowsInv'
<1>0. /\ r \in Jobs /\ Parent[r] = NoJob /\ job[r].status = "none" /\ UNCHANGED <<wait, slot>>
      /\ job' = [job EXCEPT ![r].status = "queued"]
      /\ frame' = [frame EXCEPT ![r] = [NoFrame EXCEPT !.state = "queued"]]
  BY DEF Submit, Roots
<1>1. /\ job \in [Jobs -> JobType] /\ job[r] \in JobType /\ frame \in [Jobs -> FrameType]
      /\ RowAgrees(r) /\ MaxFailures \in Nat /\ MaxAttempts \in Nat
  BY <1>0, ObserverAssumption DEF RowsInv, RowsAgree
<1>2. [NoFrame EXCEPT !.state = "queued"] \in FrameType
  BY <1>1 DEF NoFrame, FrameType, OpenStates
<1>3. [job[r] EXCEPT !.status = "queued"] \in JobType
  BY <1>1 DEF JobType, Statuses
<1>4. /\ job' \in [Jobs -> JobType] /\ frame' \in [Jobs -> FrameType]
      /\ job'[r].status = "queued" /\ job'[r].attempt = job[r].attempt /\ frame'[r].state = "queued"
      /\ \A j \in Jobs \ {r} : job'[j] = job[j] /\ frame'[j] = frame[j]
  BY <1>0, <1>1, <1>2, <1>3 DEF JobType, NoFrame<1>5. ASSUME NEW j \in Jobs PROVE RowAgrees(j)'
  <2>1. CASE j = r
    <3>1. /\ job[r].attempt = 0 /\ job'[r].status = "queued" /\ job'[r].attempt = job[r].attempt
          /\ wait'[r].state = "none" /\ ~wait'[r].consumed /\ ~wait'[r].ack
      BY <1>0, <1>1, <1>4 DEF RowAgrees
    <3> QED
      BY <1>1, <1>4, <2>1, <3>1 DEF RowAgrees, Live, OpenStates
  <2>2. CASE j # r
    <3>1. job'[j] = job[j] /\ frame'[j] = frame[j] /\ RowAgrees(j)
      BY <1>4, <2>2 DEF RowsInv, RowsAgree
    <3> QED
      BY <1>0, <3>1 DEF RowAgrees, Live
  <2> QED
    BY <2>1, <2>2
<1>6. ASSUME NEW p \in Jobs, NEW c \in Children(p) PROVE TakesTurns(p, c)'
  <2>1. TakesTurns(p, c) /\ c \in Jobs \ {r} /\ Children(p) \subseteq Jobs \ {r}
    BY <1>0, ObserverAssumption DEF RowsInv, FamiliesTakeTurns, Children
  <2>2. \A d \in Children(p) : job'[d] = job[d] /\ frame'[d] = frame[d]
    BY <1>4, <2>1
  <2>3. frame[c].state \in OpenStates => p # r
    <3>1. wait[r].state = "none" /\ RowAgrees(c)
      BY <1>0, <1>1, <2>1 DEF RowAgrees, RowsInv, RowsAgree
    <3> QED
      BY <2>1, <3>1 DEF TakesTurns, RowAgrees, NoFrame, OpenStates
  <2>4. frame[c].state \in OpenStates => frame'[p] = frame[p]
    BY <1>4, <2>3
  <2> QED
    BY <1>0, <2>1, <2>2, <2>4 DEF TakesTurns
<1> QED
  BY <1>0, <1>4, <1>5, <1>6 DEF RowsInv, RowsAgree, FamiliesTakeTurns

\* _wake_ready_parents.
LEMMA WokenRows ==
    ASSUME RowsInv, Woken, UNCHANGED <<frame, slot>>
    PROVE  RowsInv'
<1>1. \A j \in Jobs :
         /\ job'[j] = IF Live(j) /\ Ready(j) THEN [job[j] EXCEPT !.status = "queued"] ELSE job[j]
         /\ wait'[j] = IF Ready(j) THEN [wait[j] EXCEPT !.state = "ready"] ELSE wait[j]
         /\ job[j] \in JobType /\ wait[j] \in WaitType
  BY DEF Woken, RowsInv
<1>2. \A j \in Jobs : job'[j] \in JobType /\ wait'[j] \in WaitType
  <2>1. \A j \in Jobs : job'[j] \in JobType
    BY <1>1 DEF JobType, Statuses
  <2>2. \A j \in Jobs : wait'[j] \in WaitType
    BY <1>1 DEF WaitType
  <2> QED
    BY <2>1, <2>2
<1>3. job' \in [Jobs -> JobType] /\ wait' \in [Jobs -> WaitType] /\ frame' \in [Jobs -> FrameType]
  <2>1. job' = [j \in Jobs |-> job'[j]] /\ wait' = [j \in Jobs |-> wait'[j]]
    BY DEF Woken
  <2> QED
    BY <1>2, <2>1 DEF RowsInv
<1>4. ASSUME NEW j \in Jobs
      PROVE  /\ frame'[j].state = frame[j].state
             /\ \/ job'[j] = job[j] /\ frame'[j] = frame[j]
                \/ /\ job[j].status # "none" /\ job'[j].status \notin {"none", "running"}
                   /\ Live(j)' => Live(j) /\ job'[j].attempt = job[j].attempt
             /\ wait'[j] = wait[j] \/ (Ready(j) /\ wait'[j].state = "ready")
             /\ wait'[j].ack => wait[j].ack \/ ~Live(j)'
  BY <1>1 DEF JobType, WaitType, Live
<1> QED
  BY <1>3, <1>4, RowsMove

\* claim, of a job that has no deadline or attempts left.
LEMMA ExhaustedRows ==
    ASSUME RowsInv, NEW w \in Workers, NEW j \in Jobs, ClaimExhausted(w, j)
    PROVE  RowsInv'
<1>1. /\ job' = [job EXCEPT ![j].status = "ended"] /\ Live(j) /\ UNCHANGED <<frame, slot>>
      /\ wait' = IF Ready(j) THEN [wait EXCEPT ![j].state = "ready"] ELSE wait
  BY DEF ClaimExhausted, Dispatchable
<1>2. /\ job \in [Jobs -> JobType] /\ job[j] \in JobType /\ wait \in [Jobs -> WaitType]
      /\ wait[j] \in WaitType /\ frame \in [Jobs -> FrameType]
  BY DEF RowsInv
<1>3. [job[j] EXCEPT !.status = "ended"] \in JobType /\ [wait[j] EXCEPT !.state = "ready"] \in WaitType
  <2>1. [job[j] EXCEPT !.status = "ended"] \in JobType
    BY <1>2 DEF JobType, Statuses, Terminal
  <2>2. [wait[j] EXCEPT !.state = "ready"] \in WaitType
    BY <1>2 DEF WaitType
  <2> QED
    BY <2>1, <2>2
<1>4. /\ job' \in [Jobs -> JobType] /\ wait' \in [Jobs -> WaitType] /\ frame' \in [Jobs -> FrameType]
      /\ job'[j].status = "ended" /\ \A k \in Jobs \ {j} : job'[k] = job[k]
      /\ \A k \in Jobs : wait'[k] = wait[k] \/ (Ready(k) /\ wait'[k].state = "ready")
      /\ \A k \in Jobs : wait'[k].ack => wait[k].ack
  BY <1>1, <1>2, <1>3 DEF JobType, WaitType
<1>5. ASSUME NEW k \in Jobs
      PROVE  /\ frame'[k].state = frame[k].state
             /\ \/ job'[k] = job[k] /\ frame'[k] = frame[k]
                \/ /\ job[k].status # "none" /\ job'[k].status \notin {"none", "running"}
                   /\ Live(k)' => Live(k) /\ job'[k].attempt = job[k].attempt
  BY <1>1, <1>4 DEF Live, Terminal
<1> QED
  BY <1>1, <1>4, <1>5, RowsMove
\* Nobody is the child of itself.
LEMMA ChildIsOther ==
    ASSUME NEW p \in Jobs, NEW c \in Children(p)
    PROVE  c # p /\ c \in Jobs /\ Parent[c] = p
<1>1. c \in Jobs /\ Parent[c] = p /\ Root(c) \in Roots
  BY DepthAssumption DEF Children
<1> QED
  BY <1>1, ObserverAssumption DEF Root, Up, Roots

\* claim, of a job that is dispatched.
LEMMA ClaimRows ==
    ASSUME RowsInv, NEW w \in Workers, NEW j \in Jobs, NEW gone \in SUBSET Lapsed, Claim(w, j, gone)
    PROVE  RowsInv'
<1> DEFINE held == Without(gone)
           row == [status |-> "running", attempt |-> job[j].attempt + 1]
           own == [attempt |-> job[j].attempt + 1, owner |-> w, failed |-> FALSE]
<1>0. /\ Dispatchable(j, held) /\ ~Exhausted(j) /\ job[j].attempt < MaxAttempts
      /\ job' = [job EXCEPT ![j] = row] /\ frame' = [frame EXCEPT ![j].state = "running"]
      /\ wait' = IF Ready(j) THEN [wait EXCEPT ![j].state = "ready"] ELSE wait
      /\ slot' = [held EXCEPT ![j] = own]
  BY DEF Claim
<1>1. /\ job \in [Jobs -> JobType] /\ frame \in [Jobs -> FrameType] /\ wait \in [Jobs -> WaitType]
      /\ slot \in [Jobs -> SlotType] /\ job[j] \in JobType /\ frame[j] \in FrameType
      /\ wait[j] \in WaitType /\ RowAgrees(j) /\ Live(j)
  BY <1>0 DEF RowsInv, RowsAgree, Dispatchable
<1>2. job[j].attempt + 1 \in 0..MaxAttempts /\ MaxAttempts \in Nat
  <2>1. job[j].attempt \in 0..(MaxAttempts + 1) /\ MaxAttempts \in Nat
    BY <1>1, ObserverAssumption DEF JobType
  <2> QED
    BY <1>0, <2>1
<1>3. row \in JobType /\ own \in SlotType
  <2>1. job[j].attempt + 1 \in 0..(MaxAttempts + 1)
    BY <1>2
  <2> QED
    BY <1>2, <2>1 DEF JobType, Statuses, SlotType
<1>4. /\ held \in [Jobs -> SlotType]
      /\ \A k \in Jobs : held[k] = slot[k] \/ held[k] = NoSlot
  BY <1>1, NoSlotType DEF Without
<1>5. frame[j].failed < MaxFailures /\ frame[j].failed \in 0..MaxFailures
  BY <1>0, <1>1, ObserverAssumption DEF Exhausted, FrameType
<1> HIDE DEF held, row, own
<1>6. /\ job' \in [Jobs -> JobType] /\ job'[j] = row /\ \A k \in Jobs \ {j} : job'[k] = job[k]
  BY <1>0, <1>1, <1>3
<1>7. /\ frame' \in [Jobs -> FrameType] /\ frame'[j].state = "running"
      /\ frame'[j].failed = frame[j].failed /\ \A k \in Jobs \ {j} : frame'[k] = frame[k]
  <2>1. [frame[j] EXCEPT !.state = "running"] \in FrameType
    BY <1>1 DEF FrameType, OpenStates
  <2> QED
    BY <1>0, <1>1, <2>1 DEF FrameType
<1>8. /\ wait' \in [Jobs -> WaitType] /\ \A k \in Jobs \ {j} : wait'[k] = wait[k]
      /\ wait'[j] = wait[j] \/ (Ready(j) /\ wait'[j].state = "ready" /\ wait'[j].ack = wait[j].ack)
  <2>1. [wait[j] EXCEPT !.state = "ready"] \in WaitType
    BY <1>1 DEF WaitType
  <2> QED
    BY <1>0, <1>1, <2>1 DEF WaitType
<1>9. slot' \in [Jobs -> SlotType] /\ \A k \in Jobs \ {j} : slot'[k] = slot[k] \/ slot'[k] = NoSlot
  BY <1>0, <1>3, <1>4
<1>10. ASSUME NEW k \in Jobs PROVE RowAgrees(k)'
  <2>1. CASE k = j
    <3>1. job'[j].status = "running" /\ job'[j].attempt <= MaxAttempts
      BY <1>2, <1>6 DEF row
    <3>2. wait'[j].state = "none" => ~wait'[j].consumed
      BY <1>1, <1>8 DEF RowAgrees
    <3>3. ~wait'[j].ack
      BY <1>1, <1>8 DEF RowAgrees
    <3> QED
      BY <1>5, <1>7, <2>1, <3>1, <3>2, <3>3 DEF RowAgrees, OpenStates
  <2>2. CASE k # j
    <3>1. RowAgrees(k) /\ job'[k] = job[k] /\ frame'[k] = frame[k] /\ wait'[k] = wait[k]
          /\ (slot'[k] = slot[k] \/ slot'[k] = NoSlot)
      BY <1>6, <1>7, <1>8, <1>9, <2>2 DEF RowsInv, RowsAgree
    <3> QED
      BY <3>1 DEF RowAgrees, Live
  <2> QED
    BY <2>1, <2>2
<1>11. ASSUME NEW p \in Jobs, NEW c \in Children(p) PROVE TakesTurns(p, c)'
  <2>1. TakesTurns(p, c) /\ c \in Jobs /\ c # p /\ Parent[c] = p
    BY ChildIsOther DEF RowsInv, FamiliesTakeTurns
  <2>2. \A d \in Jobs : job[d].status = "none" => job'[d].status = "none"
    BY <1>1, <1>6 DEF Live
  <2>3. wait'[p].state = "none" => wait[p].state = "none"
    BY <1>8
  <2>4. CASE p = j
    <3>1. frame'[c] = frame[c]
      BY <1>7, <2>1, <2>4
    <3>2. frame[c].state \notin OpenStates
      <4>1. CASE Ready(j)
        BY <2>4, <4>1, ReadyHasNoChild
      <4>2. CASE ~Ready(j)
        <5>1. frame[j].state \notin {"waiting", "suspended"}
          BY <1>0, <4>2 DEF Dispatchable
        <5> QED
          BY <2>1, <2>4, <5>1 DEF TakesTurns
      <4> QED
        BY <4>1, <4>2
    <3> QED
      BY <2>1, <2>2, <2>3, <3>1, <3>2 DEF TakesTurns, Children
  <2>5. CASE c = j
    <3>1. frame'[p] = frame[p] /\ wait'[p] = wait[p]
      BY <1>7, <1>8, <2>1, <2>5
    <3>2. frame[c].state \in OpenStates
      BY <1>1, <2>5 DEF RowAgrees
    <3>3. frame[p].state = "suspended"
      <4>1. CASE frame[c].state = "queued"
        BY <1>0, <2>1, <2>5, <4>1, ObserverAssumption DEF Dispatchable, Eligible
      <4>2. CASE frame[c].state # "queued"
        BY <2>1, <3>2, <4>2 DEF TakesTurns
      <4> QED
        BY <4>1, <4>2
    <3> QED
      BY <2>1, <2>2, <2>3, <3>1, <3>2, <3>3 DEF TakesTurns, Children
  <2>6. CASE p # j /\ c # j
    <3>1. frame'[p] = frame[p] /\ wait'[p] = wait[p] /\ frame'[c] = frame[c]
      BY <1>7, <1>8, <2>1, <2>6
    <3> QED
      BY <2>1, <2>2, <3>1 DEF TakesTurns, Children
  <2> QED
    BY <2>4, <2>5, <2>6
<1> QED
  BY <1>6, <1>7, <1>8, <1>9, <1>10, <1>11 DEF RowsInv, RowsAgree, FamiliesTakeTurns
\* _private_wait: job j waits for its new child c.
LEMMA RegisteredRows ==
    ASSUME RowsInv, NEW j \in Jobs, NEW c \in Children(j), NEW n \in 1..2,
           job[j].status = "running", MayWait(j, n),
           job' = [job EXCEPT ![j].status = "queued", ![c].status = "queued"],
           Registered(j, c, n), wait' = [wait EXCEPT ![j].state = "waiting"], UNCHANGED slot
    PROVE  RowsInv'
<1>0. /\ c \in Jobs /\ c # j /\ Parent[c] = j /\ TakesTurns(j, c)
      /\ RowAgrees(j) /\ RowAgrees(c) /\ wait[j].state = "none"
  BY ChildIsOther DEF RowsInv, RowsAgree, FamiliesTakeTurns, MayWait
<1>1. /\ job \in [Jobs -> JobType] /\ frame \in [Jobs -> FrameType] /\ wait \in [Jobs -> WaitType]
      /\ slot \in [Jobs -> SlotType] /\ job[j] \in JobType /\ job[c] \in JobType /\ frame[j] \in FrameType
      /\ wait[j] \in WaitType /\ MaxFailures \in Nat /\ MaxAttempts \in Nat
  BY <1>0, ObserverAssumption DEF RowsInv
<1>2. /\ frame[j].state = "running" /\ Live(j) /\ job[j].attempt <= MaxAttempts /\ ~wait[j].consumed /\ ~wait[j].ack
      /\ job[c].status = "none" /\ job[c].attempt = 0
      /\ wait[c].state = "none" /\ ~wait[c].consumed /\ ~wait[c].ack
  BY <1>0 DEF RowAgrees, TakesTurns, Live, Terminal
<1>3. /\ job' \in [Jobs -> JobType] /\ job'[j].status = "queued" /\ job'[j].attempt = job[j].attempt
      /\ job'[c].status = "queued" /\ job'[c].attempt = 0
      /\ \A k \in Jobs \ {j, c} : job'[k] = job[k]
  <2>1. [job[j] EXCEPT !.status = "queued"] \in JobType /\ [job[c] EXCEPT !.status = "queued"] \in JobType
    BY <1>1 DEF JobType, Statuses
  <2>2. /\ job'[j] = [job[j] EXCEPT !.status = "queued"] /\ job'[c] = [job[c] EXCEPT !.status = "queued"]
        /\ \A k \in Jobs \ {j, c} : job'[k] = job[k]
        /\ job' = [k \in Jobs |-> job'[k]]
    BY <1>0, <1>1
  <2>3. \A k \in Jobs : job'[k] \in JobType
    BY <1>1, <2>1, <2>2
  <2>4. job' \in [Jobs -> JobType]
    BY <2>2, <2>3
  <2>5. job'[j].status = "queued" /\ job'[j].attempt = job[j].attempt
    BY <1>1, <2>2 DEF JobType
  <2>6. job'[c].status = "queued" /\ job'[c].attempt = job[c].attempt
    BY <1>1, <2>2 DEF JobType
  <2> QED
    BY <1>2, <2>2, <2>4, <2>5, <2>6
<1>4. /\ frame' \in [Jobs -> FrameType] /\ frame'[j].state = "waiting" /\ frame'[c].state = "queued"
      /\ \A k \in Jobs \ {j, c} : frame'[k] = frame[k]
  <2>0. frame' = [frame EXCEPT ![c] = [NoFrame EXCEPT !.state = "queued"], ![j].state = "waiting"]
    BY DEF Registered
  <2>1. [frame[j] EXCEPT !.state = "waiting"] \in FrameType
    BY <1>1 DEF FrameType, OpenStates
  <2>2. [NoFrame EXCEPT !.state = "queued"] \in FrameType
    BY <1>1 DEF FrameType, OpenStates, NoFrame
  <2>3. /\ frame'[j] = [frame[j] EXCEPT !.state = "waiting"] /\ frame'[c] = [NoFrame EXCEPT !.state = "queued"]
        /\ \A k \in Jobs \ {j, c} : frame'[k] = frame[k]
        /\ frame' = [k \in Jobs |-> frame'[k]]
    BY <1>0, <1>1, <2>0
  <2>4. \A k \in Jobs : frame'[k] \in FrameType
    BY <1>1, <2>1, <2>2, <2>3
  <2>5. frame' \in [Jobs -> FrameType]
    BY <2>3, <2>4
  <2> QED
    BY <1>1, <2>3, <2>5 DEF FrameType, NoFrame
<1>5. /\ wait' \in [Jobs -> WaitType] /\ wait'[j].state = "waiting" /\ ~wait'[j].consumed /\ ~wait'[j].ack
      /\ \A k \in Jobs \ {j} : wait'[k] = wait[k]
  <2>1. [wait[j] EXCEPT !.state = "waiting"] \in WaitType
    BY <1>1 DEF WaitType
  <2> QED
    BY <1>1, <1>2, <2>1 DEF WaitType
<1>6. ASSUME NEW k \in Jobs PROVE RowAgrees(k)'
  <2>1. CASE k = j
    BY <1>2, <1>3, <1>4, <1>5, <2>1 DEF RowAgrees, Live, OpenStates
  <2>2. CASE k = c
    <3>1. wait'[c] = wait[c]
      BY <1>0, <1>5
    <3> QED
      BY <1>1, <1>2, <1>3, <1>4, <2>2, <3>1 DEF RowAgrees, Live, OpenStates
  <2>3. CASE k \notin {j, c}
    <3>1. RowAgrees(k) /\ job'[k] = job[k] /\ frame'[k] = frame[k] /\ wait'[k] = wait[k]
      BY <1>3, <1>4, <1>5, <2>3 DEF RowsInv, RowsAgree
    <3> QED
      BY <3>1 DEF RowAgrees, Live
  <2> QED
    BY <2>1, <2>2, <2>3
<1>7. ASSUME NEW p \in Jobs, NEW k \in Children(p) PROVE TakesTurns(p, k)'
  <2>1. TakesTurns(p, k) /\ k \in Jobs /\ k # p /\ Parent[k] = p /\ RowAgrees(k)
    BY ChildIsOther DEF RowsInv, RowsAgree, FamiliesTakeTurns
  <2>2. \A d \in Children(p) : d \in Jobs /\ Parent[d] = p
    BY DEF Children
  <2>3. CASE p = j
    <3>1. \A d \in Children(j) : job[d].status = "none"
      BY <1>0 DEF RowsInv, FamiliesTakeTurns, TakesTurns
    <3>2. \A d \in Children(j) \ {c} : job'[d].status = "none"
      BY <1>3, <2>2, <2>3, <3>1, ChildIsOther
    <3>3. CASE k = c
      BY <1>4, <1>5, <2>3, <3>2, <3>3 DEF TakesTurns
    <3>4. CASE k # c
      <4>1. frame'[k] = frame[k] /\ frame[k] = NoFrame /\ job'[k].status = "none"
        BY <1>4, <2>1, <2>3, <3>1, <3>2, <3>4 DEF RowAgrees
      <4> QED
        BY <1>5, <2>3, <4>1 DEF TakesTurns, NoFrame, OpenStates
    <3> QED
      BY <3>3, <3>4
  <2>4. CASE p # j /\ k = j
    <3>1. frame[p].state = "suspended" /\ wait[p].state = "waiting" /\ ~wait[p].consumed
      BY <1>2, <2>1, <2>4 DEF TakesTurns, OpenStates
    <3>2. p # c
      BY <1>0, <1>2, <3>1 DEF RowAgrees, NoFrame
    <3>3. frame'[p] = frame[p] /\ wait'[p] = wait[p]
      BY <1>4, <1>5, <2>4, <3>2
    <3>4. \A d \in Children(p) \ {k} : job[d].status = "none" /\ job'[d] = job[d]
      <4>1. \A d \in Children(p) \ {k} : job[d].status = "none"
        BY <1>2, <2>1, <2>4 DEF TakesTurns, Live
      <4>2. \A d \in Children(p) \ {k} : d # c /\ d # j
        BY <1>0, <2>2, <2>4
      <4> QED
        BY <1>3, <2>2, <4>1, <4>2
    <3> QED
      BY <1>4, <2>4, <3>1, <3>3, <3>4 DEF TakesTurns
  <2>5. CASE p # j /\ k # j
    <3>1. k # c /\ frame'[k] = frame[k] /\ job'[k] = job[k] /\ wait'[p] = wait[p]
      BY <1>0, <1>3, <1>4, <1>5, <2>1, <2>5
    <3>2. frame[k].state \in OpenStates => frame'[p] = frame[p]
      <4>1. p = c => job[k].status = "none"
        BY <1>2, <2>1 DEF TakesTurns
      <4>2. p = c => frame[k].state \notin OpenStates
        BY <2>1, <4>1 DEF RowAgrees, NoFrame, OpenStates
      <4> QED
        BY <1>4, <2>5, <4>2
    <3>3. \A d \in Children(p) \ {k} : job[d].status = "none" /\ job[k].status # "none" => job'[d].status = "none"
      <4>1. \A d \in Children(p) : d # c
        BY <1>0, <2>2, <2>5
      <4>2. job[j].status # "none"
        BY <1>2 DEF Live
      <4> QED
        BY <1>3, <2>2, <4>1, <4>2
    <3> QED
      BY <2>1, <3>1, <3>2, <3>3 DEF TakesTurns
  <2> QED
    BY <2>3, <2>4, <2>5
<1> QED
  BY <1>1, <1>3, <1>4, <1>5, <1>6, <1>7 DEF RowsInv, RowsAgree, FamiliesTakeTurns
\* The slot of job j is deleted, and a waiting job becomes suspended.
LEMMA ReleaseRows ==
    ASSUME RowsInv, NEW w \in Workers, wk[w].job \in Jobs, ReleaseSlot(w)
    PROVE  RowsInv'
<1> DEFINE j == wk[w].job
           held == [slot EXCEPT ![j] = IF slot[j].attempt = wk[w].attempt THEN NoSlot ELSE slot[j]]
           freed == frame[j].state = "waiting" /\ held[j] = NoSlot
<1>0. /\ slot' = held /\ UNCHANGED job
      /\ frame' = IF freed THEN [frame EXCEPT ![j].state = "suspended"] ELSE frame
      /\ wait' = IF freed THEN [wait EXCEPT ![j].released = TRUE] ELSE wait
  BY DEF ReleaseSlot
<1>1. /\ job \in [Jobs -> JobType] /\ frame \in [Jobs -> FrameType] /\ wait \in [Jobs -> WaitType]
      /\ slot \in [Jobs -> SlotType] /\ frame[j] \in FrameType /\ wait[j] \in WaitType /\ j \in Jobs
      /\ RowAgrees(j)
  BY DEF RowsInv, RowsAgree
<1>2. slot' \in [Jobs -> SlotType] /\ \A k \in Jobs : slot'[k] = slot[k] \/ slot'[k] = NoSlot
  BY <1>0, <1>1, NoSlotType
<1>3. CASE ~freed
  <2>1. UNCHANGED <<job, frame, wait>>
    BY <1>0, <1>3
  <2> HIDE DEF held, freed
  <2>2. \A k \in Jobs : frame[k].state = "suspended" => slot'[k] = NoSlot
    BY <1>2 DEF RowsInv, RowsAgree, RowAgrees
  <2> QED
    BY <1>2, <2>1, <2>2, RowsKept
<1>4. CASE freed
  <2>1. /\ frame[j].state = "waiting" /\ slot'[j] = NoSlot
        /\ frame' = [frame EXCEPT ![j].state = "suspended"] /\ wait' = [wait EXCEPT ![j].released = TRUE]
    BY <1>0, <1>4
  <2>2. /\ frame' \in [Jobs -> FrameType] /\ frame'[j].state = "suspended"
        /\ \A k \in Jobs \ {j} : frame'[k] = frame[k]
    <3>1. [frame[j] EXCEPT !.state = "suspended"] \in FrameType
      BY <1>1 DEF FrameType, OpenStates
    <3> QED
      BY <1>1, <2>1, <3>1 DEF FrameType
  <2>3. /\ wait' \in [Jobs -> WaitType] /\ wait'[j].ack = wait[j].ack
        /\ \A k \in Jobs : wait'[k].state = wait[k].state /\ wait'[k].consumed = wait[k].consumed
        /\ \A k \in Jobs \ {j} : wait'[k] = wait[k]
    <3>1. [wait[j] EXCEPT !.released = TRUE] \in WaitType
      BY <1>1 DEF WaitType
    <3> QED
      BY <1>1, <2>1, <3>1 DEF WaitType
  <2> HIDE DEF held, freed
  <2>4. ASSUME NEW k \in Jobs PROVE RowAgrees(k)'
    <3>0. RowAgrees(k)
      BY DEF RowsInv, RowsAgree
    <3>1. CASE k = j
      BY <1>0, <1>1, <2>1, <2>2, <2>3, <3>1 DEF RowAgrees, Live, OpenStates, NoFrame
    <3>2. CASE k # j
      <4>1. job'[k] = job[k] /\ frame'[k] = frame[k] /\ wait'[k] = wait[k]
            /\ (slot'[k] = slot[k] \/ slot'[k] = NoSlot)
        BY <1>0, <1>2, <2>2, <2>3, <3>2
      <4> QED
        BY <3>0, <4>1 DEF RowAgrees, Live
    <3> QED
      BY <3>1, <3>2
  <2>5. ASSUME NEW p \in Jobs, NEW c \in Children(p) PROVE TakesTurns(p, c)'
    <3>1. TakesTurns(p, c) /\ c \in Jobs
      BY DEF RowsInv, FamiliesTakeTurns, Children
    <3>2. frame'[c].state \in OpenStates => frame[c].state \in OpenStates
      BY <2>1, <2>2, <3>1 DEF OpenStates
    <3>3. frame'[c].state \in OpenStates \ {"queued"} => frame[c].state \in OpenStates \ {"queued"}
      BY <2>1, <2>2, <3>1 DEF OpenStates
    <3>4. /\ frame[p].state \in {"waiting", "suspended"} => frame'[p].state \in {"waiting", "suspended"}
          /\ frame[p].state = "suspended" => frame'[p].state = "suspended"
      BY <2>1, <2>2
    <3> QED
      BY <1>0, <2>3, <3>1, <3>2, <3>3, <3>4 DEF TakesTurns
  <2> QED
    BY <1>0, <1>1, <1>2, <2>2, <2>3, <2>4, <2>5 DEF RowsInv, RowsAgree, FamiliesTakeTurns
<1> QED
  BY <1>3, <1>4
\* The frames of the children of an ended job are deleted.
LEMMA ForgottenRows ==
    ASSUME RowsInv, NEW j \in Jobs, UNCHANGED <<job, slot>>, ~Live(j), wait[j].state # "none",
           \A c \in Children(j) : frame[c].state \notin OpenStates,
           frame' \in [Jobs -> FrameType], frame'[j] = frame[j] \/ frame'[j].state \notin OpenStates,
           \A c \in Children(j) : frame'[c] = NoFrame,
           \A k \in Jobs : k \notin Children(j) /\ k # j => frame'[k] = frame[k],
           wait' \in [Jobs -> WaitType], wait'[j].state # "none",
           \A k \in Jobs \ {j} : wait'[k] = wait[k]
    PROVE  RowsInv'
<1>1. ASSUME NEW k \in Jobs PROVE RowAgrees(k)'
  <2>0. RowAgrees(k) /\ job'[k] = job[k] /\ slot'[k] = slot[k]
    BY DEF RowsInv, RowsAgree
  <2>1. CASE k = j
    <3>1. job[j].status # "none" /\ job[j].status # "running"
      BY <2>0, <2>1 DEF RowAgrees, Live, Terminal
    <3>2. frame'[j].state = "suspended" => slot[j] = NoSlot
      BY <2>0, <2>1 DEF RowAgrees, OpenStates
    <3> QED
      BY <2>0, <2>1, <3>1, <3>2 DEF RowAgrees, Live
  <2>2. CASE k # j /\ k \in Children(j)
    <3>1. ~Live(k) /\ frame'[k] = NoFrame /\ wait'[k] = wait[k]
      BY <2>0, <2>2 DEF RowAgrees
    <3> QED
      BY <2>0, <3>1 DEF RowAgrees, Live, NoFrame, Terminal
  <2>3. CASE k # j /\ k \notin Children(j)
    <3>1. frame'[k] = frame[k] /\ wait'[k] = wait[k]
      BY <2>3
    <3> QED
      BY <2>0, <3>1 DEF RowAgrees, Live
  <2> QED
    BY <2>1, <2>2, <2>3
<1>2. ASSUME NEW p \in Jobs, NEW c \in Children(p) PROVE TakesTurns(p, c)'
  <2>1. TakesTurns(p, c) /\ c \in Jobs
    BY DEF RowsInv, FamiliesTakeTurns, Children
  <2>2. wait'[p].state = "none" => wait[p].state = "none"
    OBVIOUS
  <2>3. frame'[c].state \in OpenStates =>
          /\ frame'[c] = frame[c] /\ p # j /\ p \notin Children(j)
    <3>1. SUFFICES ASSUME frame'[c].state \in OpenStates
                   PROVE  frame'[c] = frame[c] /\ p # j /\ p \notin Children(j)
      OBVIOUS
    <3>2. c \notin Children(j)
      BY <3>1 DEF NoFrame, OpenStates
    <3>3. frame'[c] = frame[c] /\ p # j
      BY <2>1, <3>1, <3>2
    <3>4. frame[p].state \in OpenStates
      BY <2>1, <3>1, <3>3 DEF TakesTurns, OpenStates
    <3> QED
      BY <3>3, <3>4
  <2>4. frame'[c].state \in OpenStates => frame'[p] = frame[p] /\ wait'[p] = wait[p]
    BY <2>3
  <2> QED
    BY <2>1, <2>2, <2>3, <2>4 DEF TakesTurns
<1> QED
  BY <1>1, <1>2 DEF RowsInv, RowsAgree, FamiliesTakeTurns

LEMMA ConsumeAckRows ==
    ASSUME RowsInv, NEW j \in Jobs, ConsumeAck(j)
    PROVE  RowsInv'
<1> DEFINE f == Forgotten(frame, j, NoFrame)
           ends == IF Live(j) \/ (job[j].status = "completed" /\ Root(j) \in late) THEN {} ELSE {j}
           state == IF job[j].status = "completed" THEN "completed" ELSE "expired"
<1>0. /\ wait[j].ack /\ Ready(j) /\ UNCHANGED <<job, slot>>
      /\ wait' = [wait EXCEPT ![j].ack = FALSE, ![j].consumed = TRUE]
  BY DEF ConsumeAck
<1>1. /\ ~Live(j) /\ wait[j].state \in {"waiting", "ready"} /\ wait[j] \in WaitType
      /\ wait \in [Jobs -> WaitType] /\ frame \in [Jobs -> FrameType] /\ MaxFailures \in Nat
  BY <1>0, ObserverAssumption DEF RowsInv, RowsAgree, RowAgrees, Ready
<1>2. frame' = EndFrames(f, ends, state) /\ ends \subseteq {j}
  BY DEF ConsumeAck
<1>3. \A c \in Children(j) : frame[c].state \notin OpenStates /\ c # j /\ c \in Jobs
  BY <1>0, ReadyHasNoChild, ChildIsOther
<1>4. NoFrame \in FrameType
  BY <1>1 DEF NoFrame, FrameType
<1>5. /\ f \in [Jobs -> FrameType] /\ f[j] = frame[j] /\ \A c \in Children(j) : f[c] = NoFrame
      /\ \A k \in Jobs : k \notin Children(j) => f[k] = frame[k]
  BY <1>1, <1>3, <1>4 DEF Forgotten
<1> HIDE DEF f
<1>6. state \in {"completed", "expired"}
  OBVIOUS
<1> HIDE DEF state, ends
<1>7. \A k \in Jobs : frame'[k] = IF k \in Ending(f, ends) THEN [f[k] EXCEPT !.state = state] ELSE f[k]
  BY <1>2 DEF EndFrames
<1>8. \A k \in Jobs \ {j} : frame'[k] = f[k]
  BY <1>2, <1>7 DEF Ending
<1>9. frame'[j] \in FrameType /\ (frame'[j] = frame[j] \/ frame'[j].state \notin OpenStates)
  <2>1. f[j] \in FrameType
    BY <1>5
  <2>2. CASE j \in Ending(f, ends)
    <3>1. frame'[j] = [f[j] EXCEPT !.state = state]
      BY <1>7, <2>2
    <3> QED
      BY <1>6, <2>1, <3>1 DEF FrameType, Terminal, OpenStates
  <2>3. CASE j \notin Ending(f, ends)
    BY <1>5, <1>7, <2>1, <2>3
  <2> QED
    BY <2>2, <2>3
<1>10. frame' \in [Jobs -> FrameType]
  <2>1. frame' = [k \in Jobs |-> frame'[k]]
    BY <1>2 DEF EndFrames
  <2>2. \A k \in Jobs : frame'[k] \in FrameType
    BY <1>5, <1>8, <1>9
  <2> QED
    BY <2>1, <2>2
<1>11. /\ wait' \in [Jobs -> WaitType] /\ wait'[j].state # "none"
       /\ \A k \in Jobs \ {j} : wait'[k] = wait[k]
  <2>1. [wait[j] EXCEPT !.ack = FALSE, !.consumed = TRUE] \in WaitType
    BY <1>1 DEF WaitType
  <2> QED
    BY <1>0, <1>1, <2>1 DEF WaitType
<1>12. /\ \A c \in Children(j) : frame'[c] = NoFrame
       /\ \A k \in Jobs : k \notin Children(j) /\ k # j => frame'[k] = frame[k]
  BY <1>3, <1>5, <1>8
<1> QED
  BY <1>0, <1>1, <1>3, <1>9, <1>10, <1>11, <1>12, ForgottenRows

LEMMA RetireWaitRows ==
    ASSUME RowsInv, NEW j \in Jobs, RetireWait(j)
    PROVE  RowsInv'
<1>0. /\ wait[j].state \in {"waiting", "ready"} /\ job[j].status \in Terminal /\ Over(frame[j])
      /\ \A c \in Children(j) : frame[c].state = "none" \/ Over(frame[c])
      /\ wait' = [wait EXCEPT ![j].state = "retired", ![j].consumed = TRUE]
      /\ frame' = Forgotten(frame, j, NoFrame) /\ UNCHANGED <<job, slot>>
  BY DEF RetireWait
<1>1. /\ wait[j] \in WaitType /\ wait \in [Jobs -> WaitType] /\ frame \in [Jobs -> FrameType]
      /\ MaxFailures \in Nat
  BY ObserverAssumption DEF RowsInv
<1>2. ~Live(j) /\ frame[j].state \notin OpenStates
  BY <1>0 DEF Live, Over, OpenStates
<1>3. \A c \in Children(j) : frame[c].state \notin OpenStates /\ c # j /\ c \in Jobs
  BY <1>0, ChildIsOther DEF Over, OpenStates
<1>4. NoFrame \in FrameType
  BY <1>1 DEF NoFrame, FrameType
<1>5. /\ frame' \in [Jobs -> FrameType] /\ frame'[j] = frame[j]
      /\ \A c \in Children(j) : frame'[c] = NoFrame
      /\ \A k \in Jobs : k \notin Children(j) => frame'[k] = frame[k]
  BY <1>0, <1>1, <1>3, <1>4 DEF Forgotten
<1>6. /\ wait' \in [Jobs -> WaitType] /\ wait'[j].state # "none"
      /\ \A k \in Jobs \ {j} : wait'[k] = wait[k]
  <2>1. [wait[j] EXCEPT !.state = "retired", !.consumed = TRUE] \in WaitType
    BY <1>1 DEF WaitType
  <2> QED
    BY <1>0, <1>1, <2>1 DEF WaitType
<1>7. wait[j].state # "none"
  BY <1>0
<1> QED
  BY <1>0, <1>2, <1>3, <1>5, <1>6, <1>7, ForgottenRows
-----------------------------------------------------------------------------
(* The workers: what a step may do to workers and slots *)

\* Workers and slots stay as they are.
LEMMA WorkersKept ==
    ASSUME WorkersInv, UNCHANGED <<slot, wk, sessions>>, removed \subseteq removed', StopKeepsSlots'
    PROVE  WorkersInv'
  BY DEF WorkersInv, WorkersNamed, SlotPerWorker, SlotsAccounted, Slots

\* While a worker works there are slots, so no stop has settled.
LEMMA WorkMeansSlots ==
    ASSUME WorkersInv, NEW w \in Workers, wk[w].pc # "idle"
    PROVE  /\ wk[w].job \in Jobs /\ wk[w].job \in Slots /\ slot[wk[w].job].owner = w
           /\ slot[wk[w].job].attempt = wk[w].attempt
           /\ ~(veto /\ stop.pc \in {"settled", "observed", "released"})
<1>1. /\ wk[w].job \in Jobs /\ slot[wk[w].job].owner = w /\ slot[wk[w].job].attempt = wk[w].attempt
  BY DEF WorkersInv, WorkersNamed, SlotPerWorker
<1>2. w # Dead
  BY ObserverAssumption
<1>3. wk[w].job \in Slots
  BY <1>1, <1>2 DEF Slots, NoSlot
<1> QED
  BY <1>1, <1>3 DEF WorkersInv, StopKeepsSlots

\* A worker goes on with the same attempt.
LEMMA WorkerMoves ==
    ASSUME WorkersInv, NEW w \in Workers, wk[w].pc # "idle", NEW x \in WorkerType,
           x.pc # "idle", x.job = wk[w].job, x.attempt = wk[w].attempt,
           wk' = [wk EXCEPT ![w] = x], UNCHANGED <<slot, removed, veto, stop>>,
           sessions' \subseteq sessions \cup {w}, w \in sessions' => x.pc \in WithSession,
           x.pc = "retiring" => Root(wk[w].job) \in removed
    PROVE  WorkersInv'
<1>0. wk \in [Workers -> WorkerType]
  BY DEF WorkersInv
<1>1. wk' \in [Workers -> WorkerType] /\ wk'[w] = x /\ \A v \in Workers \ {w} : wk'[v] = wk[v]
  BY <1>0
<1>2. \A v \in Workers : /\ wk'[v].job = wk[v].job /\ wk'[v].attempt = wk[v].attempt
                         /\ wk'[v].pc = "idle" <=> wk[v].pc = "idle"
  BY <1>1
<1>3. WorkersNamed'
  <2>1. \A v \in Workers : wk'[v].job \in Jobs <=> wk'[v].pc # "idle"
    BY <1>2 DEF WorkersInv, WorkersNamed
  <2>2. ASSUME NEW v \in sessions' PROVE wk'[v].pc \in WithSession
    <3>1. CASE v = w
      BY <1>1, <2>2, <3>1
    <3>2. CASE v # w
      BY <1>1, <2>2, <3>2 DEF WorkersInv, WorkersNamed
    <3> QED
      BY <3>1, <3>2
  <2>3. \A v \in Workers : wk'[v].pc = "retiring" => Root(wk'[v].job) \in removed'
    BY <1>1, <1>2 DEF WorkersInv, WorkersNamed
  <2> QED
    BY <2>1, <2>2, <2>3 DEF WorkersNamed
<1>4. SlotPerWorker' /\ SlotsAccounted' /\ StopKeepsSlots'
  BY <1>2 DEF WorkersInv, SlotPerWorker, SlotsAccounted, StopKeepsSlots, Slots
<1>5. slot' \in [Jobs -> SlotType] /\ sessions' \subseteq Workers
  BY DEF WorkersInv
<1> QED
  BY <1>1, <1>3, <1>4, <1>5 DEF WorkersInv

\* The same, when only the control state changes.
LEMMA WorkerSteps ==
    ASSUME WorkersInv, NEW w \in Workers, wk[w].pc # "idle",
           NEW pc \in WithSession \cup {"claimed", "gated", "retiring", "release"}, Step(w, pc),
           UNCHANGED <<slot, removed, veto, stop>>,
           sessions' \subseteq sessions \cup {w}, w \in sessions' => pc \in WithSession,
           pc = "retiring" => Root(wk[w].job) \in removed
    PROVE  WorkersInv'
<1> DEFINE x == [wk[w] EXCEPT !.pc = pc, !.answer = "none"]
<1>1. wk \in [Workers -> WorkerType] /\ wk[w] \in WorkerType
  BY DEF WorkersInv
<1>2. x \in WorkerType /\ x.pc = pc /\ x.job = wk[w].job /\ x.attempt = wk[w].attempt
  BY <1>1 DEF WorkerType
<1>3. pc # "idle" /\ wk' = [wk EXCEPT ![w] = x]
  BY DEF Step, WithSession
<1> HIDE DEF x
<1> QED
  BY <1>2, <1>3, WorkerMoves

\* A worker stops working: its slot is deleted, marked or its owner is gone,
\* or its skill was removed.
LEMMA WorkerRests ==
    ASSUME WorkersInv, NEW w \in Workers, wk[w].pc # "idle", wk' = [wk EXCEPT ![w] = Idle],
           sessions' \subseteq sessions \ {w}, UNCHANGED <<removed, veto, stop>>,
           slot' \in [Jobs -> SlotType],
           \A k \in Jobs : \/ slot'[k] = slot[k] \/ slot'[k] = NoSlot
                           \/ slot'[k].owner = Dead \/ slot'[k].failed,
           \A k \in Jobs : slot[k].owner # w => slot'[k] = slot[k],
           LET k == wk[w].job
           IN  slot'[k] = NoSlot \/ slot'[k].owner = Dead \/ slot'[k].failed \/ Root(k) \in removed
    PROVE  WorkersInv'
<1>0. wk \in [Workers -> WorkerType] /\ sessions \subseteq Workers
  BY DEF WorkersInv
<1>1. wk' \in [Workers -> WorkerType] /\ wk'[w] = Idle /\ \A v \in Workers \ {w} : wk'[v] = wk[v]
  BY <1>0, NoSlotType
<1>2. WorkersNamed'
  <2>1. \A v \in Workers : wk'[v].job \in Jobs <=> wk'[v].pc # "idle"
    BY <1>1, NoSlotType, ObserverAssumption DEF WorkersInv, WorkersNamed
  <2>2. \A v \in sessions' : wk'[v].pc \in WithSession
    BY <1>0, <1>1 DEF WorkersInv, WorkersNamed
  <2>3. \A v \in Workers : wk'[v].pc = "retiring" => Root(wk'[v].job) \in removed'
    BY <1>1, NoSlotType DEF WorkersInv, WorkersNamed
  <2> QED
    BY <2>1, <2>2, <2>3 DEF WorkersNamed
<1>3. SlotPerWorker'
  <2> SUFFICES ASSUME NEW v \in Workers, wk'[v].pc # "idle"
               PROVE  slot'[wk'[v].job].owner = v /\ slot'[wk'[v].job].attempt = wk'[v].attempt
    BY DEF SlotPerWorker
  <2>1. v # w /\ wk'[v] = wk[v]
    BY <1>1, NoSlotType
  <2>2. /\ wk[v].job \in Jobs /\ slot[wk[v].job].owner = v /\ slot[wk[v].job].attempt = wk[v].attempt
    BY <2>1, WorkMeansSlots
  <2>3. slot'[wk[v].job] = slot[wk[v].job]
    BY <2>1, <2>2
  <2> QED
    BY <2>1, <2>2, <2>3
<1>4. SlotsAccounted'
  <2> SUFFICES ASSUME NEW k \in Jobs, slot'[k] # NoSlot, slot'[k].owner \in Workers,
                      ~slot'[k].failed, Root(k) \notin removed
               PROVE  \E v \in Workers : wk'[v].job = k /\ wk'[v].attempt = slot'[k].attempt
    BY DEF SlotsAccounted, Slots
  <2>0. slot'[k].owner # Dead
    BY ObserverAssumption
  <2>1. slot'[k] = slot[k] /\ k # wk[w].job
    BY <2>0
  <2>2. PICK v \in Workers : wk[v].job = k /\ wk[v].attempt = slot[k].attempt
    BY <2>1 DEF WorkersInv, SlotsAccounted, Slots
  <2>3. wk'[v] = wk[v]
    BY <1>1, <2>1, <2>2
  <2> QED
    BY <2>1, <2>2, <2>3
<1>5. StopKeepsSlots'
  BY WorkMeansSlots DEF StopKeepsSlots
<1> QED
  BY <1>0, <1>1, <1>2, <1>3, <1>4, <1>5 DEF WorkersInv
\* claim: the slot was free, and it belongs to the worker now.
LEMMA ClaimWorkers ==
    ASSUME WorkersInv, job \in [Jobs -> JobType], NEW w \in Workers, NEW j \in Jobs,
           NEW gone \in SUBSET Lapsed, Claim(w, j, gone)
    PROVE  WorkersInv'
<1> DEFINE held == Without(gone)
           n == job[j].attempt + 1
           x == [Idle EXCEPT !.pc = "claimed", !.job = j, !.attempt = n]
           own == [attempt |-> n, owner |-> w, failed |-> FALSE]
<1>0. /\ wk[w].pc = "idle" /\ ~veto /\ held[j] = NoSlot /\ job[j].attempt < MaxAttempts
      /\ slot' = [held EXCEPT ![j] = own] /\ wk' = [wk EXCEPT ![w] = x]
      /\ UNCHANGED <<sessions, removed, veto, stop>>
  BY DEF Claim, Dispatchable
<1>1. wk \in [Workers -> WorkerType] /\ slot \in [Jobs -> SlotType] /\ job[j] \in JobType
      /\ sessions \subseteq Workers
  BY DEF WorkersInv
<1>2. n \in 0..MaxAttempts
  <2>1. job[j].attempt \in 0..(MaxAttempts + 1) /\ MaxAttempts \in Nat
    BY <1>1, ObserverAssumption DEF JobType
  <2> QED
    BY <1>0, <2>1
<1> HIDE DEF n
<1>3. /\ own \in SlotType /\ own.owner = w /\ own.attempt = n
      /\ x \in WorkerType /\ x.pc = "claimed" /\ x.job = j /\ x.attempt = n
  BY <1>2 DEF SlotType, Idle, WorkerType
<1>4. held \in [Jobs -> SlotType] /\ \A k \in Jobs : held[k] = slot[k] \/ held[k] = NoSlot
  BY <1>1, NoSlotType DEF Without
<1>5. \A k \in Jobs : slot[k].owner \in Workers => held[k] = slot[k]
  BY ObserverAssumption DEF Without, Lapsed
<1> HIDE DEF held, x, own
<1>6. /\ slot' \in [Jobs -> SlotType] /\ slot'[j] = own /\ \A k \in Jobs \ {j} : slot'[k] = held[k]
      /\ wk' \in [Workers -> WorkerType] /\ wk'[w] = x /\ \A v \in Workers \ {w} : wk'[v] = wk[v]
  BY <1>0, <1>1, <1>3, <1>4
<1>7. WorkersNamed'
  <2>1. \A v \in Workers : wk'[v].job \in Jobs <=> wk'[v].pc # "idle"
    BY <1>3, <1>6 DEF WorkersInv, WorkersNamed
  <2>2. \A v \in sessions : wk'[v].pc \in WithSession
    BY <1>0, <1>1, <1>6 DEF WorkersInv, WorkersNamed, WithSession
  <2>3. \A v \in Workers : wk'[v].pc = "retiring" => Root(wk'[v].job) \in removed
    BY <1>3, <1>6 DEF WorkersInv, WorkersNamed
  <2> QED
    BY <1>0, <2>1, <2>2, <2>3 DEF WorkersNamed
<1>8. SlotPerWorker'
  <2> SUFFICES ASSUME NEW v \in Workers, wk'[v].pc # "idle"
               PROVE  slot'[wk'[v].job].owner = v /\ slot'[wk'[v].job].attempt = wk'[v].attempt
    BY DEF SlotPerWorker
  <2>1. CASE v = w
    BY <1>3, <1>6, <2>1
  <2>2. CASE v # w
    <3>1. wk'[v] = wk[v]
      BY <1>6, <2>2
    <3>2. /\ wk[v].job \in Jobs /\ slot[wk[v].job].owner = v /\ slot[wk[v].job].attempt = wk[v].attempt
      BY <3>1, WorkMeansSlots
    <3>3. held[wk[v].job] = slot[wk[v].job]
      BY <1>5, <3>2
    <3>4. wk[v].job # j
      BY <1>0, <3>2, <3>3, ObserverAssumption DEF NoSlot
    <3> QED
      BY <1>6, <3>1, <3>2, <3>3, <3>4
  <2> QED
    BY <2>1, <2>2
<1>9. SlotsAccounted'
  <2> SUFFICES ASSUME NEW k \in Jobs, slot'[k] # NoSlot, slot'[k].owner \in Workers,
                      ~slot'[k].failed, Root(k) \notin removed
               PROVE  \E v \in Workers : wk'[v].job = k /\ wk'[v].attempt = slot'[k].attempt
    BY <1>0 DEF SlotsAccounted, Slots
  <2>1. CASE k = j
    BY <1>3, <1>6, <2>1
  <2>2. CASE k # j
    <3>1. slot'[k] = slot[k]
      BY <1>4, <1>6, <2>2
    <3>2. PICK v \in Workers : wk[v].job = k /\ wk[v].attempt = slot[k].attempt
      BY <3>1 DEF WorkersInv, SlotsAccounted, Slots
    <3>3. v # w
      BY <1>0, <3>2 DEF WorkersInv, WorkersNamed
    <3> QED
      BY <1>6, <3>1, <3>2, <3>3
  <2> QED
    BY <2>1, <2>2
<1>10. StopKeepsSlots'
  BY <1>0 DEF StopKeepsSlots
<1> QED
  BY <1>0, <1>1, <1>6, <1>7, <1>8, <1>9, <1>10 DEF WorkersInv

\* claim: leases that ran out are deleted, no living worker's among them.
LEMMA SweepPreserves ==
    ASSUME IInv, NEW w \in Workers, NEW gone \in SUBSET Lapsed, ClaimNothing(w, gone)
    PROVE  IInv'
<1>0. RowsInv /\ WorkersInv /\ RestOK
  BY Halves
<1>1. /\ slot' = Without(gone) /\ slot \in [Jobs -> SlotType]
      /\ UNCHANGED <<job, frame, wait, wk, sessions, removed, veto, stop>>
  BY <1>0 DEF ClaimNothing, RowsInv
<1>2. slot' \in [Jobs -> SlotType] /\ \A k \in Jobs : slot'[k] = slot[k] \/ slot'[k] = NoSlot
  BY <1>1, NoSlotType DEF Without
<1>3. \A k \in Jobs : slot[k].owner \in Workers => slot'[k] = slot[k]
  BY <1>1, ObserverAssumption DEF Without, Lapsed
<1>4. RowsInv'
  <2>1. \A k \in Jobs : frame[k].state = "suspended" => slot'[k] = NoSlot
    BY <1>0, <1>2 DEF RowsInv, RowsAgree, RowAgrees
  <2> QED
    BY <1>0, <1>1, <1>2, <2>1, RowsKept
<1>5. SlotPerWorker'
  <2> SUFFICES ASSUME NEW v \in Workers, wk[v].pc # "idle"
               PROVE  slot'[wk[v].job].owner = v /\ slot'[wk[v].job].attempt = wk[v].attempt
    BY <1>1 DEF SlotPerWorker
  <2>1. wk[v].job \in Jobs /\ slot[wk[v].job].owner = v /\ slot[wk[v].job].attempt = wk[v].attempt
    BY <1>0, WorkMeansSlots
  <2> QED
    BY <1>3, <2>1
<1>6. SlotsAccounted'
  <2> SUFFICES ASSUME NEW k \in Jobs, slot'[k] # NoSlot, slot'[k].owner \in Workers,
                      ~slot'[k].failed, Root(k) \notin removed
               PROVE  \E v \in Workers : wk[v].job = k /\ wk[v].attempt = slot'[k].attempt
    BY <1>1 DEF SlotsAccounted, Slots
  <2>1. slot'[k] = slot[k]
    BY <1>2
  <2> QED
    BY <1>0, <2>1 DEF WorkersInv, SlotsAccounted, Slots
<1>7. StopKeepsSlots'
  BY <1>0, <1>1, <1>2 DEF WorkersInv, StopKeepsSlots, Slots
<1>8. WorkersNamed' /\ sessions' \subseteq Workers /\ wk' \in [Workers -> WorkerType]
  BY <1>0, <1>1 DEF WorkersInv, WorkersNamed
<1>9. WorkersInv' /\ RestOK'
  BY <1>0, <1>2, <1>5, <1>6, <1>7, <1>8 DEF WorkersInv, RestOK, ClaimNothing
<1> QED
  BY <1>4, <1>9, HalvesPrime

-----------------------------------------------------------------------------
(* The steps of a worker *)

\* Steps that read and finish: the attempt goes on to its cleanup.
LEMMA FinishPreserves ==
    ASSUME IInv, NEW w \in Workers, wk[w].pc \in WithSession \cup {"claimed", "gated"},
           NEW result, Finish(w, result), faults' \in 0..MaxFaults,
           UNCHANGED <<sessions, orphans, late, removed, veto, stop, owed>>
    PROVE  IInv'
<1>0. RowsInv /\ WorkersInv /\ RestOK
  BY Halves
<1>1. wk[w].pc # "idle" /\ wk \in [Workers -> WorkerType]
  BY <1>0 DEF WithSession, WorkersInv
<1>2. wk[w].job \in Jobs
  BY <1>0, <1>1, WorkMeansSlots
<1>3. /\ RowsInv' /\ UNCHANGED slot
      /\ \E pc \in {"closing", "waking"} : Step(w, pc)
  BY <1>0, <1>1, <1>2, FinishStep
<1>4. PICK pc \in {"closing", "waking"} : Step(w, pc)
  BY <1>3
<1>5. pc \in WithSession /\ pc # "retiring" /\ sessions' \subseteq sessions \cup {w}
  BY DEF WithSession
<1>6. WorkersInv'
  BY <1>0, <1>1, <1>3, <1>4, <1>5, WorkerSteps
<1>7. RestOK'
  BY <1>0 DEF RestOK
<1> QED
  BY <1>3, <1>6, <1>7, HalvesPrime

\* Steps that change nothing but the control state of the worker, and its
\* session.
LEMMA LocalPreserves ==
    ASSUME IInv, NEW w \in Workers, wk[w].pc # "idle",
           NEW pc \in WithSession \cup {"claimed", "gated", "release"}, Step(w, pc),
           UNCHANGED <<job, frame, wait, slot, orphans, late, removed, veto, stop, owed, faults>>,
           sessions' \subseteq sessions \cup {w}, w \in sessions' => pc \in WithSession
    PROVE  IInv'
<1>0. RowsInv /\ WorkersInv /\ RestOK
  BY Halves
<1>1. RowsInv'
  BY <1>0, RowsKept DEF RowsInv, RowsAgree, RowAgrees
<1>2. WorkersInv'
  <2>1. pc # "retiring"
    BY DEF WithSession
  <2> QED
    BY <1>0, <2>1, WorkerSteps
<1>3. RestOK'
  BY <1>0 DEF RestOK
<1> QED
  BY <1>1, <1>2, <1>3, HalvesPrime
\* The steps of an attempt until its cleanup.
LEMMA ExecutePreserves ==
    ASSUME IInv, NEW w \in Workers,
           \/ ExecuteGate(w) \/ ExecuteOpen(w) \/ ExecutePrepare(w) \/ ExecuteModel(w)
           \/ \E answer \in Answers : ExecuteCharge(w, answer)
           \/ ExecuteFails(w) \/ ExecuteFinish(w)
    PROVE  IInv'
<1>0. /\ RowsInv /\ WorkersInv /\ RestOK /\ faults \in 0..MaxFaults /\ MaxFaults \in Nat
      /\ wk \in [Workers -> WorkerType] /\ wk[w] \in WorkerType
      /\ w \in sessions => wk[w].pc \in WithSession
  BY Halves, ObserverAssumption DEF RestOK, WorkersInv, WorkersNamed
<1>1. Fault => faults' \in 0..MaxFaults
  BY <1>0 DEF Fault
<1>2. CASE ExecuteGate(w)
  <2>0. /\ wk[w].pc = "claimed" /\ UNCHANGED <<sessions, orphans, late, removed, veto, stop, owed>>
        /\ w \notin sessions
    BY <1>0, <1>2 DEF ExecuteGate, WithSession
  <2>1. CASE Admitted(w) /\ Step(w, "gated") /\ UNCHANGED <<db, faults>>
    <3>1. wk[w].pc # "idle" /\ w \notin sessions' /\ sessions' \subseteq sessions \cup {w}
      BY <2>0
    <3> QED
      BY <2>0, <2>1, <3>1, LocalPreserves DEF db
  <2>2. CASE Finish(w, "failed") /\ faults' \in 0..MaxFaults
    BY <2>0, <2>2, FinishPreserves
  <2> QED
    BY <1>0, <1>1, <1>2, <2>1, <2>2 DEF ExecuteGate
<1>3. CASE ExecuteOpen(w)
  <2>1. /\ wk[w].pc # "idle" /\ Step(w, "open") /\ sessions' = sessions \cup {w} /\ "open" \in WithSession
        /\ UNCHANGED <<db, orphans, late, removed, veto, stop, owed, faults>>
    BY <1>3 DEF ExecuteOpen, WithSession
  <2> QED
    BY <2>1, LocalPreserves DEF db
<1>4. CASE ExecutePrepare(w)
  <2>0. /\ wk[w].pc = "open" /\ "open" \in WithSession
        /\ UNCHANGED <<sessions, orphans, late, removed, veto, stop, owed, faults>>
    BY <1>4 DEF ExecutePrepare, WithSession
  <2>1. CASE Finish(w, "ended") \/ Finish(w, "failed")
    BY <1>0, <2>0, <2>1, FinishPreserves
  <2>2. CASE /\ wk' = [wk EXCEPT ![w].pc = "admitted",
                                 ![w].ready = Ready(wk[w].job) /\ ~wait[wk[w].job].consumed]
             /\ UNCHANGED db
    <3> DEFINE ready == Ready(wk[w].job) /\ ~wait[wk[w].job].consumed
               x == [wk[w] EXCEPT !.pc = "admitted", !.ready = ready]
    <3>1. ready \in BOOLEAN
      OBVIOUS
    <3>2. wk' = [wk EXCEPT ![w] = x]
      BY <1>0, <2>2
    <3> HIDE DEF ready
    <3>3. x \in WorkerType /\ x.pc = "admitted" /\ x.job = wk[w].job /\ x.attempt = wk[w].attempt
      BY <1>0, <3>1 DEF WorkerType, WithSession
    <3> HIDE DEF x
    <3>4. WorkersInv'
      <4>1. "admitted" \in WithSession /\ UNCHANGED <<slot, removed, veto, stop, sessions>>
        BY <2>0, <2>2 DEF db, WithSession
      <4> QED
        BY <1>0, <2>0, <3>2, <3>3, <4>1, WorkerMoves
    <3>5. RowsInv'
      BY <1>0, <2>2, RowsKept DEF db, RowsInv, RowsAgree, RowAgrees
    <3>6. RestOK'
      BY <1>0, <2>0 DEF RestOK
    <3> QED
      BY <3>4, <3>5, <3>6, HalvesPrime
  <2> QED
    BY <1>4, <2>1, <2>2 DEF ExecutePrepare
<1>5. CASE ExecuteModel(w)
  <2>1. /\ wk[w].pc # "idle" /\ Step(w, "thinking") /\ "thinking" \in WithSession
        /\ UNCHANGED <<db, sessions, orphans, late, removed, veto, stop, owed, faults>>
    BY <1>5 DEF ExecuteModel, WithSession
  <2>2. sessions' \subseteq sessions \cup {w}
    BY <2>1
  <2> QED
    BY <2>1, <2>2, LocalPreserves DEF db
<1>6. ASSUME NEW answer \in Answers, ExecuteCharge(w, answer) PROVE IInv'
  <2>0. /\ wk[w].pc = "thinking" /\ "thinking" \in WithSession
        /\ UNCHANGED <<sessions, orphans, late, removed, veto, stop, owed, faults>>
    BY <1>6 DEF ExecuteCharge, WithSession
  <2>1. CASE Finish(w, "ended")
    BY <1>0, <2>0, <2>1, FinishPreserves
  <2>2. CASE /\ UNCHANGED <<job, frame, wait, slot>>
             /\ wk' = [wk EXCEPT ![w].pc = "charged", ![w].answer = answer]
    <3> DEFINE x == [wk[w] EXCEPT !.pc = "charged", !.answer = answer]
    <3>1. wk' = [wk EXCEPT ![w] = x]
      BY <1>0, <2>2
    <3>2. x \in WorkerType /\ x.pc = "charged" /\ x.job = wk[w].job /\ x.attempt = wk[w].attempt
      BY <1>0 DEF WorkerType, WithSession
    <3> HIDE DEF x
    <3>3. WorkersInv'
      <4>1. "charged" \in WithSession /\ UNCHANGED <<slot, removed, veto, stop, sessions>>
        BY <2>0, <2>2 DEF WithSession
      <4> QED
        BY <1>0, <2>0, <3>1, <3>2, <4>1, WorkerMoves
    <3>4. RowsInv'
      BY <1>0, <2>2, RowsKept DEF RowsInv, RowsAgree, RowAgrees
    <3>5. RestOK'
      BY <1>0, <2>0 DEF RestOK
    <3> QED
      BY <3>3, <3>4, <3>5, HalvesPrime
  <2> QED
    BY <1>6, <2>1, <2>2 DEF ExecuteCharge
<1>7. CASE ExecuteFails(w)
  <2>1. /\ wk[w].pc \in WithSession /\ Fault /\ Finish(w, "ended")
        /\ UNCHANGED <<sessions, orphans, late, removed, veto, stop, owed>>
    BY <1>7 DEF ExecuteFails, WithSession
  <2> QED
    BY <1>1, <2>1, FinishPreserves
<1>8. CASE ExecuteFinish(w)
  <2>1. /\ wk[w].pc \in WithSession /\ Finish(w, wk[w].answer)
        /\ UNCHANGED <<sessions, orphans, late, removed, veto, stop, owed, faults>>
    BY <1>8 DEF ExecuteFinish, WithSession
  <2> QED
    BY <1>0, <2>1, FinishPreserves
<1> QED
  BY <1>2, <1>3, <1>4, <1>5, <1>6, <1>7, <1>8
\* _private_wait: the worker's job waits for child c, or it ends.
Waits(w, c, n) ==
    LET j == wk[w].job IN
    /\ job' = [job EXCEPT ![j].status = "queued", ![c].status = "queued"]
    /\ Registered(j, c, n) /\ wait' = [wait EXCEPT ![j].state = "waiting"]
    /\ Step(w, "closing") /\ UNCHANGED slot

LEMMA WaitOutcomes ==
    ASSUME NEW w \in Workers, PrivateWait(w)
    PROVE  \/ Finish(w, "ended")
           \/ \E n \in 1..2 : \E c \in Children(wk[w].job) :
                 Current(w) /\ MayWait(wk[w].job, n) /\ Waits(w, c, n)
  BY DEF PrivateWait, Waits

LEMMA PrivateWaitPreserves ==
    ASSUME IInv, NEW w \in Workers, PrivateWait(w)
    PROVE  IInv'
<1> DEFINE j == wk[w].job
<1>0. /\ RowsInv /\ WorkersInv /\ RestOK /\ faults \in 0..MaxFaults
      /\ wk[w].pc = "charged" /\ "charged" \in WithSession /\ wk[w].pc # "idle"
      /\ UNCHANGED <<sessions, orphans, late, removed, veto, stop, owed, faults>>
  BY Halves DEF RestOK, PrivateWait, WithSession
<1>1. j \in Jobs
  BY <1>0, WorkMeansSlots
<1>2. ASSUME NEW n \in 1..2, NEW c \in Children(j), Current(w), MayWait(j, n), Waits(w, c, n) PROVE IInv'
  <2>1. /\ job' = [job EXCEPT ![j].status = "queued", ![c].status = "queued"]
        /\ Registered(j, c, n) /\ wait' = [wait EXCEPT ![j].state = "waiting"]
        /\ Step(w, "closing") /\ UNCHANGED slot
    BY <1>2 DEF Waits
  <2>2. RowsInv'
    BY <1>0, <1>1, <1>2, <2>1, RegisteredRows DEF Current
  <2>3. "closing" \in WithSession /\ sessions' \subseteq sessions \cup {w}
    BY <1>0 DEF WithSession
  <2>4. WorkersInv'
    BY <1>0, <2>1, <2>3, WorkerSteps
  <2>5. RestOK'
    BY <1>0 DEF RestOK
  <2> QED
    BY <2>2, <2>4, <2>5, HalvesPrime
<1>3. CASE Finish(w, "ended")
  <2>1. faults' \in 0..MaxFaults
    BY <1>0
  <2> QED
    BY <1>0, <1>3, <2>1, FinishPreserves
<1> QED
  BY <1>2, <1>3, WaitOutcomes

\* The cleanup of an attempt, and the ways in which it is cut short.
LEMMA CleanupPreserves ==
    ASSUME IInv, NEW w \in Workers,
           \/ WakeParents(w) \/ CloseSession(w) \/ CloseFails(w) \/ ReleaseSlot(w)
           \/ ExecuteRetired(w) \/ RetiredWakes(w) \/ Crash(w)
    PROVE  IInv'
<1> DEFINE j == wk[w].job
<1>0. /\ RowsInv /\ WorkersInv /\ RestOK /\ faults \in 0..MaxFaults /\ MaxFaults \in Nat
      /\ slot \in [Jobs -> SlotType] /\ sessions \subseteq Workers
      /\ w \in sessions => wk[w].pc \in WithSession
  BY Halves, ObserverAssumption DEF RestOK, WorkersInv, WorkersNamed
<1>1. /\ wk[w].pc # "idle" /\ j \in Jobs /\ slot[j].owner = w /\ slot[j].attempt = wk[w].attempt
      /\ slot[j] \in SlotType /\ slot[j] # NoSlot
  <2>1. wk[w].pc # "idle"
    BY DEF WakeParents, CloseSession, CloseFails, ReleaseSlot, ExecuteRetired, RetiredWakes, Crash
  <2> QED
    BY <1>0, <2>1, WorkMeansSlots DEF Slots
<1>2. CASE WakeParents(w)
  <2>1. /\ Woken /\ Step(w, "closing") /\ "closing" \in WithSession
        /\ UNCHANGED <<frame, slot, sessions, orphans, late, removed, veto, stop, owed, faults>>
    BY <1>2 DEF WakeParents, WithSession
  <2>2. sessions' \subseteq sessions \cup {w}
    BY <2>1
  <2>3. RowsInv' /\ WorkersInv'
    BY <1>0, <1>1, <2>1, <2>2, WokenRows, WorkerSteps
  <2>4. RestOK'
    BY <1>0, <2>1 DEF RestOK
  <2> QED
    BY <2>3, <2>4, HalvesPrime
<1>3. CASE CloseSession(w)
  <2>1. /\ Step(w, "release") /\ sessions' = sessions \ {w}
        /\ UNCHANGED <<job, frame, wait, slot, orphans, late, removed, veto, stop, owed, faults>>
    BY <1>3 DEF CloseSession, db
  <2>2. sessions' \subseteq sessions \cup {w} /\ w \notin sessions'
    BY <2>1
  <2> QED
    BY <1>1, <2>1, <2>2, LocalPreserves
<1>4. CASE CloseFails(w)
  <2>1. /\ slot' = [slot EXCEPT ![j].failed = TRUE] /\ wk' = [wk EXCEPT ![w] = Idle]
        /\ sessions' = sessions \ {w} /\ orphans' = orphans \cup {j} /\ Fault
        /\ UNCHANGED <<job, frame, wait, late, removed, veto, stop, owed>>
    BY <1>1, <1>4 DEF CloseFails
  <2>2. /\ slot' \in [Jobs -> SlotType] /\ slot'[j].failed /\ \A k \in Jobs \ {j} : slot'[k] = slot[k]
    <3>1. [slot[j] EXCEPT !.failed = TRUE] \in SlotType
      BY <1>1 DEF SlotType
    <3> QED
      BY <1>0, <1>1, <2>1, <3>1 DEF SlotType
  <2>3. frame[j].state # "suspended"
    BY <1>0, <1>1 DEF RowsInv, RowsAgree, RowAgrees
  <2>4. RowsInv'
    <3>1. \A k \in Jobs : frame[k].state = "suspended" => slot'[k] = NoSlot
      BY <1>0, <2>2, <2>3 DEF RowsInv, RowsAgree, RowAgrees
    <3> QED
      BY <1>0, <2>1, <2>2, <3>1, RowsKept
  <2>5. WorkersInv'
    <3>1. \A k \in Jobs : slot[k].owner # w => slot'[k] = slot[k]
      BY <1>1, <2>2
    <3>2. \A k \in Jobs : slot'[k] = slot[k] \/ slot'[k].failed
      BY <2>2
    <3> QED
      BY <1>0, <1>1, <2>1, <2>2, <3>1, <3>2, WorkerRests
  <2>6. RestOK'
    BY <1>0, <1>1, <2>1 DEF RestOK, Fault
  <2> QED
    BY <2>4, <2>5, <2>6, HalvesPrime
<1>5. CASE ReleaseSlot(w)
  <2>1. RowsInv'
    BY <1>0, <1>1, <1>5, ReleaseRows
  <2>2. /\ slot' = [slot EXCEPT ![j] = NoSlot] /\ wk' = [wk EXCEPT ![w] = Idle]
        /\ UNCHANGED <<sessions, orphans, late, removed, veto, stop, owed, faults>>
    BY <1>0, <1>1, <1>5 DEF ReleaseSlot
  <2>3. w \notin sessions
    BY <1>0, <1>5 DEF ReleaseSlot, WithSession
  <2>4. slot' \in [Jobs -> SlotType] /\ slot'[j] = NoSlot /\ \A k \in Jobs \ {j} : slot'[k] = slot[k]
    BY <1>0, <1>1, <2>2, NoSlotType
  <2>5. WorkersInv'
    <3>1. \A k \in Jobs : slot[k].owner # w => slot'[k] = slot[k]
      BY <1>1, <2>4
    <3>2. sessions' \subseteq sessions \ {w}
      BY <2>2, <2>3
    <3>3. \A k \in Jobs : slot'[k] = slot[k] \/ slot'[k] = NoSlot
      BY <2>4
    <3> QED
      BY <1>0, <1>1, <2>2, <2>4, <3>1, <3>2, <3>3, WorkerRests
  <2>6. RestOK'
    BY <1>0, <2>2 DEF RestOK
  <2> QED
    BY <2>1, <2>5, <2>6, HalvesPrime
<1>6. CASE ExecuteRetired(w)
  <2>1. RowsInv'
    BY <1>0, <1>1, <1>6, RetiredRows
  <2>2. /\ wk' = [wk EXCEPT ![w] = Idle] \/ Step(w, "retiring")
        /\ Root(j) \in removed
        /\ UNCHANGED <<slot, sessions, orphans, late, removed, veto, stop, owed, faults>>
    BY <1>6 DEF ExecuteRetired
  <2>3. w \notin sessions
    BY <1>0, <1>6 DEF ExecuteRetired, WithSession
  <2>4. sessions' \subseteq sessions \ {w} /\ slot' \in [Jobs -> SlotType] /\ slot' = slot
    BY <1>0, <2>2, <2>3
  <2>5. ASSUME wk' = [wk EXCEPT ![w] = Idle] PROVE WorkersInv'
    BY <1>0, <1>1, <2>2, <2>4, <2>5, WorkerRests
  <2>6. ASSUME Step(w, "retiring") PROVE WorkersInv'
    <3>1. sessions' \subseteq sessions \cup {w} /\ w \notin sessions'
      BY <2>4
    <3> QED
      BY <1>0, <1>1, <2>2, <2>6, <3>1, WorkerSteps
  <2>7. RestOK'
    BY <1>0, <2>2 DEF RestOK
  <2> QED
    BY <2>1, <2>2, <2>5, <2>6, <2>7, HalvesPrime
<1>8. CASE RetiredWakes(w)
  <2>1. /\ Woken /\ wk' = [wk EXCEPT ![w] = Idle] /\ wk[w].pc = "retiring"
        /\ UNCHANGED <<frame, slot, sessions, orphans, late, removed, veto, stop, owed, faults>>
    BY <1>8 DEF RetiredWakes
  <2>2. w \notin sessions /\ Root(j) \in removed
    BY <1>0, <2>1 DEF WithSession, WorkersInv, WorkersNamed
  <2>3. sessions' \subseteq sessions \ {w} /\ slot' \in [Jobs -> SlotType] /\ slot' = slot
    BY <1>0, <2>1, <2>2
  <2>4. RowsInv'
    BY <1>0, <2>1, WokenRows
  <2>5. WorkersInv'
    BY <1>0, <1>1, <2>1, <2>2, <2>3, WorkerRests
  <2>6. RestOK'
    BY <1>0, <2>1 DEF RestOK
  <2> QED
    BY <2>4, <2>5, <2>6, HalvesPrime
<1>7. CASE Crash(w)
  <2>1. /\ slot' = [k \in Jobs |-> IF slot[k].owner = w THEN [slot[k] EXCEPT !.owner = Dead] ELSE slot[k]]
        /\ orphans' = (IF w \in sessions THEN orphans \cup {j} ELSE orphans) /\ Fault
        /\ sessions' = sessions \ {w} /\ wk' = [wk EXCEPT ![w] = Idle]
        /\ UNCHANGED <<job, frame, wait, late, removed, veto, stop, owed>>
    BY <1>7 DEF Crash
  <2>2. /\ slot' \in [Jobs -> SlotType]
        /\ \A k \in Jobs : slot[k].owner # w => slot'[k] = slot[k]
        /\ \A k \in Jobs : slot[k].owner = w => slot'[k].owner = Dead
    <3>1. \A k \in Jobs : slot[k] \in SlotType
      BY <1>0
    <3>2. \A k \in Jobs : [slot[k] EXCEPT !.owner = Dead] \in SlotType
      BY <3>1 DEF SlotType
    <3> QED
      BY <2>1, <3>1, <3>2 DEF SlotType
  <2>3. RowsInv'
    <3>1. NoSlot.owner # w
      BY ObserverAssumption DEF NoSlot
    <3>2. \A k \in Jobs : frame[k].state = "suspended" => slot'[k] = NoSlot
      BY <1>0, <2>2, <3>1 DEF RowsInv, RowsAgree, RowAgrees
    <3> QED
      BY <1>0, <2>1, <2>2, <3>2, RowsKept
  <2>4. WorkersInv'
    <3>1. slot'[j].owner = Dead /\ \A k \in Jobs : slot'[k] = slot[k] \/ slot'[k].owner = Dead
      BY <1>1, <2>2
    <3>2. sessions' \subseteq sessions \ {w}
      BY <2>1
    <3> QED
      BY <1>0, <1>1, <2>1, <2>2, <3>1, <3>2, WorkerRests
  <2>5. RestOK'
    BY <1>0, <1>1, <2>1 DEF RestOK, Fault
  <2> QED
    BY <2>3, <2>4, <2>5, HalvesPrime
<1> QED
  BY <1>2, <1>3, <1>4, <1>5, <1>6, <1>7, <1>8
-----------------------------------------------------------------------------
(* The other steps *)

\* A step that leaves the workers alone and keeps their slots and the stop.
LEMMA OutsidePreserves ==
    ASSUME IInv, RowsInv', RestOK', UNCHANGED <<slot, wk, sessions>>, removed \subseteq removed',
           UNCHANGED <<veto, stop>> \/ StopKeepsSlots'
    PROVE  IInv'
<1>1. WorkersInv /\ StopKeepsSlots
  BY Halves DEF WorkersInv
<1>2. StopKeepsSlots'
  BY <1>1 DEF StopKeepsSlots, Slots
<1>3. WorkersInv'
  BY <1>1, <1>2, WorkersKept
<1> QED
  BY <1>3, HalvesPrime

LEMMA ClaimPreserves ==
    ASSUME IInv, NEW w \in Workers, NEW j \in Jobs,
           ClaimExhausted(w, j) \/ \E gone \in SUBSET Lapsed : Claim(w, j, gone)
    PROVE  IInv'
<1>0. RowsInv /\ WorkersInv /\ RestOK /\ job \in [Jobs -> JobType]
  BY Halves DEF RowsInv
<1>1. CASE ClaimExhausted(w, j)
  <2>1. UNCHANGED <<slot, wk, sessions, orphans, late, removed, veto, stop, owed, faults>>
    BY <1>1 DEF ClaimExhausted
  <2>2. RowsInv' /\ RestOK' /\ removed \subseteq removed'
    BY <1>0, <1>1, <2>1, ExhaustedRows DEF RestOK
  <2> QED
    BY <2>1, <2>2, OutsidePreserves
<1>2. ASSUME NEW gone \in SUBSET Lapsed, Claim(w, j, gone) PROVE IInv'
  <2>1. RowsInv' /\ WorkersInv'
    BY <1>0, <1>2, ClaimRows, ClaimWorkers
  <2>2. RestOK'
    BY <1>0, <1>2 DEF Claim, RestOK
  <2> QED
    BY <2>1, <2>2, HalvesPrime
<1> QED
  BY <1>1, <1>2

LEMMA RootPreserves ==
    ASSUME IInv, NEW r \in Roots,
           \/ Submit(r) \/ DeadlinePasses(r) \/ Expire(r) \/ Cancel(r) \/ StopCancel(r) \/ RemoveSkill(r)
    PROVE  IInv'
<1>0. RowsInv /\ WorkersInv /\ RestOK /\ StopKeepsSlots /\ r \in Jobs /\ MaxFaults \in Nat
  BY Halves, ObserverAssumption DEF WorkersInv, Roots
<1>1. CASE Submit(r)
  <2>1. UNCHANGED <<slot, wk, sessions, orphans, late, removed, veto, stop, owed, faults>>
    BY <1>1 DEF Submit
  <2>2. RowsInv' /\ RestOK' /\ removed \subseteq removed'
    BY <1>0, <1>1, <2>1, SubmitRows DEF RestOK
  <2> QED
    BY <2>1, <2>2, OutsidePreserves
<1>2. CASE DeadlinePasses(r) \/ RemoveSkill(r)
  <2>1. /\ UNCHANGED <<job, frame, wait, slot, wk, sessions, orphans, veto, stop, owed>>
        /\ late' \in {late, late \cup {r}} /\ removed' \in {removed, removed \cup {r}}
        /\ faults' = faults \/ Fault
    BY <1>2 DEF DeadlinePasses, RemoveSkill, db
  <2>2. RowsInv'
    BY <1>0, <2>1, RowsKept DEF RowsInv, RowsAgree, RowAgrees
  <2>3. RestOK' /\ removed \subseteq removed'
    BY <1>0, <2>1 DEF RestOK, Fault
  <2> QED
    BY <2>1, <2>2, <2>3, OutsidePreserves
<1>3. CASE Expire(r)
  <2>1. /\ UNCHANGED <<slot, wk, sessions, orphans, late, removed, veto, stop, faults>>
        /\ owed' = (owed \/ \E j \in Tree(r) \ {r} : Live(j))
    BY <1>3 DEF Expire
  <2>2. RowsInv'
    BY <1>0, <1>3, ExpireRows
  <2>3. owed' \in BOOLEAN
    BY <2>1
  <2>4. RestOK' /\ removed \subseteq removed'
    BY <1>0, <2>1, <2>3 DEF RestOK
  <2> QED
    BY <2>1, <2>2, <2>4, OutsidePreserves
<1>4. CASE Cancel(r)
  <2>1. /\ UNCHANGED <<wait, slot, wk, sessions, orphans, late, removed, veto, stop, owed, faults>>
        /\ Live(r) /\ Cancelled(r)
    BY <1>4 DEF Cancel
  <2>2. RowsInv'
    BY <1>0, <2>1, CancelledStep
  <2>3. RestOK' /\ removed \subseteq removed'
    BY <1>0, <2>1 DEF RestOK
  <2> QED
    BY <2>1, <2>2, <2>3, OutsidePreserves
<1>5. CASE StopCancel(r)
  <2>1. /\ UNCHANGED <<wait, slot, wk, sessions, orphans, late, removed, veto, owed, faults>>
        /\ stop.pc = "cancelling" /\ stop' = [stop EXCEPT !.list = stop.list \ {r}]
        /\ IF Live(r) THEN Cancelled(r) ELSE UNCHANGED <<job, frame, turns>>
    BY <1>5 DEF StopCancel
  <2>2. RowsInv'
    <3>1. CASE Live(r)
      BY <1>0, <2>1, <3>1, CancelledStep
    <3>2. CASE ~Live(r)
      BY <1>0, <2>1, <3>2, RowsKept DEF RowsInv, RowsAgree, RowAgrees
    <3> QED
      BY <3>1, <3>2
  <2>3. stop' \in StopType /\ stop'.pc = "cancelling"
    <3>1. stop \in StopType
      BY <1>0 DEF RestOK
    <3> QED
      BY <2>1, <3>1 DEF StopType
  <2>4. RestOK' /\ removed \subseteq removed'
    BY <1>0, <2>1, <2>3 DEF RestOK
  <2>5. StopKeepsSlots'
    BY <2>3 DEF StopKeepsSlots
  <2> QED
    BY <2>1, <2>2, <2>4, <2>5, OutsidePreserves
<1> QED
  BY <1>1, <1>2, <1>3, <1>4, <1>5

LEMMA WatchdogPreserves ==
    ASSUME IInv, WatchdogWakes \/ \E j \in Jobs : ConsumeAck(j) \/ RetireWait(j) \/ Reclaim(j)
    PROVE  IInv'
<1>0. RowsInv /\ RestOK
  BY Halves
<1>1. CASE WatchdogWakes
  <2>1. /\ UNCHANGED <<frame, slot, wk, sessions, orphans, late, removed, veto, stop, faults>>
        /\ owed' = FALSE /\ Woken
    BY <1>1 DEF WatchdogWakes
  <2>2. RowsInv' /\ RestOK' /\ removed \subseteq removed'
    BY <1>0, <2>1, WokenRows DEF RestOK
  <2> QED
    BY <2>1, <2>2, OutsidePreserves
<1>2. ASSUME NEW j \in Jobs, ConsumeAck(j) PROVE IInv'
  <2>1. /\ UNCHANGED <<slot, wk, sessions, orphans, late, removed, veto, stop, faults>>
        /\ owed' = (owed \/ (~Live(j) /\ Parent[j] # NoJob))
    BY <1>2 DEF ConsumeAck
  <2>2. owed' \in BOOLEAN
    BY <2>1
  <2>3. RowsInv' /\ RestOK' /\ removed \subseteq removed'
    BY <1>0, <1>2, <2>1, <2>2, ConsumeAckRows DEF RestOK
  <2> QED
    BY <2>1, <2>3, OutsidePreserves
<1>3. ASSUME NEW j \in Jobs, RetireWait(j) PROVE IInv'
  <2>1. UNCHANGED <<slot, wk, sessions, orphans, late, removed, veto, stop, owed, faults>>
    BY <1>3 DEF RetireWait
  <2>2. RowsInv' /\ RestOK' /\ removed \subseteq removed'
    BY <1>0, <1>3, <2>1, RetireWaitRows DEF RestOK
  <2> QED
    BY <2>1, <2>2, OutsidePreserves
<1>4. ASSUME NEW j \in Jobs, Reclaim(j) PROVE IInv'
  <2>1. /\ UNCHANGED <<job, frame, wait, slot, wk, sessions, late, removed, veto, stop, owed, faults>>
        /\ orphans' = orphans \ {j}
    BY <1>4 DEF Reclaim, db
  <2>2. RowsInv'
    BY <1>0, <2>1, RowsKept DEF RowsInv, RowsAgree, RowAgrees
  <2>3. RestOK' /\ removed \subseteq removed'
    BY <1>0, <2>1 DEF RestOK
  <2> QED
    BY <2>1, <2>2, <2>3, OutsidePreserves
<1> QED
  BY <1>1, <1>2, <1>3, <1>4

\* The operator's stop: it settles on empty slots, and only a claim, which
\* the veto prevents, could fill them.
LEMMA StopPreserves ==
    ASSUME IInv, StopVeto \/ StopSettled \/ StopObserved \/ StopReturns \/ Resume
    PROVE  IInv'
<1>0. RowsInv /\ RestOK /\ StopKeepsSlots /\ stop \in StopType
  BY Halves DEF WorkersInv, RestOK
<1>1. UNCHANGED <<job, frame, wait, slot, wk, sessions, orphans, late, removed, owed, faults>>
  BY DEF StopVeto, StopSettled, StopObserved, StopReturns, Resume, db
<1>2. stop' \in StopType /\ veto' \in BOOLEAN /\ StopKeepsSlots'
  <2>1. CASE StopVeto
    <3>1. stop' = [pc |-> "cancelling", list |-> {r \in Roots : Live(r)}] /\ veto' = TRUE
      BY <2>1 DEF StopVeto
    <3> QED
      BY <3>1 DEF StopType, StopKeepsSlots
  <2>2. CASE StopSettled
    <3>1. stop' = [stop EXCEPT !.pc = "settled"] /\ veto' = veto /\ Slots = {}
      BY <2>2 DEF StopSettled, Quiet
    <3>2. Slots' = {}
      BY <1>1, <3>1 DEF Slots
    <3> QED
      BY <1>0, <3>1, <3>2 DEF StopType, StopKeepsSlots, RestOK
  <2>3. CASE StopObserved
    <3>1. stop.pc = "settled" /\ stop' = [stop EXCEPT !.pc = "observed"] /\ veto' = veto
      BY <2>3 DEF StopObserved
    <3>2. veto => Slots = {}
      BY <1>0, <3>1 DEF StopKeepsSlots
    <3> QED
      BY <1>0, <1>1, <3>1, <3>2 DEF StopType, StopKeepsSlots, RestOK, Slots
  <2>4. CASE StopReturns
    <3>1. /\ stop' = [stop EXCEPT !.pc = IF stop.pc = "observed" /\ Quiet THEN "released" ELSE "idle"]
          /\ veto' = veto
      BY <2>4 DEF StopReturns
    <3>2. stop' \in StopType /\ stop'.pc \in {"released", "idle"}
      BY <1>0, <3>1 DEF StopType
    <3>3. stop'.pc = "released" => stop.pc = "observed"
      BY <1>0, <3>1 DEF StopType
    <3> QED
      BY <1>0, <1>1, <3>1, <3>2, <3>3 DEF StopKeepsSlots, RestOK, Slots
  <2>5. CASE Resume
    BY <1>0, <2>5 DEF Resume, StopKeepsSlots
  <2> QED
    BY <2>1, <2>2, <2>3, <2>4, <2>5
<1>3. RowsInv'
  BY <1>0, <1>1, RowsKept DEF RowsInv, RowsAgree, RowAgrees
<1>4. RestOK' /\ removed \subseteq removed'
  BY <1>0, <1>1, <1>2 DEF RestOK
<1> QED
  BY <1>1, <1>2, <1>3, <1>4, OutsidePreserves

LEMMA JobsInit == Init => IInv
<1> SUFFICES ASSUME Init PROVE RowsInv /\ WorkersInv /\ RestOK
  BY Halves
<1>0. /\ MaxFailures \in Nat /\ MaxAttempts \in Nat /\ MaxFaults \in Nat
  BY ObserverAssumption
<1>1. /\ [status |-> "none", attempt |-> 0] \in JobType /\ NoFrame \in FrameType /\ NoWait \in WaitType
  <2>1. [status |-> "none", attempt |-> 0] \in JobType
    BY <1>0 DEF JobType, Statuses
  <2>2. NoFrame \in FrameType
    BY <1>0 DEF NoFrame, FrameType
  <2>3. NoWait \in WaitType
    BY DEF NoWait, WaitType
  <2> QED
    BY <2>1, <2>2, <2>3
<1>2. \A j \in Jobs : /\ job[j] = [status |-> "none", attempt |-> 0] /\ frame[j] = NoFrame
                      /\ wait[j] = NoWait /\ slot[j] = NoSlot
  BY DEF Init
<1>3. RowsInv
  <2>1. \A j \in Jobs : RowAgrees(j)
    BY <1>2 DEF RowAgrees, Live, NoFrame, NoWait
  <2>2. \A p \in Jobs : \A c \in Children(p) : TakesTurns(p, c)
    BY <1>2 DEF TakesTurns, Children, NoFrame, OpenStates
  <2>3. /\ job \in [Jobs -> JobType] /\ frame \in [Jobs -> FrameType]
        /\ wait \in [Jobs -> WaitType] /\ slot \in [Jobs -> SlotType]
    BY <1>1, NoSlotType DEF Init
  <2> QED
    BY <2>1, <2>2, <2>3 DEF RowsInv, RowsAgree, FamiliesTakeTurns
<1>4. WorkersInv
  <2>1. \A w \in Workers : wk[w] = Idle
    BY DEF Init
  <2>2. WorkersNamed /\ SlotPerWorker
    BY <2>1, NoSlotType, ObserverAssumption DEF WorkersNamed, SlotPerWorker, Init
  <2>3. Slots = {}
    BY <1>2 DEF Slots
  <2>4. SlotsAccounted /\ StopKeepsSlots
    BY <2>3 DEF SlotsAccounted, StopKeepsSlots
  <2>5. slot \in [Jobs -> SlotType] /\ wk \in [Workers -> WorkerType] /\ sessions \subseteq Workers
    BY NoSlotType DEF Init
  <2> QED
    BY <2>2, <2>4, <2>5 DEF WorkersInv
<1>5. RestOK
  <2>1. stop \in StopType
    BY DEF Init, StopType
  <2>2. faults \in 0..MaxFaults
    BY <1>0 DEF Init
  <2>3. /\ orphans \subseteq Jobs /\ late \subseteq Roots /\ removed \subseteq Roots
        /\ veto \in BOOLEAN /\ owed \in BOOLEAN
    BY DEF Init
  <2> QED
    BY <2>1, <2>2, <2>3 DEF RestOK
<1> QED
  BY <1>3, <1>4, <1>5

LEMMA JobsStep == IInv /\ [Next]_vars => IInv'
<1> SUFFICES ASSUME IInv, [Next]_vars PROVE IInv'
  OBVIOUS
<1>1. CASE UNCHANGED vars
  <2>1. RowsInv' /\ RestOK' /\ UNCHANGED <<slot, wk, sessions, removed, veto, stop>>
    <3>0. RowsInv /\ RestOK
      BY Halves
    <3>1. UNCHANGED <<job, frame, wait, slot, wk, sessions, orphans, late, removed, veto, stop, owed, faults>>
      BY <1>1 DEF vars
    <3>2. RowsInv'
      BY <3>0, <3>1, RowsKept DEF RowsInv, RowsAgree, RowAgrees
    <3> QED
      BY <3>0, <3>1, <3>2 DEF RestOK
  <2>2. removed \subseteq removed'
    BY <2>1
  <2> QED
    BY <2>1, <2>2, OutsidePreserves
<1>2. ASSUME NEW w \in Workers, WorkerStep(w) PROVE IInv'
  BY <1>2, ExecutePreserves, PrivateWaitPreserves, CleanupPreserves DEF WorkerStep
<1>3. ASSUME NEW w \in Workers, Crash(w) PROVE IInv'
  BY <1>3, CleanupPreserves
<1>4. ASSUME NEW w \in Workers, NEW gone \in SUBSET Lapsed,
             ClaimNothing(w, gone) \/ \E j \in Jobs : Claim(w, j, gone)
      PROVE  IInv'
  BY <1>4, SweepPreserves, ClaimPreserves
<1> QED
  BY <1>1, <1>2, <1>3, <1>4, ClaimPreserves, RootPreserves, WatchdogPreserves, StopPreserves DEF Next

\* What a run checks of a state follows from the inductive invariant.
LEMMA JobsImplied == IInv => SlotInv /\ ParentReleasedFirst /\ StoppedIsReleased
<1> SUFFICES ASSUME IInv PROVE SlotInv /\ ParentReleasedFirst /\ StoppedIsReleased
  OBVIOUS
<1>0. RowsInv /\ WorkersInv
  BY Halves
<1>1. SlotInv
  BY DEF IInv, SlotInv
<1>2. ParentReleasedFirst
  <2> SUFFICES ASSUME NEW c \in Jobs \ Roots, job[c].status = "running" PROVE slot[Parent[c]] = NoSlot
    BY DEF ParentReleasedFirst
  <2>1. Parent[c] \in Jobs /\ c \in Children(Parent[c])
    BY ObserverAssumption DEF Roots, Children
  <2>2. frame[c].state = "running"
    BY <1>0 DEF RowsInv, RowsAgree, RowAgrees
  <2>3. TakesTurns(Parent[c], c)
    BY <1>0, <2>1 DEF RowsInv, FamiliesTakeTurns
  <2>4. frame[Parent[c]].state = "suspended"
    BY <2>2, <2>3 DEF TakesTurns, OpenStates
  <2> QED
    BY <1>0, <2>1, <2>4 DEF RowsInv, RowsAgree, RowAgrees
<1>3. StoppedIsReleased
  <2> SUFFICES ASSUME stop.pc = "released", veto PROVE sessions = {} /\ Slots = {}
    BY DEF StoppedIsReleased
  <2>1. Slots = {}
    BY <1>0 DEF WorkersInv, StopKeepsSlots
  <2>2. ASSUME NEW w \in sessions PROVE FALSE
    <3>1. w \in Workers /\ wk[w].pc # "idle"
      BY <1>0 DEF WorkersInv, WorkersNamed, WithSession
    <3> QED
      BY <1>0, <2>1, <3>1, WorkMeansSlots
  <2> QED
    BY <2>1, <2>2
<1> QED
  BY <1>1, <1>2, <1>3

LEMMA JobsInductive == Spec => []IInv
<1> QED
  BY JobsInit, JobsStep, PTL DEF Spec

\* Every slot has one worker or is about to be given back: whatever the claims,
\* the crashes, the reclaimed slots and the expiries, a live worker past
\* claim holds the slot of its own attempt and nobody else executes its job.
THEOREM SlotsHaveOneWorker == Spec => []SlotInv
<1> QED
  BY JobsInductive, JobsImplied, PTL

\* A child never works while its parent occupies a slot: claim passes a child
\* over until the release of its parent's slot was verified, in any order of
\* claims, wakes, retries and cancellations.
THEOREM ChildrenWaitForRelease == Spec => []ParentReleasedFirst
<1> QED
  BY JobsInductive, JobsImplied, PTL

\* A stop that reports a release tells the truth until the veto is lifted: no
\* session is open and no slot is occupied, although claims and releases go
\* on between the transactions of the stop.
THEOREM StopMeansReleased == Spec => []StoppedIsReleased
<1> QED
  BY JobsInductive, JobsImplied, PTL

EndsKept == \A j \in Jobs : job[j].status \in Terminal => job'[j].status = job[j].status

LEMMA CancelKeepsEnds ==
    ASSUME NEW jb, NEW js, NEW j \in Jobs, jb[j].status \in Terminal
    PROVE  CancelledJobs(jb, js)[j].status = jb[j].status
  BY DEF CancelledJobs

\* finish and its callers touch the row of a running job and of live
\* descendants.
LEMMA FinishKeepsEnds ==
    ASSUME IInv, NEW w \in Workers, NEW result, wk[w].pc # "idle", Finish(w, result)
    PROVE  EndsKept
<1> DEFINE j == wk[w].job
<1>0. job \in [Jobs -> JobType] /\ j \in Jobs
  BY Halves DEF RowsInv, WorkersInv, WorkersNamed
<1>1. CASE ~Current(w)
  BY <1>1 DEF Finish, EndsKept, db
<1>2. CASE Current(w)
  <2>1. PICK status : \/ job' = CancelledJobs([job EXCEPT ![j].status = status], Descendants(j))
                      \/ job' = [job EXCEPT ![j].status = status]
    BY <1>2 DEF Finish
  <2>2. job[j].status = "running" /\ "running" \notin Terminal
    BY <1>2 DEF Current, Terminal
  <2>3. ASSUME NEW k \in Jobs, job[k].status \in Terminal
        PROVE  [job EXCEPT ![j].status = status][k].status = job[k].status
    BY <1>0, <2>2, <2>3
  <2>4. ASSUME NEW k \in Jobs, job[k].status \in Terminal PROVE job'[k].status = job[k].status
    <3> DEFINE jb == [job EXCEPT ![j].status = status]
    <3>1. jb[k].status = job[k].status
      BY <2>3, <2>4
    <3>2. job' = CancelledJobs(jb, Descendants(j)) \/ job' = jb
      BY <2>1
    <3> HIDE DEF jb
    <3>3. CancelledJobs(jb, Descendants(j))[k].status = jb[k].status
      BY <2>4, <3>1, CancelKeepsEnds
    <3> QED
      BY <3>1, <3>2, <3>3
  <2> QED
    BY <2>4 DEF EndsKept
<1> QED
  BY <1>1, <1>2

LEMMA WorkerKeepsEnds ==
    ASSUME IInv, NEW w \in Workers, WorkerStep(w)
    PROVE  EndsKept
<1> DEFINE j == wk[w].job
<1>0. /\ job \in [Jobs -> JobType] /\ RowsInv
      /\ wk[w].pc # "idle" => j \in Jobs
      /\ "running" \notin Terminal /\ "none" \notin Terminal
  BY Halves DEF RowsInv, WorkersInv, WorkersNamed, Terminal
<1>1. ASSUME wk[w].pc # "idle", \E result : Finish(w, result) PROVE EndsKept
  BY <1>1, FinishKeepsEnds
<1>2. ASSUME UNCHANGED job PROVE EndsKept
  BY <1>2 DEF EndsKept
<1>3. CASE ExecuteRetired(w)
  <2>1. CASE ~Current(w)
    BY <1>2, <1>3, <2>1 DEF ExecuteRetired
  <2>2. CASE Current(w)
    <3>1. /\ job' = CancelledJobs([job EXCEPT ![j].status = "ended"], Descendants(j))
          /\ job[j].status = "running" /\ j \in Jobs
      BY <1>0, <1>3, <2>2 DEF ExecuteRetired, Current
    <3>2. ASSUME NEW k \in Jobs, job[k].status \in Terminal
          PROVE  [job EXCEPT ![j].status = "ended"][k].status = job[k].status
      BY <1>0, <3>1, <3>2
    <3>3. ASSUME NEW k \in Jobs, job[k].status \in Terminal PROVE job'[k].status = job[k].status
      <4> DEFINE jb == [job EXCEPT ![j].status = "ended"]
      <4>1. jb[k].status = job[k].status /\ job' = CancelledJobs(jb, Descendants(j))
        BY <3>1, <3>2, <3>3
      <4> HIDE DEF jb
      <4>2. CancelledJobs(jb, Descendants(j))[k].status = jb[k].status
        BY <3>3, <4>1, CancelKeepsEnds
      <4> QED
        BY <4>1, <4>2
    <3> QED
      BY <3>3 DEF EndsKept
  <2> QED
    BY <2>1, <2>2
<1>4. CASE ExecuteGate(w)
  <2>1. wk[w].pc # "idle" /\ (UNCHANGED job \/ Finish(w, "failed"))
    BY <1>4 DEF ExecuteGate, db
  <2> QED
    BY <1>1, <1>2, <2>1
<1>5. CASE ExecuteOpen(w) \/ ExecuteModel(w) \/ CloseSession(w) \/ CloseFails(w) \/ ReleaseSlot(w)
  BY <1>2, <1>5 DEF ExecuteOpen, ExecuteModel, CloseSession, CloseFails, ReleaseSlot, db
<1>6. CASE ExecutePrepare(w)
  <2>1. wk[w].pc # "idle" /\ (UNCHANGED job \/ Finish(w, "ended") \/ Finish(w, "failed"))
    BY <1>6 DEF ExecutePrepare, db
  <2> QED
    BY <1>1, <1>2, <2>1
<1>7. CASE \E answer \in Answers : ExecuteCharge(w, answer)
  <2>1. wk[w].pc # "idle" /\ (UNCHANGED job \/ Finish(w, "ended"))
    BY <1>7 DEF ExecuteCharge
  <2> QED
    BY <1>1, <1>2, <2>1
<1>8. CASE ExecuteFails(w) \/ ExecuteFinish(w)
  BY <1>1, <1>8 DEF ExecuteFails, ExecuteFinish
<1>9. CASE PrivateWait(w)
  <2>1. ASSUME NEW n \in 1..2, NEW c \in Children(j), Current(w), MayWait(j, n), Waits(w, c, n) PROVE EndsKept
    <3>1. job' = [job EXCEPT ![j].status = "queued", ![c].status = "queued"]
      BY <2>1 DEF Waits
    <3>2. j \in Jobs /\ job[j].status = "running" /\ wait[j].state = "none"
      BY <1>0, <1>9, <2>1 DEF PrivateWait, Current, MayWait
    <3>3. c \in Jobs /\ job[c].status = "none"
      BY <1>0, <3>2 DEF RowsInv, FamiliesTakeTurns, TakesTurns, Children
    <3> QED
      BY <1>0, <3>1, <3>2, <3>3 DEF EndsKept
  <2>2. CASE Finish(w, "ended")
    BY <1>1, <1>9, <2>2 DEF PrivateWait
  <2> QED
    BY <1>9, <2>1, <2>2, WaitOutcomes
<1>10. CASE WakeParents(w) \/ RetiredWakes(w)
  BY <1>0, <1>10 DEF WakeParents, RetiredWakes, Woken, EndsKept, Live
<1> QED
  BY <1>3, <1>4, <1>5, <1>6, <1>7, <1>8, <1>9, <1>10 DEF WorkerStep

LEMMA OthersKeepEnds ==
    ASSUME IInv,
           \/ \E w \in Workers :
                 \/ \E j \in Jobs : ClaimExhausted(w, j)
                 \/ \E gone \in SUBSET Lapsed : ClaimNothing(w, gone) \/ \E j \in Jobs : Claim(w, j, gone)
           \/ \E r \in Roots : Submit(r) \/ DeadlinePasses(r) \/ Expire(r) \/ Cancel(r)
                                \/ StopCancel(r) \/ RemoveSkill(r)
           \/ \E j \in Jobs : ConsumeAck(j) \/ RetireWait(j) \/ Reclaim(j)
           \/ WatchdogWakes \/ StopVeto \/ StopSettled \/ StopObserved \/ StopReturns \/ Resume
    PROVE  EndsKept
<1>0. /\ job \in [Jobs -> JobType] /\ "none" \notin Terminal
      /\ \A j \in Jobs : Live(j) => job[j].status \notin Terminal
  BY Halves DEF RowsInv, Terminal, Live
<1>1. ASSUME NEW r \in Roots, Live(r), Cancelled(r) PROVE EndsKept
  <2>1. job' = CancelledJobs([job EXCEPT ![r] = [status |-> "cancelled", attempt |-> @.attempt + 1]],
                             Descendants(r))
    BY <1>1 DEF Cancelled
  <2>2. ASSUME NEW k \in Jobs, job[k].status \in Terminal
        PROVE  [job EXCEPT ![r] = [status |-> "cancelled", attempt |-> @.attempt + 1]][k].status = job[k].status
    BY <1>0, <1>1, <2>2 DEF Roots
  <2>3. ASSUME NEW k \in Jobs, job[k].status \in Terminal PROVE job'[k].status = job[k].status
    <3> DEFINE jb == [job EXCEPT ![r] = [status |-> "cancelled", attempt |-> @.attempt + 1]]
    <3>1. jb[k].status = job[k].status /\ job' = CancelledJobs(jb, Descendants(r))
      BY <2>1, <2>2, <2>3
    <3> HIDE DEF jb
    <3>2. CancelledJobs(jb, Descendants(r))[k].status = jb[k].status
      BY <2>3, <3>1, CancelKeepsEnds
    <3> QED
      BY <3>1, <3>2
  <2> QED
    BY <2>3 DEF EndsKept
<1>2. ASSUME UNCHANGED job PROVE EndsKept
  BY <1>2 DEF EndsKept
<1>3. ASSUME NEW w \in Workers, NEW j \in Jobs,
             ClaimExhausted(w, j) \/ \E gone \in SUBSET Lapsed : Claim(w, j, gone)
      PROVE  EndsKept
  <2>1. job[j].status \notin Terminal
    BY <1>0, <1>3 DEF ClaimExhausted, Claim, Dispatchable
  <2>2. \A k \in Jobs \ {j} : job'[k] = job[k]
    BY <1>0, <1>3 DEF ClaimExhausted, Claim
  <2> QED
    BY <2>1, <2>2 DEF EndsKept
<1>4. ASSUME NEW r \in Roots, Submit(r) \/ Expire(r) \/ Cancel(r) \/ StopCancel(r) PROVE EndsKept
  <2>1. CASE Submit(r)
    BY <1>0, <2>1 DEF Submit, EndsKept, Roots
  <2>2. CASE Expire(r)
    BY <1>0, <2>2 DEF Expire, EndsKept
  <2>3. CASE Cancel(r)
    BY <1>1, <2>3 DEF Cancel
  <2>4. CASE StopCancel(r)
    BY <1>1, <1>2, <2>4 DEF StopCancel
  <2> QED
    BY <1>4, <2>1, <2>2, <2>3, <2>4
<1>5. ASSUME NEW r \in Roots, DeadlinePasses(r) \/ RemoveSkill(r) PROVE EndsKept
  BY <1>2, <1>5 DEF DeadlinePasses, RemoveSkill, db
<1>6. ASSUME NEW j \in Jobs, ConsumeAck(j) \/ RetireWait(j) \/ Reclaim(j) PROVE EndsKept
  BY <1>2, <1>6 DEF ConsumeAck, RetireWait, Reclaim, db
<1>7. CASE WatchdogWakes
  BY <1>0, <1>7 DEF WatchdogWakes, Woken, EndsKept
<1>8. CASE StopVeto \/ StopSettled \/ StopObserved \/ StopReturns \/ Resume
  BY <1>2, <1>8 DEF StopVeto, StopSettled, StopObserved, StopReturns, Resume, db
<1>9. ASSUME NEW w \in Workers, NEW gone \in SUBSET Lapsed, ClaimNothing(w, gone) PROVE EndsKept
  BY <1>2, <1>9 DEF ClaimNothing
<1> QED
  BY <1>3, <1>4, <1>5, <1>6, <1>7, <1>8, <1>9

LEMMA NextKeepsEnds == IInv /\ [Next]_vars => [EndsKept]_vars
<1> SUFFICES ASSUME IInv, Next PROVE EndsKept
  OBVIOUS
<1>1. CASE \E w \in Workers : WorkerStep(w)
  BY <1>1, WorkerKeepsEnds
<1>2. CASE ~\E w \in Workers : WorkerStep(w)
  <2>1. CASE \E w \in Workers : Crash(w)
    BY <2>1 DEF Crash, EndsKept
  <2>2. CASE ~\E w \in Workers : Crash(w)
    BY <1>2, <2>2, OthersKeepEnds DEF Next
  <2> QED
    BY <2>1, <2>2
<1> QED
  BY <1>1, <1>2

\* A job that has ended never changes again: the answer of a worker that was
\* overtaken, a wake, the expiry of its tree and a cancellation leave it
\* alone, in any interleaving.  This is the safety half of JobsEnd.
THEOREM EndsAreFinal == Spec => EndIsFinal
<1>1. IInv /\ [Next]_vars => [\A j \in Jobs : job[j].status \in Terminal => job'[j].status = job[j].status]_vars
  BY NextKeepsEnds DEF EndsKept
<1> QED
  BY <1>1, JobsInductive, PTL DEF Spec, EndIsFinal
-----------------------------------------------------------------------------
(* The turns: what a tree has used and set aside *)

\* The job at the top of a tree is its own root, and children share the root
\* of their parent.
LEMMA RootFacts ==
    /\ \A j \in Jobs : Root(j) \in Roots /\ Root(j) \in Jobs
    /\ \A r \in Roots : r \in Jobs /\ Root(r) = r
    /\ \A j \in Jobs : \A c \in Children(j) : c \in Jobs /\ c \notin Roots /\ Root(c) = Root(j)
<1>1. \A r \in Roots : r \in Jobs /\ Up(r) = r /\ Root(r) = r
  BY DEF Roots, Root, Up
<1>2. \A j \in Jobs : Root(j) \in Roots /\ Root(j) \in Jobs
  BY <1>1, DepthAssumption
<1>3. ASSUME NEW j \in Jobs, NEW c \in Children(j)
      PROVE  c \in Jobs /\ c \notin Roots /\ Root(c) = Root(j)
  <2>1. c \in Jobs /\ Parent[c] = j /\ j # NoJob
    BY ObserverAssumption DEF Children
  <2>2. c \notin Roots /\ Root(c) = Up(j)
    BY <2>1 DEF Roots, Root, Up
  <2>3. Up(Up(j)) = Up(j)
    BY <1>1, <1>2, <2>1, <2>2
  <2> QED
    BY <2>1, <2>2, <2>3 DEF Root
<1> QED
  BY <1>1, <1>2, <1>3

\* A tree is the set of the jobs with one root, and it is finite.
LEMMA TreeIsClass ==
    ASSUME NEW r \in Roots
    PROVE  Tree(r) = {k \in Jobs : Root(k) = r} /\ IsFiniteSet(Tree(r))
<1>0. r \in Jobs /\ Root(r) = r /\ r # NoJob /\ Parent[r] = NoJob
  BY RootFacts, ObserverAssumption DEF Roots
<1>1. ASSUME NEW k \in Tree(r) PROVE k \in Jobs /\ Root(k) = r
  <2>1. CASE k = r
    BY <1>0, <2>1
  <2>2. CASE k \in Children(r)
    BY <1>0, <2>2, RootFacts
  <2>3. ASSUME NEW m \in Children(r), k \in Children(m) PROVE k \in Jobs /\ Root(k) = r
    BY <1>0, <2>3, RootFacts
  <2> QED
    BY <1>1, <2>1, <2>2, <2>3 DEF Tree, Descendants
<1>2. ASSUME NEW k \in Jobs, Root(k) = r PROVE k \in Tree(r)
  <2>1. CASE Parent[k] = NoJob
    BY <1>2, <2>1, RootFacts DEF Roots, Tree
  <2>2. CASE Parent[k] # NoJob
    <3>1. Parent[k] \in Jobs /\ k \in Children(Parent[k]) /\ r = Up(Parent[k])
      BY <1>2, <2>2, ObserverAssumption DEF Children, Root, Up
    <3>2. Parent[k] = r \/ Parent[k] \in Children(r)
      BY <3>1 DEF Up, Children
    <3> QED
      BY <3>1, <3>2 DEF Tree, Descendants
  <2> QED
    BY <2>1, <2>2
<1> QED
  BY <1>1, <1>2, TreeAssumption

\* The budget of a table of turns; used and reserved turns are bounded by it.
Accounts(t) ==
    /\ t \in [Jobs -> [used : Nat, reserved : Nat, held : 0..TurnLimit]]
    /\ \A j \in Jobs : t[j].used <= t[Root(j)].used
    /\ \A r \in Roots : /\ t[r].held = SumFunctionOnSet(ReservedOf(t), Tree(r))
                        /\ t[r].used + t[r].held <= TurnLimit

LEMMA ReservedNat ==
    ASSUME NEW t \in [Jobs -> [used : Nat, reserved : Nat, held : 0..TurnLimit]]
    PROVE  \A j \in Jobs : ReservedOf(t)[j] = t[j].reserved /\ t[j].reserved \in Nat
  BY DEF ReservedOf

LEMMA BudgetAccounts == TurnBudget /\ TurnsAgree => Accounts(turns)
<1> SUFFICES ASSUME TurnBudget, TurnsAgree PROVE Accounts(turns)
  OBVIOUS
<1>1. turns \in [Jobs -> [used : Nat, reserved : Nat, held : 0..TurnLimit]]
  <2>1. turns \in [Jobs -> [used : 0..TurnLimit, reserved : 0..TurnLimit, held : 0..TurnLimit]]
    BY DEF TurnBudget
  <2>2. 0..TurnLimit \subseteq Nat
    BY ObserverAssumption
  <2> HIDE DEF TurnBudget
  <2> QED
    BY <2>1, <2>2
<1> QED
  BY <1>1 DEF TurnBudget, TurnsAgree, Accounts

LEMMA AccountsBudget ==
    ASSUME NEW t, Accounts(t)
    PROVE  t \in [Jobs -> [used : 0..TurnLimit, reserved : 0..TurnLimit, held : 0..TurnLimit]]
<1> DEFINE res == ReservedOf(t)
<1>0. /\ t \in [Jobs -> [used : Nat, reserved : Nat, held : 0..TurnLimit]]
      /\ TurnLimit \in Nat
  BY ObserverAssumption DEF Accounts
<1>1. ASSUME NEW j \in Jobs
      PROVE  t[j] \in [used : 0..TurnLimit, reserved : 0..TurnLimit, held : 0..TurnLimit]
  <2> DEFINE r == Root(j)
  <2>1. r \in Roots /\ r \in Jobs /\ j \in Tree(r) /\ IsFiniteSet(Tree(r)) /\ Tree(r) \subseteq Jobs
    BY RootFacts, TreeIsClass
  <2>2. res[j] <= SumFunctionOnSet(res, Tree(r))
    BY <1>0, <2>1, ReservedNat, SumBounds
  <2>3. /\ t[j].used <= t[r].used /\ t[r].held = SumFunctionOnSet(res, Tree(r))
        /\ t[r].used + t[r].held <= TurnLimit /\ res[j] = t[j].reserved
    BY <1>0, <2>1, ReservedNat DEF Accounts
  <2> HIDE DEF r, res
  <2>4. /\ t[j] \in [used : Nat, reserved : Nat, held : 0..TurnLimit]
        /\ t[r] \in [used : Nat, reserved : Nat, held : 0..TurnLimit]
    BY <1>0, <2>1
  <2>5. t[j].reserved <= t[r].held
    BY <2>2, <2>3
  <2>6. t[j].used \in 0..TurnLimit /\ t[j].reserved \in 0..TurnLimit
    BY <1>0, <2>3, <2>4, <2>5
  <2> QED
    BY <2>4, <2>6
<1> QED
  BY <1>0, <1>1

\* The reserved turns of some jobs go back to their roots.
LEMMA ReturnedAccounts ==
    ASSUME NEW t, Accounts(t), NEW js \in SUBSET Jobs
    PROVE  LET u == Returned(t, js) IN
           /\ Accounts(u)
           /\ \A j \in Jobs :
                 /\ u[j].used = t[j].used /\ u[j].held <= t[j].held
                 /\ u[j].reserved = IF j \in js THEN 0 ELSE t[j].reserved
                 /\ j \in js => u[Root(j)].held + t[j].reserved <= t[Root(j)].held
<1> DEFINE u == Returned(t, js)
           res == ReservedOf(t)
           part(r) == {k \in js : Root(k) = r}
           back(r) == SumFunctionOnSet(res, part(r))
           Row == [used : Nat, reserved : Nat, held : 0..TurnLimit]
<1>0. t \in [Jobs -> Row] /\ TurnLimit \in Nat
  BY ObserverAssumption DEF Accounts
<1>1. ASSUME NEW j \in Jobs
      PROVE  /\ u[j] \in [used : {t[j].used}, reserved : {IF j \in js THEN 0 ELSE t[j].reserved},
                           held : {t[j].held - back(j)}]
             /\ u[j].used = t[j].used
             /\ u[j].reserved = IF j \in js THEN 0 ELSE t[j].reserved
             /\ u[j].held = t[j].held - back(j)
  <2> HIDE DEF back
  <2>1. u[j] = [used |-> t[j].used, reserved |-> IF j \in js THEN 0 ELSE t[j].reserved,
                held |-> t[j].held - back(j)]
    BY DEF Returned, back
  <2> HIDE DEF u
  <2> QED
    BY <2>1
<1>u. u = [j \in Jobs |-> u[j]]
  BY DEF Returned
<1> HIDE DEF u
<1>2. ASSUME NEW r \in Roots
      PROVE  /\ back(r) \in Nat /\ back(r) <= t[r].held
             /\ t[r].held - back(r) = SumFunctionOnSet(ReservedOf(u), Tree(r))
             /\ \A k \in part(r) : t[k].reserved <= back(r)
  <2>1. /\ part(r) \subseteq Tree(r) /\ Tree(r) \subseteq Jobs /\ IsFiniteSet(Tree(r)) /\ r \in Jobs
        /\ \A k \in Tree(r) : k \in part(r) <=> k \in js
    BY RootFacts, TreeIsClass
  <2>2. IsFiniteSet(part(r))
    BY <2>1, FS_Subset
  <2>3. \A k \in Tree(r) : res[k] \in Nat /\ res[k] = t[k].reserved
    BY <1>0, <2>1, ReservedNat
  <2>4. ASSUME NEW k \in Tree(r) PROVE ReservedOf(u)[k] = IF k \in part(r) THEN 0 ELSE res[k]
    <3>1. ReservedOf(u)[k] = u[k].reserved /\ k \in Jobs
      BY <2>1 DEF ReservedOf
    <3>2. u[k].reserved = IF k \in js THEN 0 ELSE t[k].reserved
      BY <1>1, <3>1
    <3> HIDE DEF res, part
    <3> QED
      BY <2>1, <2>3, <3>1, <3>2
  <2>5. t[r].held = SumFunctionOnSet(res, Tree(r))
    BY DEF Accounts
  <2> HIDE DEF res, part
  <2>6. back(r) \in Nat
    BY <2>1, <2>2, <2>3, SumType
  <2>7. back(r) <= t[r].held
    BY <2>1, <2>3, <2>5, SumMonotone
  <2>8. SumFunctionOnSet(ReservedOf(u), Tree(r)) = SumFunctionOnSet(res, Tree(r)) - back(r)
    BY <2>1, <2>3, <2>4, SumStruck
  <2>9. \A k \in part(r) : t[k].reserved <= back(r)
    BY <2>1, <2>2, <2>3, SumBounds
  <2> QED
    BY <2>5, <2>6, <2>7, <2>8, <2>9
<1>3. ASSUME NEW j \in Jobs, j \notin Roots PROVE back(j) = 0
  <2>1. part(j) = {}
    BY <1>3, RootFacts
  <2> QED
    BY <2>1, SumEmpty
<1>4. \A j \in Jobs : back(j) \in Nat /\ back(j) <= t[j].held
  <2> HIDE DEF back
  <2> QED
    BY <1>0, <1>2, <1>3
<1> HIDE DEF back
<1>5. ASSUME NEW j \in Jobs PROVE u[j] \in Row /\ u[j].held <= t[j].held /\ u[j].held \in Nat
  <2>1. t[j].held \in 0..TurnLimit /\ t[j].used \in Nat /\ t[j].reserved \in Nat
    BY <1>0
  <2>2. t[j].held - back(j) \in 0..TurnLimit /\ t[j].held - back(j) <= t[j].held
    BY <1>0, <1>4, <2>1
  <2> QED
    BY <1>1, <2>1, <2>2
<1>6. u \in [Jobs -> Row]
  BY <1>5, <1>u
<1>7. \A j \in Jobs : u[j].used <= u[Root(j)].used
  BY <1>1, RootFacts DEF Accounts
<1>8. ASSUME NEW r \in Roots
      PROVE  /\ u[r].held = SumFunctionOnSet(ReservedOf(u), Tree(r))
             /\ u[r].used + u[r].held <= TurnLimit
  <2>1. r \in Jobs /\ t[r].used + t[r].held <= TurnLimit
    BY RootFacts DEF Accounts
  <2>2. t[r].used \in Nat /\ t[r].held \in Nat /\ u[r].used = t[r].used
    BY <1>0, <1>1, <2>1
  <2>3. u[r].held \in Nat /\ u[r].held <= t[r].held /\ u[r].held = t[r].held - back(r)
    BY <1>1, <1>5, <2>1
  <2> QED
    BY <1>0, <1>2, <2>1, <2>2, <2>3
<1>9. ASSUME NEW j \in js PROVE u[Root(j)].held + t[j].reserved <= t[Root(j)].held
  <2>1. Root(j) \in Roots /\ Root(j) \in Jobs /\ j \in part(Root(j)) /\ j \in Jobs
    BY RootFacts
  <2>2. t[j].reserved <= back(Root(j)) /\ back(Root(j)) \in Nat
    BY <1>2, <2>1
  <2>3. u[Root(j)].held = t[Root(j)].held - back(Root(j))
    BY <1>1, <2>1
  <2>4. t[Root(j)].held \in Nat /\ t[j].reserved \in Nat
    BY <1>0, <2>1
  <2> HIDE DEF part
  <2> QED
    BY <2>2, <2>3, <2>4
<1>10. Accounts(u)
  BY <1>6, <1>7, <1>8 DEF Accounts
<1>11. \A j \in Jobs : /\ u[j].used = t[j].used /\ u[j].held <= t[j].held
                       /\ u[j].reserved = IF j \in js THEN 0 ELSE t[j].reserved
                       /\ j \in js => u[Root(j)].held + t[j].reserved <= t[Root(j)].held
  BY <1>1, <1>5, <1>9
<1> QED
  BY <1>10, <1>11 DEF u
\* A table that keeps within its budget, given by how it differs from turns:
\* the jobs of one tree change what they have in reserve, and its root sets
\* aside as much more or less.
LEMMA MovedAccounts ==
    ASSUME Accounts(turns), NEW u \in [Jobs -> [used : Nat, reserved : Nat, held : Int]],
           NEW r \in Roots,
           \A j \in Jobs : u[j].used <= u[Root(j)].used,
           \A j \in Jobs : Root(j) # r => u[j] = turns[j],
           \A j \in Jobs \ Roots : u[j].held \in 0..TurnLimit,
           u[r].held = SumFunctionOnSet(ReservedOf(u), Tree(r)),
           u[r].used + u[r].held <= TurnLimit
    PROVE  Accounts(u)
<1> DEFINE Row == [used : Nat, reserved : Nat, held : 0..TurnLimit]
<1>0. turns \in [Jobs -> Row] /\ TurnLimit \in Nat
  BY ObserverAssumption DEF Accounts
<1>1. \A k \in Jobs : ReservedOf(u)[k] = u[k].reserved /\ u[k].reserved \in Nat
  BY DEF ReservedOf
<1>2. SumFunctionOnSet(ReservedOf(u), Tree(r)) \in Nat
  <2>1. IsFiniteSet(Tree(r)) /\ \A k \in Tree(r) : ReservedOf(u)[k] \in Nat
    BY <1>1, TreeIsClass
  <2> QED
    BY <2>1, SumType
<1>3. u[r].held \in 0..TurnLimit
  <2>1. u[r].held \in Nat /\ u[r].used \in Nat
    BY <1>2, RootFacts
  <2> QED
    BY <1>0, <2>1
<1>4. \A j \in Jobs : u[j].held \in 0..TurnLimit
  <2>1. \A s \in Roots : s # r => u[s] = turns[s] /\ s \in Jobs
    BY RootFacts
  <2> QED
    BY <1>0, <1>3, <2>1
<1>5. u \in [Jobs -> Row]
  <2>1. \A j \in Jobs : u[j] \in Row
    BY <1>4
  <2> QED
    BY <2>1
<1>6. ASSUME NEW s \in Roots, s # r
      PROVE  /\ u[s].held = SumFunctionOnSet(ReservedOf(u), Tree(s))
             /\ u[s].used + u[s].held <= TurnLimit
  <2>1. u[s] = turns[s]
    BY <1>6, RootFacts
  <2>2. IsFiniteSet(Tree(s)) /\ \A k \in Tree(s) : ReservedOf(u)[k] = ReservedOf(turns)[k]
    BY <1>6, TreeIsClass DEF ReservedOf
  <2>3. SumFunctionOnSet(ReservedOf(u), Tree(s)) = SumFunctionOnSet(ReservedOf(turns), Tree(s))
    BY <2>2, SumAgrees
  <2> QED
    BY <2>1, <2>3 DEF Accounts
<1> QED
  BY <1>5, <1>6 DEF Accounts

\* A turn is charged to a frame that has one in reserve, or to a tree that has
\* one left.
LEMMA ChargedAccounts ==
    ASSUME Accounts(turns), NEW j \in Jobs, MayCharge(j),
           turns[j].reserved > 0 \/ turns[Root(j)].used + turns[Root(j)].held < TurnLimit,
           Over(frame[j]) => turns[j].reserved = 0
    PROVE  /\ Accounts(Charged(j))
           /\ \A k \in Jobs : turns[k].reserved = 0 => Charged(j)[k].reserved = 0
           /\ \A k \in Jobs : Root(k) # Root(j) => Charged(j)[k] = turns[k]
<1> DEFINE own == IF Over(frame[j]) \/ turns[j].reserved = 0 THEN 0 ELSE 1
           u == Charged(j)
           r == Root(j)
           Row == [used : Nat, reserved : Nat, held : 0..TurnLimit]
<1>0. turns \in [Jobs -> Row] /\ r \in Roots /\ r \in Jobs /\ TurnLimit \in Nat
  BY RootFacts, ObserverAssumption DEF Accounts
<1>1. /\ own \in {0, 1} /\ own <= turns[j].reserved /\ turns[j].reserved \in Nat
      /\ own = 0 => turns[r].used + turns[r].held < TurnLimit
  BY <1>0
<1>2. Parent[j] = NoJob <=> j = r
  BY <1>0, RootFacts DEF Roots
<1> HIDE DEF own, r
<1>3. u = LET t == [turns EXCEPT ![j].used = @ + 1, ![j].reserved = @ - own]
          IN  IF j = r THEN [t EXCEPT ![j].held = @ - own]
              ELSE [t EXCEPT ![r].used = @ + 1, ![r].held = @ - own]
  BY <1>2 DEF Charged, own, r
<1> HIDE DEF u
<1>4. ASSUME NEW k \in Jobs
      PROVE  /\ u[k] \in [used : Nat, reserved : Nat, held : Int]
             /\ u[k].used = IF k = j \/ k = r THEN turns[k].used + 1 ELSE turns[k].used
             /\ u[k].reserved = IF k = j THEN turns[k].reserved - own ELSE turns[k].reserved
             /\ u[k].held = IF k = r THEN turns[k].held - own ELSE turns[k].held
             /\ k # j /\ k # r => u[k] = turns[k]
  <2>1. turns[k] \in [used : Nat, reserved : Nat, held : Int]
    <3>1. turns[k] \in Row /\ 0..TurnLimit \subseteq Int
      BY <1>0
    <3> QED
      BY <3>1
  <2>2. own \in Int /\ turns[j].reserved - own \in Nat
    BY <1>1
  <2>3. CASE k # j /\ k # r
    BY <1>0, <1>3, <2>1, <2>3
  <2>4. CASE k = j /\ j = r
    <3>1. u[k] = [used |-> turns[k].used + 1, reserved |-> turns[k].reserved - own, held |-> turns[k].held - own]
      BY <1>0, <1>3, <2>1, <2>4
    <3>2. u[k].used = turns[k].used + 1 /\ u[k].reserved = turns[k].reserved - own /\ u[k].held = turns[k].held - own
      BY <3>1
    <3>3. turns[k].used + 1 \in Nat /\ turns[k].reserved - own \in Nat /\ turns[k].held - own \in Int
      BY <2>1, <2>2, <2>4
    <3>4. u[k] \in [used : Nat, reserved : Nat, held : Int]
      BY <3>1, <3>3
    <3> QED
      BY <2>4, <3>2, <3>4
  <2>5. CASE k = j /\ j # r
    <3>1. u[k] = [used |-> turns[k].used + 1, reserved |-> turns[k].reserved - own, held |-> turns[k].held]
      BY <1>0, <1>3, <2>1, <2>5
    <3>2. u[k].used = turns[k].used + 1 /\ u[k].reserved = turns[k].reserved - own /\ u[k].held = turns[k].held
      BY <3>1
    <3>3. turns[k].used + 1 \in Nat /\ turns[k].reserved - own \in Nat /\ turns[k].held \in Int
      BY <2>1, <2>2, <2>5
    <3>4. u[k] \in [used : Nat, reserved : Nat, held : Int]
      BY <3>1, <3>3
    <3> QED
      BY <2>5, <3>2, <3>4
  <2>6. CASE k = r /\ j # r
    <3>1. u[k] = [used |-> turns[k].used + 1, reserved |-> turns[k].reserved, held |-> turns[k].held - own]
      BY <1>0, <1>3, <2>1, <2>6
    <3>2. u[k].used = turns[k].used + 1 /\ u[k].reserved = turns[k].reserved /\ u[k].held = turns[k].held - own
      BY <3>1
    <3>3. turns[k].used + 1 \in Nat /\ turns[k].reserved \in Nat /\ turns[k].held - own \in Int
      BY <2>1, <2>2, <2>6
    <3>4. u[k] \in [used : Nat, reserved : Nat, held : Int]
      BY <3>1, <3>3
    <3> QED
      BY <2>6, <3>2, <3>4
  <2> QED
    BY <2>3, <2>4, <2>5, <2>6
<1>5. u \in [Jobs -> [used : Nat, reserved : Nat, held : Int]]
  <2>1. u = [k \in Jobs |-> u[k]]
    BY <1>0, <1>3
  <2> QED
    BY <1>4, <2>1
<1>6. \A k \in Jobs : u[k].used <= u[Root(k)].used
  <2> SUFFICES ASSUME NEW k \in Jobs PROVE u[k].used <= u[Root(k)].used
    OBVIOUS
  <2>1. turns[k].used <= turns[Root(k)].used /\ Root(k) \in Jobs
    BY RootFacts DEF Accounts
  <2>2. turns[k].used \in Nat /\ turns[Root(k)].used \in Nat
    BY <1>0, <2>1
  <2>3. k = j \/ k = r => Root(k) = r
    BY <1>0, RootFacts DEF r
  <2> QED
    BY <1>4, <2>1, <2>2, <2>3
<1>7. \A k \in Jobs : Root(k) # r => u[k] = turns[k]
  BY <1>0, <1>4, RootFacts DEF r
<1>8. u[r].held = SumFunctionOnSet(ReservedOf(u), Tree(r))
  <2> DEFINE before == SumFunctionOnSet(ReservedOf(turns), Tree(r))
             after == SumFunctionOnSet(ReservedOf(u), Tree(r))
  <2>1. IsFiniteSet(Tree(r)) /\ Tree(r) \subseteq Jobs /\ j \in Tree(r)
    BY <1>0, TreeIsClass DEF r
  <2>2. \A k \in Jobs : /\ ReservedOf(u)[k] = u[k].reserved /\ ReservedOf(u)[k] \in Int
                        /\ ReservedOf(turns)[k] = turns[k].reserved /\ ReservedOf(turns)[k] \in Int
    BY <1>0, <1>4 DEF ReservedOf
  <2>3. \A k \in Tree(r) \ {j} : ReservedOf(u)[k] = ReservedOf(turns)[k]
    BY <1>4, <2>1, <2>2
  <2>4. after = before + ReservedOf(u)[j] - ReservedOf(turns)[j]
    BY <2>1, <2>2, <2>3, SumUpdate
  <2>5. before = turns[r].held /\ turns[r].held \in Int
    BY <1>0 DEF Accounts
  <2> HIDE DEF before, after
  <2>6. after = turns[r].held - own
    BY <1>1, <1>4, <2>2, <2>4, <2>5
  <2> QED
    BY <1>0, <1>4, <2>6 DEF after
<1>9. u[r].used + u[r].held <= TurnLimit
  <2>1. turns[r].used + turns[r].held <= TurnLimit /\ turns[r].used \in Nat /\ turns[r].held \in Nat
    BY <1>0 DEF Accounts
  <2> QED
    BY <1>0, <1>1, <1>4, <2>1
<1>10. \A k \in Jobs \ Roots : u[k].held \in 0..TurnLimit
  BY <1>0, <1>4
<1>11. Accounts(u)
  BY <1>0, <1>5, <1>6, <1>7, <1>8, <1>9, <1>10, MovedAccounts
<1>12. ASSUME NEW k \in Jobs, turns[k].reserved = 0 PROVE u[k].reserved = 0
  <2>1. k = j => own = 0
    BY <1>1, <1>12
  <2>2. u[k].reserved = IF k = j THEN turns[k].reserved - own ELSE turns[k].reserved
    BY <1>4
  <2> QED
    BY <1>12, <2>1, <2>2
<1> QED
  BY <1>7, <1>11, <1>12 DEF u, r

\* A wait takes two turns of its tree in place of what its job had.
LEMMA RegisteredAccounts ==
    ASSUME Accounts(turns), NEW j \in Jobs, NEW c \in Children(j), NEW n \in 1..2,
           turns[c].reserved = 0, MayWait(j, n), Registered(j, c, n)
    PROVE  /\ Accounts(turns')
           /\ \A k \in Jobs \ {j, c} : turns'[k].reserved = turns[k].reserved
           /\ \A k \in Jobs : Root(k) # Root(j) => turns'[k] = turns[k]
<1> DEFINE u == turns'
           r == Root(j)
           Row == [used : Nat, reserved : Nat, held : 0..TurnLimit]
<1>0. turns \in [Jobs -> Row] /\ r \in Roots /\ r \in Jobs /\ TurnLimit \in Nat
  BY RootFacts, ObserverAssumption DEF Accounts
<1>1. c \in Jobs /\ c # j /\ c # r /\ c \notin Roots /\ Root(c) = r
  BY <1>0, RootFacts, ChildIsOther
<1>2. u = [[turns EXCEPT ![c] = [NoTurns EXCEPT !.reserved = n],
                         ![r].held = @ + 1 + n - turns[j].reserved]
              EXCEPT ![j].reserved = 1]
  BY DEF Registered
<1>3. TurnLimit - turns[r].used - turns[r].held + turns[j].reserved >= 1 + n
  BY DEF MayWait
<1> HIDE DEF u, r
<1>4. ASSUME NEW k \in Jobs
      PROVE  /\ u[k] \in [used : Nat, reserved : Nat, held : Int]
             /\ u[k].used = IF k = c THEN 0 ELSE turns[k].used
             /\ u[k].reserved = IF k = j THEN 1 ELSE IF k = c THEN n ELSE turns[k].reserved
             /\ u[k].held = IF k = c THEN 0
                            ELSE IF k = r THEN turns[k].held + 1 + n - turns[j].reserved ELSE turns[k].held
             /\ k \notin {j, c, r} => u[k] = turns[k]
  <2>1. turns[k] \in Row /\ turns[j] \in Row
    BY <1>0
  <2>2. CASE k = c
    BY <1>0, <1>1, <1>2, <2>1, <2>2 DEF NoTurns
  <2>3. CASE k # c /\ k = j
    BY <1>0, <1>1, <1>2, <2>1, <2>3
  <2>4. CASE k # c /\ k # j
    BY <1>0, <1>1, <1>2, <2>1, <2>4
  <2> QED
    BY <2>2, <2>3, <2>4
<1>5. u \in [Jobs -> [used : Nat, reserved : Nat, held : Int]]
  <2>1. u = [k \in Jobs |-> u[k]]
    BY <1>0, <1>2
  <2> QED
    BY <1>4, <2>1
<1>6. \A k \in Jobs : u[k].used <= u[Root(k)].used
  <2> SUFFICES ASSUME NEW k \in Jobs PROVE u[k].used <= u[Root(k)].used
    OBVIOUS
  <2>1. turns[k].used <= turns[Root(k)].used /\ Root(k) \in Jobs /\ Root(k) # c
    BY <1>1, RootFacts DEF Accounts
  <2>2. turns[k].used \in Nat /\ turns[Root(k)].used \in Nat
    BY <1>0, <2>1
  <2> QED
    BY <1>4, <2>1, <2>2
<1>7. \A k \in Jobs : Root(k) # r => u[k] = turns[k]
  BY <1>0, <1>1, <1>4, RootFacts DEF r
<1>8. u[r].held = SumFunctionOnSet(ReservedOf(u), Tree(r))
  <2> DEFINE f == ReservedOf(turns)
             g == [f EXCEPT ![j] = 1]
             h == ReservedOf(u)
             before == SumFunctionOnSet(f, Tree(r))
             between == SumFunctionOnSet(g, Tree(r))
             after == SumFunctionOnSet(h, Tree(r))
  <2>1. IsFiniteSet(Tree(r)) /\ Tree(r) \subseteq Jobs /\ j \in Tree(r) /\ c \in Tree(r)
    BY <1>0, <1>1, TreeIsClass DEF r
  <2>2. ASSUME NEW k \in Jobs
        PROVE  /\ f[k] = turns[k].reserved /\ f[k] \in Int
               /\ h[k] = IF k = j THEN 1 ELSE IF k = c THEN n ELSE f[k]
               /\ g[k] = IF k = j THEN 1 ELSE f[k]
               /\ g[k] \in Int /\ h[k] \in Int
    <3>1. f \in [Jobs -> Nat] /\ f[k] = turns[k].reserved
      BY <1>0 DEF ReservedOf
    <3>2. h[k] = u[k].reserved
      BY DEF ReservedOf
    <3> HIDE DEF f, h
    <3> QED
      BY <1>4, <3>1, <3>2
  <2> HIDE DEF f, g, h
  <2>3. between = before + g[j] - f[j]
    BY <2>1, <2>2, SumUpdate
  <2>4. after = between + h[c] - g[c]
    <3>1. \A k \in Tree(r) \ {c} : h[k] = g[k]
      BY <2>1, <2>2
    <3> QED
      BY <2>1, <2>2, <3>1, SumUpdate
  <2>5. before = turns[r].held /\ turns[r].held \in Int
    BY <1>0 DEF Accounts, f
  <2>6. g[j] = 1 /\ f[j] = turns[j].reserved /\ f[j] \in Int /\ h[c] = n /\ g[c] = 0
    BY <1>1, <2>2
  <2> HIDE DEF before, between, after
  <2>7. after = turns[r].held + 1 + n - turns[j].reserved
    BY <2>3, <2>4, <2>5, <2>6
  <2> QED
    BY <1>0, <1>1, <1>4, <2>7 DEF after, h
<1>9. u[r].used + u[r].held <= TurnLimit
  <2>1. turns[r].used \in Nat /\ turns[r].held \in Nat /\ turns[j].reserved \in Nat
    BY <1>0
  <2> QED
    BY <1>0, <1>1, <1>3, <1>4, <2>1
<1>10. \A k \in Jobs \ Roots : u[k].held \in 0..TurnLimit
  BY <1>0, <1>4
<1>11. Accounts(u)
  BY <1>0, <1>5, <1>6, <1>7, <1>8, <1>9, <1>10, MovedAccounts
<1> QED
  BY <1>4, <1>7, <1>11 DEF u, r

\* The rows of children that have nothing in reserve are deleted.
LEMMA ForgottenAccounts ==
    ASSUME Accounts(turns), NEW j \in Jobs, \A c \in Children(j) : turns[c].reserved = 0
    PROVE  LET u == Forgotten(turns, j, NoTurns) IN
           /\ Accounts(u)
           /\ \A k \in Jobs : u[k].reserved = turns[k].reserved
           /\ \A k \in Jobs : k \notin Children(j) => u[k] = turns[k]
<1> DEFINE u == Forgotten(turns, j, NoTurns)
           r == Root(j)
           Row == [used : Nat, reserved : Nat, held : 0..TurnLimit]
<1>0. turns \in [Jobs -> Row] /\ r \in Roots /\ r \in Jobs /\ TurnLimit \in Nat
  BY RootFacts, ObserverAssumption DEF Accounts
<1>1. \A c \in Children(j) : c \in Jobs /\ c \notin Roots /\ Root(c) = r
  BY RootFacts
<1>2. u = [k \in Jobs |-> IF k \in Children(j) THEN NoTurns ELSE turns[k]]
  BY DEF Forgotten
<1> HIDE DEF u, r
<1>3. ASSUME NEW k \in Jobs
      PROVE  /\ u[k] \in Row
             /\ u[k].used = IF k \in Children(j) THEN 0 ELSE turns[k].used
             /\ u[k].reserved = turns[k].reserved
             /\ k \notin Children(j) => u[k] = turns[k]
  BY <1>0, <1>2 DEF NoTurns
<1>4. u \in [Jobs -> Row]
  BY <1>2, <1>3
<1>5. \A k \in Jobs : u[k].used <= u[Root(k)].used
  <2> SUFFICES ASSUME NEW k \in Jobs PROVE u[k].used <= u[Root(k)].used
    OBVIOUS
  <2>1. turns[k].used <= turns[Root(k)].used /\ Root(k) \in Jobs /\ Root(k) \notin Children(j)
    BY <1>1, RootFacts DEF Accounts
  <2>2. turns[k].used \in Nat /\ turns[Root(k)].used \in Nat
    BY <1>0, <2>1
  <2> QED
    BY <1>3, <2>1, <2>2
<1>6. ASSUME NEW s \in Roots
      PROVE  /\ u[s].held = SumFunctionOnSet(ReservedOf(u), Tree(s))
             /\ u[s].used + u[s].held <= TurnLimit
  <2>1. u[s] = turns[s]
    BY <1>1, <1>3, RootFacts
  <2>2. IsFiniteSet(Tree(s)) /\ \A k \in Tree(s) : ReservedOf(u)[k] = ReservedOf(turns)[k]
    BY <1>3, TreeIsClass DEF ReservedOf
  <2>3. SumFunctionOnSet(ReservedOf(u), Tree(s)) = SumFunctionOnSet(ReservedOf(turns), Tree(s))
    BY <2>2, SumAgrees
  <2> QED
    BY <2>1, <2>3 DEF Accounts
<1>7. Accounts(u)
  BY <1>4, <1>5, <1>6 DEF Accounts
<1> QED
  BY <1>3, <1>7 DEF u
\* Frames end, and what they had in reserve goes back: none of them is left
\* with a turn, and whoever had a turn left before has one now.
Left(t, j) == t[j].reserved > 0 \/ t[Root(j)].used + t[Root(j)].held < TurnLimit
Closed(j) == frame[j].state = "none" \/ Over(frame[j])

LEMMA ReturnedLeft ==
    ASSUME NEW t, Accounts(t), NEW js \in SUBSET Jobs, NEW j \in Jobs, Left(t, j)
    PROVE  Left(Returned(t, js), j)
<1> DEFINE r == Root(j)
           u == Returned(t, js)
<1>1. r \in Roots /\ r \in Jobs /\ TurnLimit \in Nat
  BY RootFacts, ObserverAssumption
<1>2. /\ Accounts(u)
      /\ \A k \in Jobs :
            /\ u[k].used = t[k].used /\ u[k].held <= t[k].held
            /\ u[k].reserved = IF k \in js THEN 0 ELSE t[k].reserved
            /\ k \in js => u[Root(k)].held + t[k].reserved <= t[Root(k)].held
  BY ReturnedAccounts
<1> HIDE DEF u
<1>3. /\ t[r].used \in Nat /\ t[r].held \in Nat /\ t[j].reserved \in Nat
      /\ u[r].held \in Nat /\ t[r].used + t[r].held <= TurnLimit
  BY <1>1, <1>2 DEF Accounts
<1>4. u[r].used = t[r].used /\ u[r].held <= t[r].held
  BY <1>1, <1>2
<1> HIDE DEF r
<1>5. CASE t[r].used + t[r].held < TurnLimit
  <2>1. u[r].used + u[r].held < TurnLimit
    BY <1>1, <1>3, <1>4, <1>5
  <2> QED
    BY <2>1 DEF Left, r, u
<1>6. CASE t[j].reserved > 0 /\ j \notin js
  BY <1>2, <1>6 DEF Left, u
<1>7. CASE t[j].reserved > 0 /\ j \in js
  <2>1. u[r].held + t[j].reserved <= t[r].held
    BY <1>2, <1>7 DEF r
  <2>2. u[r].used + u[r].held < TurnLimit
    BY <1>1, <1>3, <1>4, <1>7, <2>1
  <2> QED
    BY <2>2 DEF Left, r, u
<1> QED
  BY <1>5, <1>6, <1>7 DEF Left, r

LEMMA EndedTurns ==
    ASSUME Accounts(turns), NEW f \in [Jobs -> FrameType], \A j \in Jobs : f[j].state = frame[j].state,
           \A j \in Jobs : Closed(j) => turns[j].reserved = 0,
           NEW tops \in SUBSET Jobs, NEW state \in Terminal \cup {"expired"}, EndTrees(f, tops, state)
    PROVE  LET all == tops \cup UNION {Descendants(j) : j \in tops} IN
           /\ Accounts(turns')
           /\ \A j \in Jobs : Closed(j)' => turns'[j].reserved = 0
           /\ \A j \in Jobs : Left(turns, j) => Left(turns', j)
           /\ \A j \in Jobs : Over(frame[j]) \/ (j \in all /\ frame[j].state # "none") => Over(frame'[j])
           /\ \A j \in Jobs : j \notin all => frame'[j].state = frame[j].state
<1> DEFINE kids == UNION {Descendants(j) : j \in tops}
           all == tops \cup kids
           g == EndFrames(f, kids, "cancelled")
           js == Ending(f, all)
           Ends == {"completed", "ended", "cancelled", "expired"}
<1>1. \A j \in Jobs : /\ j \in js <=> j \in all /\ frame[j].state # "none" /\ ~Over(frame[j])
                      /\ f[j] \in FrameType
  BY DEF Ending, Over
<1>2. js \in SUBSET Jobs
  BY DEF Ending, Descendants, Children
<1>3. ASSUME NEW j \in Jobs
      PROVE  /\ j \in js => frame'[j].state \in Ends
             /\ j \notin js => frame'[j].state = frame[j].state
  <2>1. g[j] = IF j \in Ending(f, kids) THEN [f[j] EXCEPT !.state = "cancelled"] ELSE f[j]
    BY DEF EndFrames
  <2>2. g[j].state = IF j \in Ending(f, kids) THEN "cancelled" ELSE frame[j].state
    BY <1>1, <2>1 DEF FrameType
  <2>3. frame'[j] = IF j \in Ending(g, tops) THEN [g[j] EXCEPT !.state = state] ELSE g[j]
    BY DEF EndTrees, EndFrames
  <2>4. g[j] \in FrameType
    BY <1>1, <2>1 DEF FrameType, Terminal
  <2> HIDE DEF g
  <2>5. frame'[j].state = IF j \in Ending(g, tops) THEN state ELSE g[j].state
    BY <2>3, <2>4 DEF FrameType
  <2>6. j \in Ending(g, tops) <=> j \in tops /\ g[j].state # "none" /\ g[j].state \notin Ends
    BY DEF Ending, Over
  <2>7. j \in Ending(f, kids) <=> j \in kids /\ frame[j].state # "none" /\ frame[j].state \notin Ends
    BY DEF Ending, Over
  <2>8. j \in js <=> (j \in tops \/ j \in kids) /\ frame[j].state # "none" /\ frame[j].state \notin Ends
    BY <1>1 DEF Over
  <2>9. state \in Ends
    BY DEF Terminal
  <2> HIDE DEF kids, js
  <2> QED
    BY <2>2, <2>5, <2>6, <2>7, <2>8, <2>9
<1>4. turns' = Returned(turns, js)
  BY DEF EndTrees
<1> HIDE DEF js, all
<1>5. /\ Accounts(turns')
      /\ \A j \in Jobs :
            /\ turns'[j].used = turns[j].used /\ turns'[j].held <= turns[j].held
            /\ turns'[j].reserved = IF j \in js THEN 0 ELSE turns[j].reserved
            /\ j \in js => turns'[Root(j)].held + turns[j].reserved <= turns[Root(j)].held
  BY <1>2, <1>4, ReturnedAccounts
<1>6. ASSUME NEW j \in Jobs, Closed(j)' PROVE turns'[j].reserved = 0
  <2>1. CASE j \in js
    BY <1>5, <2>1
  <2>2. CASE j \notin js
    <3>1. Closed(j)
      BY <1>3, <1>6, <2>2 DEF Closed, Over
    <3> QED
      BY <1>5, <2>2, <3>1
  <2> QED
    BY <2>1, <2>2
<1>7. \A j \in Jobs : Left(turns, j) => Left(turns', j)
  BY <1>2, <1>4, ReturnedLeft
<1>8. \A j \in Jobs : Over(frame[j]) \/ (j \in all /\ frame[j].state # "none") => Over(frame'[j])
  BY <1>1, <1>3 DEF Over
<1>9. \A j \in Jobs : j \notin all => frame'[j].state = frame[j].state
  BY <1>1, <1>3
<1> QED
  BY <1>5, <1>6, <1>7, <1>8, <1>9 DEF all

\* Who is between a job and its root.
LEMMA Levels ==
    ASSUME NEW j \in Jobs
    PROVE  /\ Root(j) \in Jobs /\ Parent[Root(j)] = NoJob
           /\ \/ j = Root(j)
              \/ Parent[j] = Root(j)
              \/ Parent[j] \in Jobs /\ Parent[Parent[j]] = Root(j)
<1>1. Root(j) \in Jobs /\ Parent[Root(j)] = NoJob
  BY RootFacts DEF Roots
<1> QED
  BY <1>1, ObserverAssumption DEF Root, Up

\* At most one frame of a tree is running.
LEMMA OneRunner ==
    ASSUME RowsInv, NEW j \in Jobs, NEW k \in Jobs, Root(j) = Root(k),
           frame[j].state = "running", frame[k].state = "running"
    PROVE  j = k
<1> DEFINE Begun(x) == frame[x].state \in {"running", "suspended"}
<1>1. ASSUME NEW x \in Jobs, Begun(x), Parent[x] \in Jobs PROVE frame[Parent[x]].state = "suspended"
  <2>1. x \in Children(Parent[x])
    BY DEF Children
  <2>2. TakesTurns(Parent[x], x)
    BY <1>1, <2>1 DEF RowsInv, FamiliesTakeTurns
  <2> QED
    BY <1>1, <2>2 DEF TakesTurns, OpenStates
<1>2. ASSUME NEW x \in Jobs, NEW y \in Jobs, Begun(x), Begun(y), Parent[x] \in Jobs,
             Parent[x] = Parent[y]
      PROVE  x = y
  <2>1. x \in Children(Parent[x]) /\ y \in Children(Parent[x])
    BY <1>2 DEF Children
  <2>2. TakesTurns(Parent[x], x) /\ RowAgrees(x) /\ RowAgrees(y)
    BY <1>2, <2>1 DEF RowsInv, RowsAgree, FamiliesTakeTurns
  <2>3. job[x].status # "none" /\ job[y].status # "none"
    BY <1>2, <2>2 DEF RowAgrees, NoFrame
  <2> QED
    BY <2>1, <2>2, <2>3 DEF TakesTurns
<1> DEFINE r == Root(j)
<1>3. /\ r \in Jobs /\ Parent[r] = NoJob /\ NoJob \notin Jobs
      /\ j = r \/ Parent[j] = r \/ (Parent[j] \in Jobs /\ Parent[Parent[j]] = r)
      /\ k = r \/ Parent[k] = r \/ (Parent[k] \in Jobs /\ Parent[Parent[k]] = r)
  BY Levels, ObserverAssumption
<1> HIDE DEF r
<1>4. ASSUME NEW x \in Jobs, frame[x].state = "running", frame[r].state = "running",
             x = r \/ Parent[x] = r \/ (Parent[x] \in Jobs /\ Parent[Parent[x]] = r)
      PROVE  x = r
  BY <1>1, <1>3, <1>4
<1>5. CASE j = r \/ k = r
  BY <1>3, <1>4, <1>5
<1>6. CASE Parent[j] = r /\ Parent[k] = r
  BY <1>2, <1>3, <1>6
<1>7. ASSUME NEW x \in Jobs, NEW y \in Jobs, frame[x].state = "running", frame[y].state = "running",
             Parent[x] = r, Parent[y] \in Jobs, Parent[Parent[y]] = r
      PROVE  FALSE
  <2>1. frame[Parent[y]].state = "suspended"
    BY <1>1, <1>7
  <2>2. x = Parent[y]
    BY <1>2, <1>3, <1>7, <2>1
  <2> QED
    BY <1>7, <2>1, <2>2
<1>8. CASE Parent[j] \in Jobs /\ Parent[Parent[j]] = r /\ Parent[k] \in Jobs /\ Parent[Parent[k]] = r
  <2>1. frame[Parent[j]].state = "suspended" /\ frame[Parent[k]].state = "suspended"
    BY <1>1, <1>8
  <2>2. Parent[j] = Parent[k]
    BY <1>2, <1>3, <1>8, <2>1
  <2> QED
    BY <1>2, <1>8, <2>2
<1> QED
  BY <1>3, <1>5, <1>6, <1>7, <1>8

\* What a worker at a turn works on.
Running(j) == Live(j) /\ frame[j].state = "running"
DeadTree(j) == Over(frame[j]) /\ \A k \in Jobs : Root(k) = Root(j) => ~Live(k)

\* A step in which no worker is admitted to the model.
NoneAdmitted ==
    \A w \in Workers :
       /\ AtTurn(w)' => AtTurn(w) /\ wk'[w].job = wk[w].job
       /\ wk'[w].pc \in {"admitted", "thinking"} => wk[w].pc \in {"admitted", "thinking"}

LEMMA TurnsMove ==
    ASSUME IInv, TurnsIInv, NoneAdmitted, Accounts(turns'),
           \A j \in Jobs : Closed(j)' => turns'[j].reserved = 0,
           \A w \in Workers, j \in Jobs : AtTurn(w)' /\ j = wk[w].job => Running(j)' \/ DeadTree(j)',
           \A w \in Workers, j \in Jobs : wk'[w].pc \in {"admitted", "thinking"} /\ j = wk[w].job =>
              (Left(turns, j) => Left(turns', j))
    PROVE  TurnsIInv'
<1>1. \A w \in Workers : AtTurn(w)' => AtTurn(w) /\ wk'[w].job = wk[w].job /\ wk[w].job \in Jobs
  BY Halves DEF NoneAdmitted, AtTurn, WorkersInv, WorkersNamed
<1>2. \A w \in Workers : wk'[w].pc \in {"admitted", "thinking"} =>
           AtTurn(w)' /\ wk[w].pc \in {"admitted", "thinking"}
  BY DEF NoneAdmitted, AtTurn
<1>3. TurnBudget'
  BY AccountsBudget DEF TurnBudget, Accounts
<1>4. TurnsAgree'
  BY DEF TurnsAgree, Closed, Accounts
<1>5. OneTurnPerTree'
  BY <1>1 DEF TurnsIInv, OneTurnPerTree
<1>6. TurnIsRunning'
  BY <1>1 DEF TurnIsRunning, Running, DeadTree
<1>7. TurnIsLeft'
  BY <1>1, <1>2 DEF TurnsIInv, TurnIsLeft, Left
<1> QED
  BY <1>3, <1>4, <1>5, <1>6, <1>7 DEF TurnsIInv

\* A step that leaves the turns alone, and the frames of workers at a turn.
LEMMA TurnsKept ==
    ASSUME IInv, TurnsIInv, NoneAdmitted, UNCHANGED turns,
           \A j \in Jobs : Closed(j)' => Closed(j),
           \A w \in Workers, j \in Jobs : AtTurn(w)' /\ j = wk[w].job =>
              /\ frame'[j].state = frame[j].state
              /\ Live(j) => Live(j)'
              /\ Over(frame[j]) => \A k \in Jobs : Root(k) = Root(j) /\ ~Live(k) => ~Live(k)'
    PROVE  TurnsIInv'
<1>1. Accounts(turns')
  <2>1. Accounts(turns)
    BY BudgetAccounts DEF TurnsIInv
  <2> QED
    BY <2>1
<1>2. \A j \in Jobs : Closed(j)' => turns'[j].reserved = 0
  BY DEF TurnsIInv, TurnsAgree, Closed
<1>3. ASSUME NEW w \in Workers, NEW j \in Jobs, AtTurn(w)', j = wk[w].job
      PROVE  Running(j)' \/ DeadTree(j)'
  <2>1. Running(j) \/ DeadTree(j)
    BY <1>3 DEF NoneAdmitted, TurnsIInv, TurnIsRunning, Running, DeadTree
  <2>2. CASE Running(j)
    BY <1>3, <2>2 DEF Running
  <2>3. CASE DeadTree(j)
    BY <1>3, <2>3 DEF DeadTree, Over
  <2> QED
    BY <2>1, <2>2, <2>3
<1> QED
  BY <1>1, <1>2, <1>3, TurnsMove
\* Steps after which the worker is not at a turn, and steps of nobody.
LEMMA LeavesTurn ==
    ASSUME wk \in [Workers -> WorkerType], NEW w \in Workers,
           \/ \E pc \in WithSession \cup {"claimed", "gated", "retiring", "release"} :
                 Step(w, pc) /\ pc \notin {"admitted", "thinking", "charged"}
           \/ \E x \in WorkerType : wk' = [wk EXCEPT ![w] = x] /\ x.pc \in {"idle", "claimed"}
    PROVE  NoneAdmitted /\ ~AtTurn(w)' /\ \A v \in Workers \ {w} : wk'[v] = wk[v]
<1>1. \A v \in Workers \ {w} : wk'[v] = wk[v]
  BY DEF Step
<1>2. wk'[w].pc \notin {"admitted", "thinking", "charged"}
  <2>1. ASSUME NEW pc, Step(w, pc) PROVE wk'[w].pc = pc
    <3>1. wk'[w] = [wk[w] EXCEPT !.pc = pc, !.answer = "none"] /\ wk[w] \in WorkerType
      BY <2>1 DEF Step
    <3> QED
      BY <3>1 DEF WorkerType
  <2>2. ASSUME NEW x, wk' = [wk EXCEPT ![w] = x] PROVE wk'[w] = x
    BY <2>2
  <2> QED
    BY <2>1, <2>2
<1> QED
  BY <1>1, <1>2 DEF NoneAdmitted, AtTurn

LEMMA NobodyMoves == UNCHANGED wk => NoneAdmitted
  BY DEF NoneAdmitted, AtTurn

\* Only workers change.
LEMMA LocalTurns ==
    ASSUME IInv, TurnsIInv, NoneAdmitted, UNCHANGED <<job, frame, turns>>
    PROVE  TurnsIInv'
<1>1. \A j \in Jobs : (Closed(j)' => Closed(j)) /\ (Live(j)' <=> Live(j)) /\ frame'[j].state = frame[j].state
  BY DEF Closed, Live, Over
<1> QED
  BY <1>1, TurnsKept

LEMMA DescendantsRoot ==
    ASSUME NEW j \in Jobs, NEW k \in Descendants(j)
    PROVE  k \in Jobs /\ Root(k) = Root(j)
  BY RootFacts DEF Descendants

\* A worker at a turn holds the slot of its job.
LEMMA TurnHolder ==
    ASSUME IInv, NEW w \in Workers, AtTurn(w)
    PROVE  /\ wk[w].pc # "idle" /\ wk[w].job \in Jobs
           /\ slot[wk[w].job] # NoSlot /\ slot[wk[w].job].owner = w
<1>1. WorkersInv /\ wk[w].pc # "idle"
  BY Halves DEF AtTurn
<1> QED
  BY <1>1, WorkMeansSlots DEF Slots

\* While the attempt of a worker is current, nobody else is at a turn in its
\* tree.
LEMMA CurrentAlone ==
    ASSUME IInv, TurnsIInv, NEW w \in Workers, wk[w].pc # "idle", Current(w),
           NEW v \in Workers \ {w}, AtTurn(v)
    PROVE  Root(wk[v].job) # Root(wk[w].job)
<1> DEFINE j == wk[w].job
           k == wk[v].job
<1>1. RowsInv /\ WorkersInv
  BY Halves
<1>2. j \in Jobs /\ slot[j].owner = w /\ k \in Jobs /\ slot[k].owner = v
  BY <1>1, TurnHolder, WorkMeansSlots
<1>3. Live(j) /\ frame[j].state = "running"
  BY <1>1, <1>2 DEF Current, RowsInv, RowsAgree, RowAgrees, Live, Terminal
<1>4. Running(k) \/ DeadTree(k)
  BY DEF TurnsIInv, TurnIsRunning, Running, DeadTree
<1>5. CASE Running(k)
  <2>1. Root(j) = Root(k) => j = k
    BY <1>1, <1>2, <1>3, <1>5, OneRunner DEF Running
  <2> QED
    BY <1>2, <2>1
<1>6. CASE DeadTree(k)
  BY <1>2, <1>3, <1>6 DEF DeadTree
<1> QED
  BY <1>4, <1>5, <1>6

\* The job of a current attempt ends, with its descendants.
LEMMA EndingTurns ==
    ASSUME IInv, TurnsIInv, NEW w \in Workers, wk[w].pc # "idle", Current(w),
           NoneAdmitted, ~AtTurn(w)',
           NEW f \in [Jobs -> FrameType], \A j \in Jobs : f[j].state = frame[j].state,
           NEW state \in Terminal \cup {"expired"}, EndTrees(f, {wk[w].job}, state),
           \A k \in Jobs : k # wk[w].job /\ k \notin Descendants(wk[w].job) => job'[k] = job[k]
    PROVE  TurnsIInv'
<1> DEFINE j == wk[w].job
           all == {j} \cup UNION {Descendants(k) : k \in {j}}
<1>1. j \in Jobs /\ {j} \in SUBSET Jobs
  <2>1. WorkersInv
    BY Halves
  <2> QED
    BY <2>1, WorkMeansSlots
<1>2. \A k \in Jobs : k \in all <=> k = j \/ k \in Descendants(j)
  OBVIOUS
<1>3. \A k \in all : Root(k) = Root(j)
  BY <1>1, DescendantsRoot
<1>4. Accounts(turns) /\ \A k \in Jobs : Closed(k) => turns[k].reserved = 0
  BY BudgetAccounts DEF TurnsIInv, TurnsAgree, Closed
<1>5. /\ Accounts(turns')
      /\ \A k \in Jobs : Closed(k)' => turns'[k].reserved = 0
      /\ \A k \in Jobs : Left(turns, k) => Left(turns', k)
      /\ \A k \in Jobs : k \notin all => frame'[k].state = frame[k].state
  BY <1>1, <1>4, EndedTurns
<1> HIDE DEF all
<1>6. ASSUME NEW v \in Workers, NEW k \in Jobs, AtTurn(v)', k = wk[v].job
      PROVE  Running(k)' \/ DeadTree(k)'
  <2>1. AtTurn(v) /\ v # w
    BY <1>6 DEF NoneAdmitted
  <2>2. Root(k) # Root(j)
    BY <1>6, <2>1, CurrentAlone
  <2>3. \A x \in Jobs : Root(x) = Root(k) => job'[x] = job[x] /\ frame'[x].state = frame[x].state
    BY <1>2, <1>3, <1>5, <2>2
  <2>4. Running(k) \/ DeadTree(k)
    BY <1>6, <2>1 DEF TurnsIInv, TurnIsRunning, Running, DeadTree
  <2> QED
    BY <2>3, <2>4 DEF Running, DeadTree, Live, Over
<1> QED
  BY <1>5, <1>6, TurnsMove

\* finish, whatever its outcome.
LEMMA FinishTurns ==
    ASSUME IInv, TurnsIInv, NEW w \in Workers, wk[w].pc # "idle", NEW result, Finish(w, result)
    PROVE  TurnsIInv'
<1> DEFINE j == wk[w].job
           failures == frame[j].failed + (IF result = "failed" THEN 1 ELSE 0)
           end == result \in {"completed", "ended"} \/ Root(j) \in late \/ failures >= MaxFailures
           status == IF Root(j) \in late \/ (end /\ result # "completed") THEN "ended"
                     ELSE IF end THEN "completed"
                     ELSE "queued"
           ack == result = "completed" /\ wk[w].ready /\ Ready(j) /\ ~wait[j].consumed
           f == [frame EXCEPT ![j].failed = failures]
           jb == [job EXCEPT ![j].status = status]
<1>0. RowsInv /\ WorkersInv /\ wk \in [Workers -> WorkerType] /\ j \in Jobs /\ frame \in [Jobs -> FrameType]
      /\ job \in [Jobs -> JobType]
  <2>1. RowsInv /\ WorkersInv
    BY Halves
  <2> QED
    BY <2>1, WorkMeansSlots DEF WorkersInv, RowsInv
<1>1. NoneAdmitted /\ ~AtTurn(w)' /\ \A v \in Workers \ {w} : wk'[v] = wk[v]
  <2>1. PICK pc \in {"closing", "waking"} : Step(w, pc)
    BY <1>0, FinishStep
  <2>2. pc \in WithSession /\ pc \notin {"admitted", "thinking", "charged"}
    BY DEF WithSession
  <2> QED
    BY <1>0, <2>1, <2>2, LeavesTurn
<1>2. CASE ~Current(w)
  BY <1>1, <1>2, LocalTurns DEF Finish, db
<1>3. CASE Current(w)
  <2>1. /\ job' = IF end /\ ~ack THEN CancelledJobs(jb, Descendants(j)) ELSE jb
        /\ IF end /\ ~ack
           THEN EndTrees(f, {j}, IF status = "completed" THEN "completed" ELSE "expired")
           ELSE frame' = f /\ UNCHANGED turns
    BY <1>3 DEF Finish
  <2>2. failures \in 0..MaxFailures
    <3>1. frame[j].failed < MaxFailures /\ frame[j].failed \in Nat /\ MaxFailures \in Nat
      BY <1>0, <1>3, ObserverAssumption DEF Current, RowsInv, RowsAgree, RowAgrees, FrameType
    <3> QED
      BY <3>1
  <2> HIDE DEF failures
  <2>3. /\ f \in [Jobs -> FrameType] /\ \A k \in Jobs : f[k].state = frame[k].state
        /\ \A k \in Jobs : k # j => jb[k] = job[k]
    <3>1. [frame[j] EXCEPT !.failed = failures] \in FrameType
      BY <1>0, <2>2 DEF FrameType
    <3>2. f \in [Jobs -> FrameType]
      BY <1>0, <3>1
    <3> QED
      BY <1>0, <3>2 DEF FrameType
  <2>4. (IF status = "completed" THEN "completed" ELSE "expired") \in Terminal \cup {"expired"}
    BY DEF Terminal
  <2> HIDE DEF status, end, ack, f, jb
  <2>5. CASE end /\ ~ack
    <3>1. \A k \in Jobs : k # j /\ k \notin Descendants(j) => job'[k] = job[k]
      BY <2>1, <2>3, <2>5 DEF CancelledJobs
    <3> QED
      BY <1>1, <1>3, <2>1, <2>3, <2>4, <2>5, <3>1, EndingTurns
  <2>6. CASE ~(end /\ ~ack)
    <3>1. job' = jb /\ frame' = f /\ UNCHANGED turns
      BY <2>1, <2>6
    <3>2. \A k \in Jobs : Closed(k)' => Closed(k)
      BY <2>3, <3>1 DEF Closed, Over
    <3>3. ASSUME NEW v \in Workers, NEW k \in Jobs, AtTurn(v)', k = wk[v].job
          PROVE  /\ frame'[k].state = frame[k].state
                 /\ Live(k) => Live(k)'
                 /\ \A x \in Jobs : Root(x) = Root(k) /\ ~Live(x) => ~Live(x)'
      <4>1. AtTurn(v) /\ v # w
        BY <1>1, <3>3 DEF NoneAdmitted
      <4>2. Root(k) # Root(j)
        BY <1>3, <3>3, <4>1, CurrentAlone
      <4> QED
        BY <2>3, <3>1, <4>2 DEF Live
    <3> QED
      BY <1>1, <3>1, <3>2, <3>3, TurnsKept
  <2> QED
    BY <2>5, <2>6
<1> QED
  BY <1>2, <1>3

\* A worker is admitted to the model when its tree has a turn for it, and no
\* other worker of the tree is at one.
LEMMA PrepareTurns ==
    ASSUME IInv, TurnsIInv, NEW w \in Workers, ExecutePrepare(w)
    PROVE  TurnsIInv'
<1> DEFINE j == wk[w].job
<1>0. /\ WorkersInv /\ RowsInv /\ wk \in [Workers -> WorkerType] /\ wk[w].pc = "open"
      /\ TurnLimit \in Nat
  BY Halves, ObserverAssumption DEF WorkersInv, ExecutePrepare
<1>1. j \in Jobs /\ slot[j].owner = w
  BY <1>0, WorkMeansSlots
<1>2. CASE \E result : Finish(w, result)
  BY <1>0, <1>2, FinishTurns
<1>3. CASE ~ \E result : Finish(w, result)
  <2>1. /\ Admitted(w) /\ ~(Remaining(j) <= 0) /\ UNCHANGED db
        /\ wk' = [wk EXCEPT ![w].pc = "admitted", ![w].ready = Ready(j) /\ ~wait[j].consumed]
    BY <1>3 DEF ExecutePrepare
  <2>2. /\ \A v \in Workers \ {w} : wk'[v] = wk[v]
        /\ wk'[w].job = j /\ wk'[w].pc = "admitted"
    BY <1>0, <2>1 DEF WorkerType
  <2>3. UNCHANGED <<job, frame, turns>> /\ Current(w)
    BY <2>1 DEF db, Admitted
  <2>4. Live(j) /\ frame[j].state = "running"
    BY <1>0, <1>1, <2>3 DEF Current, RowsInv, RowsAgree, RowAgrees, Live, Terminal
  <2>5. turns[j].reserved > 0 \/ turns[Root(j)].used + turns[Root(j)].held < TurnLimit
    <3>1. Root(j) \in Jobs /\ Accounts(turns)
      BY <1>1, RootFacts, BudgetAccounts DEF TurnsIInv
    <3>2. /\ turns[Root(j)].used \in Nat /\ turns[Root(j)].held \in 0..TurnLimit
          /\ turns[j].reserved \in Nat
      BY <1>1, <3>1 DEF Accounts
    <3> QED
      BY <1>0, <2>1, <3>2 DEF Remaining
  <2>6. \A v \in Workers \ {w} : AtTurn(v) => Root(wk[v].job) # Root(j)
    BY <1>0, <2>3, CurrentAlone
  <2>7. TurnIsRunning'
    <3>1. ASSUME NEW v \in Workers, NEW k \in Jobs, AtTurn(v)', k = wk[v].job
          PROVE  Running(k)' \/ DeadTree(k)'
      <4>1. CASE v = w
        BY <2>3, <2>4, <3>1, <4>1 DEF Running, Live
      <4>2. CASE v # w
        <5>1. AtTurn(v)
          BY <2>2, <3>1, <4>2 DEF AtTurn
        <5>2. Running(k) \/ DeadTree(k)
          BY <3>1, <5>1 DEF TurnsIInv, TurnIsRunning, Running, DeadTree
        <5> QED
          BY <2>3, <5>2 DEF Running, DeadTree, Live, Over
      <4> QED
        BY <4>1, <4>2
    <3>2. \A v \in Workers : AtTurn(v)' => wk'[v].job = wk[v].job /\ wk[v].job \in Jobs
      BY <1>1, <2>2, TurnHolder DEF AtTurn
    <3> QED
      BY <3>1, <3>2 DEF TurnIsRunning, Running, DeadTree
  <2>8. OneTurnPerTree'
    <3>1. \A v \in Workers : /\ wk'[v].job = wk[v].job
                             /\ v # w => (AtTurn(v)' <=> AtTurn(v))
      BY <2>2 DEF AtTurn
    <3> QED
      BY <2>6, <3>1 DEF TurnsIInv, OneTurnPerTree
  <2>9. TurnIsLeft'
    BY <2>2, <2>3, <2>5 DEF TurnsIInv, TurnIsLeft
  <2>10. TurnBudget' /\ TurnsAgree'
    BY <2>3 DEF TurnsIInv, TurnBudget, TurnsAgree
  <2> QED
    BY <2>7, <2>8, <2>9, <2>10 DEF TurnsIInv
<1> QED
  BY <1>2, <1>3

\* The turn is charged, although the frame may have ended meanwhile.
LEMMA ChargeTurns ==
    ASSUME IInv, TurnsIInv, NEW w \in Workers, NEW answer, ExecuteCharge(w, answer)
    PROVE  TurnsIInv'
<1> DEFINE j == wk[w].job
<1>0. /\ WorkersInv /\ wk \in [Workers -> WorkerType] /\ wk[w].pc = "thinking" /\ AtTurn(w)
  BY Halves DEF WorkersInv, ExecuteCharge, AtTurn
<1>1. j \in Jobs
  BY <1>0, WorkMeansSlots
<1>2. CASE ~MayCharge(j)
  BY <1>0, <1>2, FinishTurns DEF ExecuteCharge
<1>3. CASE MayCharge(j)
  <2>1. /\ turns' = Charged(j) /\ UNCHANGED <<job, frame>>
        /\ wk' = [wk EXCEPT ![w].pc = "charged", ![w].answer = answer]
    BY <1>3 DEF ExecuteCharge
  <2>2. /\ \A v \in Workers \ {w} : wk'[v] = wk[v]
        /\ wk'[w].job = j /\ wk'[w].pc = "charged"
    BY <1>0, <2>1 DEF WorkerType
  <2>3. NoneAdmitted
    BY <1>0, <2>2 DEF NoneAdmitted, AtTurn
  <2>4. /\ Accounts(turns) /\ \A k \in Jobs : Closed(k) => turns[k].reserved = 0
        /\ turns[j].reserved > 0 \/ turns[Root(j)].used + turns[Root(j)].held < TurnLimit
    BY <1>0, BudgetAccounts DEF TurnsIInv, TurnsAgree, Closed, TurnIsLeft
  <2>5. /\ Accounts(turns')
        /\ \A k \in Jobs : turns[k].reserved = 0 => turns'[k].reserved = 0
        /\ \A k \in Jobs : Root(k) # Root(j) => turns'[k] = turns[k]
    BY <1>1, <1>3, <2>1, <2>4, ChargedAccounts DEF Closed
  <2>6. \A k \in Jobs : Closed(k)' => turns'[k].reserved = 0
    BY <2>1, <2>4, <2>5 DEF Closed
  <2>7. ASSUME NEW v \in Workers, NEW k \in Jobs, AtTurn(v)', k = wk[v].job
        PROVE  Running(k)' \/ DeadTree(k)'
    <3>1. AtTurn(v)
      BY <2>3, <2>7 DEF NoneAdmitted
    <3> QED
      BY <2>1, <2>7, <3>1 DEF TurnsIInv, TurnIsRunning, Running, DeadTree, Live
  <2>8. ASSUME NEW v \in Workers, NEW k \in Jobs, wk'[v].pc \in {"admitted", "thinking"}, k = wk[v].job
        PROVE  Left(turns, k) => Left(turns', k)
    <3>1. v # w /\ AtTurn(v)
      BY <2>2, <2>8 DEF AtTurn
    <3>2. Root(k) # Root(j)
      BY <1>0, <2>8, <3>1 DEF TurnsIInv, OneTurnPerTree
    <3>3. turns'[k] = turns[k] /\ turns'[Root(k)] = turns[Root(k)]
      BY <2>5, <3>2, RootFacts
    <3> QED
      BY <3>3 DEF Left
  <2> QED
    BY <2>3, <2>5, <2>6, <2>7, <2>8, TurnsMove
<1> QED
  BY <1>2, <1>3

\* A wait is registered: the turns of the child and of the return are set
\* aside.
LEMMA WaitTurns ==
    ASSUME IInv, TurnsIInv, NEW w \in Workers, PrivateWait(w)
    PROVE  TurnsIInv'
<1> DEFINE j == wk[w].job
<1>0. /\ WorkersInv /\ RowsInv /\ wk \in [Workers -> WorkerType] /\ wk[w].pc = "charged"
      /\ job \in [Jobs -> JobType] /\ frame \in [Jobs -> FrameType]
  BY Halves DEF WorkersInv, RowsInv, PrivateWait
<1>1. j \in Jobs
  BY <1>0, WorkMeansSlots
<1>2. CASE Finish(w, "ended")
  BY <1>0, <1>2, FinishTurns
<1>3. ASSUME NEW n \in 1..2, NEW c \in Children(j), Current(w), MayWait(j, n), Waits(w, c, n) PROVE TurnsIInv'
  <2>1. /\ job' = [job EXCEPT ![j].status = "queued", ![c].status = "queued"]
        /\ Registered(j, c, n) /\ Step(w, "closing")
    BY <1>3 DEF Waits
  <2>2. c \in Jobs /\ c # j /\ Root(c) = Root(j)
    BY <1>1, RootFacts, ChildIsOther
  <2>3. frame[c] = NoFrame
    BY <1>0, <1>1, <1>3, <2>2
       DEF MayWait, RowsInv, RowsAgree, RowAgrees, FamiliesTakeTurns, TakesTurns
  <2>4. Accounts(turns) /\ \A k \in Jobs : Closed(k) => turns[k].reserved = 0
    BY BudgetAccounts DEF TurnsIInv, TurnsAgree, Closed
  <2>5. turns[c].reserved = 0
    BY <2>2, <2>3, <2>4 DEF Closed, NoFrame
  <2>6. /\ Accounts(turns')
        /\ \A k \in Jobs \ {j, c} : turns'[k].reserved = turns[k].reserved
        /\ \A k \in Jobs : Root(k) # Root(j) => turns'[k] = turns[k]
    BY <1>1, <1>3, <2>1, <2>4, <2>5, RegisteredAccounts
  <2>7. NoneAdmitted /\ ~AtTurn(w)'
    BY <1>0, <2>1, LeavesTurn DEF WithSession
  <2>8. /\ \A k \in Jobs \ {j, c} : frame'[k] = frame[k] /\ job'[k] = job[k]
        /\ frame'[j].state = "waiting" /\ frame'[c].state = "queued"
    BY <1>0, <1>1, <2>1, <2>2 DEF Registered, NoFrame, FrameType
  <2>9. \A k \in Jobs : Closed(k)' => turns'[k].reserved = 0
    BY <2>4, <2>6, <2>8 DEF Closed, Over
  <2>10. ASSUME NEW v \in Workers, NEW k \in Jobs, AtTurn(v)', k = wk[v].job
         PROVE  /\ Root(k) # Root(j)
                /\ Running(k)' \/ DeadTree(k)'
    <3>1. AtTurn(v) /\ v # w
      BY <2>7, <2>10 DEF NoneAdmitted
    <3>2. Root(k) # Root(j)
      BY <1>0, <1>3, <2>10, <3>1, CurrentAlone
    <3>3. \A x \in Jobs : Root(x) = Root(k) => job'[x] = job[x] /\ frame'[x] = frame[x]
      BY <2>2, <2>8, <3>2
    <3>4. Running(k) \/ DeadTree(k)
      BY <2>10, <3>1 DEF TurnsIInv, TurnIsRunning, Running, DeadTree
    <3> QED
      BY <3>2, <3>3, <3>4 DEF Running, DeadTree, Live, Over
  <2>11. ASSUME NEW v \in Workers, NEW k \in Jobs, wk'[v].pc \in {"admitted", "thinking"}, k = wk[v].job
         PROVE  Left(turns, k) => Left(turns', k)
    <3>1. Root(k) # Root(j)
      BY <2>10, <2>11 DEF AtTurn
    <3>2. turns'[k] = turns[k] /\ turns'[Root(k)] = turns[Root(k)]
      BY <2>6, <3>1, RootFacts
    <3> QED
      BY <3>2 DEF Left
  <2> QED
    BY <2>6, <2>7, <2>9, <2>10, <2>11, TurnsMove
<1> QED
  BY <1>2, <1>3, WaitOutcomes
\* _execute of a removed skill.
LEMMA RetiredTurns ==
    ASSUME IInv, TurnsIInv, NEW w \in Workers, ExecuteRetired(w)
    PROVE  TurnsIInv'
<1> DEFINE j == wk[w].job
           state == IF Root(j) \in late THEN "expired" ELSE "ended"
<1>0. /\ wk \in [Workers -> WorkerType] /\ wk[w].pc # "idle" /\ job \in [Jobs -> JobType]
      /\ frame \in [Jobs -> FrameType]
      /\ wk' = [wk EXCEPT ![w] = Idle] \/ Step(w, "retiring")
  BY Halves DEF WorkersInv, RowsInv, ExecuteRetired
<1>1. NoneAdmitted /\ ~AtTurn(w)'
  BY <1>0, NoSlotType, LeavesTurn
<1>2. CASE ~Current(w)
  BY <1>1, <1>2, LocalTurns DEF ExecuteRetired
<1>3. CASE Current(w)
  <2>1. /\ job' = CancelledJobs([job EXCEPT ![j].status = "ended"], Descendants(j))
        /\ EndTrees(frame, {j}, state)
    BY <1>3 DEF ExecuteRetired
  <2>2. \A k \in Jobs : k # j /\ k \notin Descendants(j) => job'[k] = job[k]
    <3>1. \A k \in Jobs : k # j => [job EXCEPT ![j].status = "ended"][k] = job[k]
      BY <1>0
    <3> QED
      BY <2>1, <3>1 DEF CancelledJobs
  <2>3. state \in Terminal \cup {"expired"}
    BY DEF Terminal
  <2> HIDE DEF state
  <2> QED
    BY <1>0, <1>1, <1>3, <2>1, <2>2, <2>3, EndingTurns
<1> QED
  BY <1>2, <1>3

\* Waking parents changes no job that is not live, and no frame.
LEMMA WokenTurns ==
    ASSUME IInv, TurnsIInv, NoneAdmitted, Woken, UNCHANGED <<frame, turns>>
    PROVE  TurnsIInv'
<1>1. \A j \in Jobs : Live(j)' <=> Live(j)
  <2>1. job \in [Jobs -> JobType]
    BY Halves DEF RowsInv
  <2> QED
    BY <2>1 DEF Woken, Live, Terminal, JobType
<1>2. \A j \in Jobs : (Closed(j)' => Closed(j)) /\ frame'[j].state = frame[j].state
  BY DEF Closed, Over
<1> QED
  BY <1>1, <1>2, TurnsKept

\* The slot of a worker that has finished is deleted.
LEMMA ReleaseTurns ==
    ASSUME IInv, TurnsIInv, NEW w \in Workers, ReleaseSlot(w)
    PROVE  TurnsIInv'
<1> DEFINE j == wk[w].job
<1>0. /\ WorkersInv /\ wk \in [Workers -> WorkerType] /\ wk[w].pc # "idle"
      /\ frame \in [Jobs -> FrameType] /\ wk' = [wk EXCEPT ![w] = Idle] /\ UNCHANGED <<job, turns>>
  BY Halves DEF WorkersInv, RowsInv, ReleaseSlot
<1>1. NoneAdmitted /\ ~AtTurn(w)' /\ j \in Jobs /\ slot[j].owner = w
  BY <1>0, NoSlotType, LeavesTurn, WorkMeansSlots
<1>2. frame' = frame \/ (frame[j].state = "waiting" /\ frame' = [frame EXCEPT ![j].state = "suspended"])
  BY DEF ReleaseSlot
<1>3. \A k \in Jobs : Closed(k)' => Closed(k)
  BY <1>0, <1>1, <1>2 DEF Closed, Over, FrameType
<1>4. ASSUME NEW v \in Workers, NEW k \in Jobs, AtTurn(v)', k = wk[v].job
      PROVE  /\ frame'[k].state = frame[k].state
             /\ Live(k) => Live(k)'
             /\ \A x \in Jobs : ~Live(x) => ~Live(x)'
  <2>1. AtTurn(v) /\ v # w
    BY <1>1, <1>4 DEF NoneAdmitted
  <2>2. k # j
    BY <1>1, <1>4, <2>1, TurnHolder
  <2> QED
    BY <1>0, <1>2, <2>2 DEF Live
<1> QED
  BY <1>0, <1>1, <1>3, <1>4, TurnsKept

\* The steps of a worker after its claim.
LEMMA WorkerTurns ==
    ASSUME IInv, TurnsIInv, NEW w \in Workers, WorkerStep(w) \/ Crash(w)
    PROVE  TurnsIInv'
<1>0. wk \in [Workers -> WorkerType]
  BY Halves DEF WorkersInv
<1>1. ASSUME NEW pc \in {"gated", "open", "closing", "release"}, Step(w, pc)  PROVE NoneAdmitted
  BY <1>0, <1>1, LeavesTurn DEF WithSession
<1>2. wk' = [wk EXCEPT ![w] = Idle] => NoneAdmitted
  BY <1>0, NoSlotType, LeavesTurn
<1>3. CASE ExecuteGate(w)
  <2>1. wk[w].pc # "idle" /\ (Finish(w, "failed") \/ (Step(w, "gated") /\ UNCHANGED db))
    BY <1>3 DEF ExecuteGate
  <2> QED
    BY <1>1, <2>1, FinishTurns, LocalTurns DEF db
<1>4. CASE ExecuteOpen(w) \/ CloseSession(w)
  BY <1>1, <1>4, LocalTurns DEF ExecuteOpen, CloseSession, db
<1>5. CASE ExecuteModel(w)
  <2>1. wk[w].pc = "admitted" /\ Step(w, "thinking") /\ UNCHANGED <<job, frame, turns>>
    BY <1>5 DEF ExecuteModel, db
  <2>2. \A v \in Workers : /\ v # w => wk'[v] = wk[v]
                           /\ wk'[v].job = wk[v].job
    BY <1>0, <2>1 DEF Step, WorkerType
  <2>3. NoneAdmitted
    BY <2>1, <2>2 DEF NoneAdmitted, AtTurn
  <2> QED
    BY <2>1, <2>3, LocalTurns
<1>6. CASE ExecuteFails(w) \/ ExecuteFinish(w)
  <2>1. wk[w].pc # "idle" /\ \E result : Finish(w, result)
    BY <1>6 DEF ExecuteFails, ExecuteFinish
  <2> QED
    BY <2>1, FinishTurns
<1>7. CASE WakeParents(w) \/ RetiredWakes(w)
  BY <1>1, <1>2, <1>7, WokenTurns DEF WakeParents, RetiredWakes
<1>8. CASE CloseFails(w) \/ Crash(w)
  BY <1>2, <1>8, LocalTurns DEF CloseFails, Crash
<1> QED
  BY <1>3, <1>4, <1>5, <1>6, <1>7, <1>8, RetiredTurns, PrepareTurns, ChargeTurns, WaitTurns,
     ReleaseTurns DEF WorkerStep

\* A claim takes a job without a slot: nobody is at a turn for it.
LEMMA ClaimTurns ==
    ASSUME IInv, TurnsIInv, NEW w \in Workers, NEW j \in Jobs,
           ClaimExhausted(w, j) \/ \E gone \in SUBSET Lapsed : Claim(w, j, gone)
    PROVE  TurnsIInv'
<1>0. /\ WorkersInv /\ wk \in [Workers -> WorkerType] /\ job \in [Jobs -> JobType]
      /\ frame \in [Jobs -> FrameType]
  BY Halves DEF WorkersInv, RowsInv
<1>1. CASE ClaimExhausted(w, j)
  <2>1. /\ slot[j] = NoSlot /\ job' = [job EXCEPT ![j].status = "ended"] /\ UNCHANGED <<frame, turns, wk>>
    BY <1>1 DEF ClaimExhausted, Dispatchable
  <2>2. NoneAdmitted /\ \A k \in Jobs : (Closed(k)' => Closed(k)) /\ frame'[k].state = frame[k].state
    BY <2>1, NobodyMoves DEF Closed, Over
  <2>3. \A k \in Jobs : (~Live(k) => ~Live(k)') /\ (k # j /\ Live(k) => Live(k)')
    BY <1>0, <2>1 DEF Live, Terminal, JobType
  <2>4. \A v \in Workers : AtTurn(v)' => wk[v].job # j
    BY <2>1, TurnHolder DEF AtTurn
  <2> QED
    BY <2>1, <2>2, <2>3, <2>4, TurnsKept
<1>2. ASSUME NEW gone \in SUBSET Lapsed, Claim(w, j, gone)  PROVE TurnsIInv'
  <2>1. /\ Live(j) /\ Without(gone)[j] = NoSlot /\ UNCHANGED turns
        /\ job' = [job EXCEPT ![j] = [status |-> "running", attempt |-> @.attempt + 1]]
        /\ frame' = [frame EXCEPT ![j].state = "running"]
        /\ wk' = [wk EXCEPT ![w] = [Idle EXCEPT !.pc = "claimed", !.job = j, !.attempt = job[j].attempt + 1]]
    BY <1>2 DEF Claim, Dispatchable
  <2>2. NoneAdmitted
    <3>1. \A v \in Workers : v # w => wk'[v] = wk[v]
      BY <1>0, <2>1
    <3>2. wk'[w].pc = "claimed"
      BY <1>0, <2>1 DEF Idle
    <3> QED
      BY <3>1, <3>2 DEF NoneAdmitted, AtTurn
  <2>3. \A k \in Jobs : Closed(k)' => Closed(k)
    BY <1>0, <2>1 DEF Closed, Over, FrameType
  <2>4. \A k \in Jobs : Live(k)' <=> Live(k)
    BY <1>0, <2>1 DEF Live, Terminal, JobType
  <2>5. \A v \in Workers : AtTurn(v) => wk[v].job # j
    <3>1. ASSUME NEW v \in Workers, AtTurn(v) PROVE wk[v].job # j
      <4>1. wk[v].job \in Jobs /\ slot[wk[v].job] # NoSlot /\ slot[wk[v].job].owner # Dead
        BY <3>1, TurnHolder, ObserverAssumption
      <4>2. wk[v].job \notin gone
        BY <4>1 DEF Lapsed
      <4> QED
        BY <2>1, <4>1, <4>2 DEF Without
    <3> QED
      BY <3>1
  <2>6. ASSUME NEW v \in Workers, NEW k \in Jobs, AtTurn(v)', k = wk[v].job
        PROVE  frame'[k].state = frame[k].state
    BY <1>0, <2>1, <2>2, <2>5, <2>6 DEF NoneAdmitted
  <2> QED
    BY <2>1, <2>2, <2>3, <2>4, <2>6, TurnsKept
<1> QED
  BY <1>1, <1>2

\* A job exists only under a root that does.
LEMMA RootHasRow ==
    ASSUME RowsInv, NEW k \in Jobs, job[k].status # "none"
    PROVE  job[Root(k)].status # "none"
<1>1. ASSUME NEW c \in Jobs, job[c].status # "none", Parent[c] \in Jobs
      PROVE  job[Parent[c]].status # "none"
  <2>1. TakesTurns(Parent[c], c) /\ RowAgrees(Parent[c])
    BY <1>1 DEF RowsInv, RowsAgree, FamiliesTakeTurns, Children
  <2> QED
    BY <1>1, <2>1 DEF TakesTurns, RowAgrees
<1> QED
  BY <1>1, Levels

LEMMA SubmitTurns ==
    ASSUME IInv, TurnsIInv, NEW r \in Roots, Submit(r)
    PROVE  TurnsIInv'
<1>0. /\ RowsInv /\ job \in [Jobs -> JobType] /\ frame \in [Jobs -> FrameType]
      /\ r \in Jobs /\ Root(r) = r
  BY Halves, RootFacts DEF RowsInv
<1>1. /\ job[r].status = "none" /\ job' = [job EXCEPT ![r].status = "queued"]
      /\ frame' = [frame EXCEPT ![r] = [NoFrame EXCEPT !.state = "queued"]] /\ UNCHANGED <<turns, wk>>
  BY DEF Submit
<1>2. NoneAdmitted
  BY <1>1, NobodyMoves
<1>3. /\ \A k \in Jobs : Closed(k)' => Closed(k)
      /\ \A k \in Jobs : k # r => job'[k] = job[k] /\ frame'[k] = frame[k]
  BY <1>0, <1>1 DEF Closed, Over, NoFrame
<1>4. ASSUME NEW v \in Workers, NEW k \in Jobs, AtTurn(v)', k = wk[v].job  PROVE Root(k) # r
  <2>1. Running(k) \/ DeadTree(k)
    BY <1>2, <1>4 DEF NoneAdmitted, TurnsIInv, TurnIsRunning, Running, DeadTree
  <2>2. job[k].status # "none"
    BY <1>0, <2>1 DEF Running, DeadTree, Live, Over, RowsInv, RowsAgree, RowAgrees, NoFrame
  <2> QED
    BY <1>0, <1>1, <2>2, RootHasRow
<1>5. ASSUME NEW v \in Workers, NEW k \in Jobs, AtTurn(v)', k = wk[v].job
      PROVE  /\ frame'[k].state = frame[k].state
             /\ Live(k) => Live(k)'
             /\ \A x \in Jobs : Root(x) = Root(k) /\ ~Live(x) => ~Live(x)'
  <2>1. Root(k) # r
    BY <1>4, <1>5
  <2> QED
    BY <1>0, <1>3, <2>1 DEF Live
<1> QED
  BY <1>1, <1>2, <1>3, <1>5, TurnsKept

\* A whole tree ends under the workers that are at a turn in it.
LEMMA TreeTurns ==
    ASSUME IInv, TurnsIInv, UNCHANGED wk, NEW r \in Roots, NEW tops \in SUBSET Jobs,
           \A k \in tops : Root(k) = r,
           NEW state \in Terminal \cup {"expired"}, EndTrees(frame, tops, state),
           \A k \in Jobs : Root(k) = r => ~Live(k)',
           \A k \in Jobs : Root(k) # r => job'[k] = job[k],
           \A k \in Jobs : Root(k) = r /\ Live(k) =>
              k \in tops \/ k \in UNION {Descendants(j) : j \in tops}
    PROVE  TurnsIInv'
<1> DEFINE all == tops \cup UNION {Descendants(j) : j \in tops}
<1>1. \A k \in all : Root(k) = r
  BY DescendantsRoot
<1>2. /\ Accounts(turns) /\ \A k \in Jobs : Closed(k) => turns[k].reserved = 0
      /\ frame \in [Jobs -> FrameType] /\ NoneAdmitted
  BY Halves, BudgetAccounts, NobodyMoves DEF TurnsIInv, TurnsAgree, Closed, RowsInv
<1>3. /\ Accounts(turns')
      /\ \A k \in Jobs : Closed(k)' => turns'[k].reserved = 0
      /\ \A k \in Jobs : Left(turns, k) => Left(turns', k)
      /\ \A k \in Jobs : Over(frame[k]) \/ (k \in all /\ frame[k].state # "none") => Over(frame'[k])
      /\ \A k \in Jobs : k \notin all => frame'[k].state = frame[k].state
  BY <1>2, EndedTurns
<1>4. \A k \in Jobs : Root(k) = r /\ Live(k) => k \in all
  OBVIOUS
<1> HIDE DEF all
<1>5. ASSUME NEW v \in Workers, NEW k \in Jobs, AtTurn(v)', k = wk[v].job
      PROVE  Running(k)' \/ DeadTree(k)'
  <2>1. Running(k) \/ DeadTree(k)
    BY <1>2, <1>5 DEF NoneAdmitted, TurnsIInv, TurnIsRunning, Running, DeadTree
  <2>2. CASE Root(k) = r
    <3>1. Over(frame'[k])
      BY <1>3, <1>4, <2>1, <2>2 DEF Running, DeadTree
    <3> QED
      BY <2>2, <3>1 DEF DeadTree
  <2>3. CASE Root(k) # r
    <3>1. \A x \in Jobs : Root(x) = Root(k) => job'[x] = job[x] /\ frame'[x].state = frame[x].state
      BY <1>1, <1>3, <2>3
    <3> QED
      BY <2>1, <3>1 DEF Running, DeadTree, Live, Over
  <2> QED
    BY <2>2, <2>3
<1> QED
  BY <1>2, <1>3, <1>5, TurnsMove

LEMMA ExpireTurns ==
    ASSUME IInv, TurnsIInv, NEW r \in Roots, Expire(r)
    PROVE  TurnsIInv'
<1> DEFINE tops == {j \in Tree(r) : Live(j)}
<1>1. Tree(r) = {k \in Jobs : Root(k) = r}
  BY TreeIsClass
<1>2. /\ job' = [j \in Jobs |-> IF j \in Tree(r) /\ Live(j)
                                THEN [status |-> "ended", attempt |-> job[j].attempt + 1] ELSE job[j]]
      /\ EndTrees(frame, tops, "expired") /\ UNCHANGED wk
  BY DEF Expire
<1>3. /\ \A k \in Jobs : Root(k) = r => ~Live(k)'
      /\ \A k \in Jobs : Root(k) # r => job'[k] = job[k]
  BY <1>1, <1>2 DEF Live, Terminal
<1>4. /\ tops \in SUBSET Jobs /\ \A k \in tops : Root(k) = r
      /\ \A k \in Jobs : Root(k) = r /\ Live(k) => k \in tops
  BY <1>1
<1> HIDE DEF tops
<1> QED
  BY <1>2, <1>3, <1>4, TreeTurns

LEMMA CancelTurns ==
    ASSUME IInv, TurnsIInv, NEW r \in Roots, Live(r), Cancelled(r), UNCHANGED wk
    PROVE  TurnsIInv'
<1> DEFINE jb == [job EXCEPT ![r] = [status |-> "cancelled", attempt |-> job[r].attempt + 1]]
<1>0. RowsInv /\ job \in [Jobs -> JobType] /\ r \in Jobs /\ Root(r) = r
  BY Halves, RootFacts DEF RowsInv
<1>1. job' = CancelledJobs(jb, Descendants(r)) /\ EndTrees(frame, {r}, "cancelled")
  BY DEF Cancelled
<1>2. jb[r].status = "cancelled" /\ \A k \in Jobs : k # r => jb[k] = job[k]
  BY <1>0
<1>3. ASSUME NEW k \in Jobs
      PROVE  job'[k] = IF k \in Descendants(r) /\ jb[k].status \notin Terminal \cup {"none"}
                             /\ frame[k].state # "none"
                       THEN [status |-> "cancelled", attempt |-> jb[k].attempt + 1] ELSE jb[k]
  BY <1>1 DEF CancelledJobs
<1> HIDE DEF jb
<1>4. \A k \in Jobs : Root(k) = r => k = r \/ k \in Descendants(r)
  BY TreeIsClass DEF Tree
<1>5. ASSUME NEW k \in Jobs, Root(k) = r PROVE ~Live(k)'
  <2>1. CASE k = r
    BY <1>2, <1>3, <2>1 DEF Live, Terminal
  <2>2. CASE k # r
    <3>1. k \in Descendants(r) /\ jb[k] = job[k]
      BY <1>2, <1>4, <1>5, <2>2
    <3>2. Live(k) => frame[k].state # "none"
      BY <1>0 DEF RowsInv, RowsAgree, RowAgrees, OpenStates
    <3>3. CASE Live(k)
      <4>1. job'[k] = [status |-> "cancelled", attempt |-> jb[k].attempt + 1]
        BY <1>3, <3>1, <3>2, <3>3 DEF Live
      <4> QED
        BY <4>1 DEF Live, Terminal
    <3>4. CASE ~Live(k)
      <4>1. job'[k] = job[k]
        BY <1>3, <3>1, <3>4 DEF Live
      <4> QED
        BY <3>4, <4>1 DEF Live
    <3> QED
      BY <3>3, <3>4
  <2> QED
    BY <2>1, <2>2
<1>6. \A k \in Jobs : Root(k) # r => job'[k] = job[k]
  BY <1>0, <1>2, <1>3, DescendantsRoot
<1>7. /\ {r} \in SUBSET Jobs /\ \A k \in {r} : Root(k) = r
      /\ \A k \in Jobs : Root(k) = r => k \in {r} \/ k \in UNION {Descendants(j) : j \in {r}}
      /\ "cancelled" \in Terminal \cup {"expired"}
  BY <1>0, <1>4 DEF Terminal
<1> QED
  BY <1>1, <1>5, <1>6, <1>7, TreeTurns

\* The rows of the children of j are deleted; they have nothing in reserve,
\* and nobody is at a turn for them or for j.
LEMMA ForgottenTurns ==
    ASSUME IInv, TurnsIInv, NEW j \in Jobs, UNCHANGED <<job, wk>>,
           \A k \in {j} \cup Children(j) : slot[k] = NoSlot,
           \A c \in Children(j) : Closed(c),
           NEW js \in SUBSET Jobs, turns' = Returned(Forgotten(turns, j, NoTurns), js),
           \A k \in Jobs : k \notin {j} \cup Children(j) => frame'[k].state = frame[k].state,
           Closed(j)' => Closed(j) \/ j \in js
    PROVE  TurnsIInv'
<1> DEFINE t == Forgotten(turns, j, NoTurns)
<1>0. Accounts(turns) /\ \A k \in Jobs : Closed(k) => turns[k].reserved = 0
  BY BudgetAccounts DEF TurnsIInv, TurnsAgree, Closed
<1>1. \A c \in Children(j) : c \in Jobs /\ c \notin Roots /\ turns[c].reserved = 0
  BY <1>0, RootFacts
<1>2. /\ Accounts(t)
      /\ \A k \in Jobs : t[k].reserved = turns[k].reserved
      /\ \A k \in Jobs : k \notin Children(j) => t[k] = turns[k]
  BY <1>0, <1>1, ForgottenAccounts
<1> HIDE DEF t
<1>3. /\ Accounts(turns')
      /\ \A k \in Jobs : turns'[k].reserved = IF k \in js THEN 0 ELSE t[k].reserved
  BY <1>2, ReturnedAccounts DEF t
<1>4. ASSUME NEW k \in Jobs, Left(turns, k) PROVE Left(turns', k)
  <2>1. t[Root(k)] = turns[Root(k)]
    BY <1>1, <1>2, RootFacts
  <2>2. Left(t, k)
    BY <1>2, <1>4, <2>1 DEF Left
  <2> QED
    BY <1>2, <2>2, ReturnedLeft DEF t
<1>5. ASSUME NEW k \in Jobs, Closed(k)' PROVE turns'[k].reserved = 0
  <2>1. CASE k \in Children(j)
    BY <1>1, <1>2, <1>3, <2>1
  <2>2. CASE k = j
    BY <1>0, <1>2, <1>3, <1>5, <2>2
  <2>3. CASE k \notin {j} \cup Children(j)
    <3>1. Closed(k)
      BY <1>5, <2>3 DEF Closed, Over
    <3> QED
      BY <1>0, <1>2, <1>3, <3>1
  <2> QED
    BY <2>1, <2>2, <2>3
<1>6. NoneAdmitted
  BY NobodyMoves
<1>7. ASSUME NEW v \in Workers, NEW k \in Jobs, AtTurn(v)', k = wk[v].job
      PROVE  Running(k)' \/ DeadTree(k)'
  <2>1. AtTurn(v)
    BY <1>6, <1>7 DEF NoneAdmitted
  <2>2. frame'[k].state = frame[k].state
    BY <1>7, <2>1, TurnHolder
  <2>3. Running(k) \/ DeadTree(k)
    BY <1>7, <2>1 DEF TurnsIInv, TurnIsRunning, Running, DeadTree
  <2> QED
    BY <2>2, <2>3 DEF Running, DeadTree, Live, Over
<1> QED
  BY <1>3, <1>4, <1>5, <1>6, <1>7, TurnsMove

LEMMA ConsumeTurns ==
    ASSUME IInv, TurnsIInv, NEW j \in Jobs, ConsumeAck(j)
    PROVE  TurnsIInv'
<1> DEFINE f == Forgotten(frame, j, NoFrame)
           ends == IF Live(j) \/ (job[j].status = "completed" /\ Root(j) \in late) THEN {} ELSE {j}
           js == Ending(f, ends)
           state == IF job[j].status = "completed" THEN "completed" ELSE "expired"
<1>0. RowsInv /\ frame \in [Jobs -> FrameType] /\ j \notin Children(j)
  BY Halves, ChildIsOther DEF RowsInv
<1>1. ends \subseteq {j}
  OBVIOUS
<1>2. /\ frame' = EndFrames(f, ends, state)
      /\ turns' = Returned(Forgotten(turns, j, NoTurns), js)
      /\ Ready(j) /\ UNCHANGED <<job, wk>>
      /\ \A k \in {j} \cup Children(j) : slot[k] = NoSlot
  BY DEF ConsumeAck
<1> HIDE DEF ends, state
<1>3. \A c \in Children(j) : Closed(c)
  <2>1. \A c \in Children(j) : frame[c].state \notin OpenStates /\ c \in Jobs
    BY <1>0, <1>2, ReadyHasNoChild DEF Children
  <2> QED
    BY <1>0, <2>1 DEF Closed, Over, FrameType, Terminal
<1>4. js \in SUBSET Jobs
  BY <1>1 DEF Ending
<1>5. \A k \in Jobs : k \notin {j} \cup Children(j) => frame'[k].state = frame[k].state
  BY <1>1, <1>2 DEF EndFrames, Forgotten, Ending
<1>6. Closed(j)' => Closed(j) \/ j \in js
  <2>1. f[j] = frame[j]
    BY <1>0 DEF Forgotten
  <2>2. j \notin js => frame'[j] = f[j]
    BY <1>2 DEF EndFrames
  <2> QED
    BY <2>1, <2>2 DEF Closed
<1> HIDE DEF js, f
<1> QED
  BY <1>2, <1>3, <1>4, <1>5, <1>6, ForgottenTurns

LEMMA RetireTurns ==
    ASSUME IInv, TurnsIInv, NEW j \in Jobs, RetireWait(j)
    PROVE  TurnsIInv'
<1> DEFINE t == Forgotten(turns, j, NoTurns)
<1>1. /\ frame' = Forgotten(frame, j, NoFrame) /\ turns' = t /\ UNCHANGED <<job, wk>>
      /\ Over(frame[j]) /\ \A c \in Children(j) : Closed(c)
      /\ \A k \in {j} \cup Children(j) : slot[k] = NoSlot
  BY DEF RetireWait, Closed
<1>2. Accounts(turns) /\ \A k \in Jobs : Closed(k) => turns[k].reserved = 0
  BY BudgetAccounts DEF TurnsIInv, TurnsAgree, Closed
<1>3. Accounts(t)
  <2>1. \A c \in Children(j) : turns[c].reserved = 0
    BY <1>1, <1>2, RootFacts
  <2> QED
    BY <1>2, <2>1, ForgottenAccounts
<1>4. Returned(t, {}) = t
  <2>1. \A k \in Jobs : {x \in {} : Root(x) = k} = {}
    OBVIOUS
  <2>2. \A k \in Jobs : t[k] = [used |-> t[k].used, reserved |-> t[k].reserved, held |-> t[k].held - 0]
    BY <1>3, ObserverAssumption DEF Accounts
  <2>3. t = [k \in Jobs |-> t[k]]
    BY DEF Forgotten
  <2> HIDE DEF t
  <2>4. Returned(t, {}) = [k \in Jobs |-> [used |-> t[k].used, reserved |-> t[k].reserved, held |-> t[k].held - 0]]
    BY <2>1, SumEmpty DEF Returned
  <2> QED
    BY <2>2, <2>3, <2>4
<1>5. \A k \in Jobs : k \notin {j} \cup Children(j) => frame'[k].state = frame[k].state
  BY <1>1 DEF Forgotten
<1>6. Closed(j)
  BY <1>1 DEF Closed
<1> QED
  BY <1>1, <1>4, <1>5, <1>6, ForgottenTurns

LEMMA TurnsStep == IInv /\ TurnsIInv /\ [Next]_vars => TurnsIInv'
<1> SUFFICES ASSUME IInv, TurnsIInv, [Next]_vars PROVE TurnsIInv'
  OBVIOUS
<1>1. ASSUME UNCHANGED <<job, frame, turns, wk>>  PROVE TurnsIInv'
  BY <1>1, NobodyMoves, LocalTurns
<1>2. CASE UNCHANGED vars
  BY <1>1, <1>2 DEF vars
<1>3. ASSUME NEW r \in Roots, DeadlinePasses(r) \/ RemoveSkill(r)  PROVE TurnsIInv'
  BY <1>1, <1>3 DEF DeadlinePasses, RemoveSkill, db
<1>4. ASSUME NEW r \in Roots, Cancel(r)  PROVE TurnsIInv'
  BY <1>4, CancelTurns DEF Cancel
<1>5. ASSUME NEW r \in Roots, StopCancel(r)  PROVE TurnsIInv'
  BY <1>1, <1>5, CancelTurns DEF StopCancel
<1>6. CASE WatchdogWakes
  BY <1>6, NobodyMoves, WokenTurns DEF WatchdogWakes
<1>7. CASE StopVeto \/ StopSettled \/ StopObserved \/ StopReturns \/ Resume
  BY <1>1, <1>7 DEF StopVeto, StopSettled, StopObserved, StopReturns, Resume, db
<1>8. ASSUME NEW j \in Jobs, Reclaim(j)  PROVE TurnsIInv'
  BY <1>1, <1>8 DEF Reclaim, db
<1>9. ASSUME NEW w \in Workers, NEW gone \in SUBSET Lapsed, ClaimNothing(w, gone)  PROVE TurnsIInv'
  BY <1>1, <1>9 DEF ClaimNothing
<1> QED
  BY <1>2, <1>3, <1>4, <1>5, <1>6, <1>7, <1>8, <1>9, WorkerTurns, ClaimTurns, SubmitTurns,
     ExpireTurns, ConsumeTurns, RetireTurns DEF Next

LEMMA TurnsInit == Init => TurnsIInv
<1> SUFFICES ASSUME Init PROVE TurnsIInv
  OBVIOUS
<1>0. TurnLimit \in Nat /\ \A j \in Jobs : turns[j] = NoTurns
  BY ObserverAssumption DEF Init
<1>1. TurnBudget
  <2>1. turns \in [Jobs -> [used : 0..TurnLimit, reserved : 0..TurnLimit, held : 0..TurnLimit]]
    BY <1>0 DEF Init, NoTurns
  <2>2. ASSUME NEW r \in Roots
        PROVE  /\ turns[r].held = SumFunctionOnSet(ReservedOf(turns), Tree(r))
               /\ turns[r].used + turns[r].held <= TurnLimit
    <3> DEFINE res == ReservedOf(turns)
    <3>1. r \in Jobs /\ IsFiniteSet(Tree(r)) /\ Tree(r) \subseteq Jobs
      BY RootFacts, TreeIsClass
    <3>2. \A k \in Tree(r) : res[k] = 0 /\ res[k] \in Int
      BY <1>0, <3>1 DEF ReservedOf, NoTurns
    <3> HIDE DEF res
    <3>3. SumFunctionOnSet(res, Tree(r)) = SumFunctionOnSet(res, Tree(r)) - SumFunctionOnSet(res, Tree(r))
      BY <3>1, <3>2, SumStruck
    <3>4. SumFunctionOnSet(res, Tree(r)) \in Int
      BY <3>1, <3>2, SumType
    <3>5. SumFunctionOnSet(res, Tree(r)) = 0
      BY <3>3, <3>4
    <3> QED
      BY <1>0, <3>1, <3>5 DEF res, NoTurns
  <2> QED
    BY <2>1, <2>2 DEF TurnBudget
<1>2. TurnsAgree
  BY <1>0, RootFacts DEF TurnsAgree, NoTurns
<1>3. \A w \in Workers : wk[w].pc = "idle"
  BY DEF Init, Idle
<1>4. TurnIsRunning /\ OneTurnPerTree /\ TurnIsLeft
  BY <1>3 DEF TurnIsRunning, OneTurnPerTree, TurnIsLeft, AtTurn
<1> QED
  BY <1>1, <1>2, <1>4 DEF TurnsIInv

\* The turns of every tree add up: the turns that its frames have in reserve
\* are those that register_wait set aside with its root, and used and reserved
\* turns stay within DEFAULT_MODEL_TURN_LIMIT, although consume_turns charges
\* frames that a deadline or a cancellation ended while the model answered.
THEOREM TurnsAddUp == Spec => []TurnBudget
<1>1. TurnsIInv => TurnBudget
  BY DEF TurnsIInv
<1> QED
  BY <1>1, TurnsInit, TurnsStep, JobsInductive, PTL DEF Spec
=============================================================================
