--------------------------- MODULE TerminalSessions ---------------------------
(***************************************************************************)
(* Terminal sessions: a registry of sandboxed processes on a PTY, one      *)
(* reader thread per session, captures that wait for output and may end    *)
(* the session, expiry, the stream limits, and the shutdown of the         *)
(* registry.  A step is one critical section (the registry's lock or the   *)
(* session's state lock) or one system call; time is abstract: a timeout   *)
(* may end, but need not, whenever a thread waits with one.                *)
(***************************************************************************)
EXTENDS Naturals, FiniteSets

CONSTANTS
    Sessions,         \* session identities; each is launched at most once
    Callers,          \* launch and recapture calls
    Labels,           \* labels of bonded sessions
    NoLabel,
    NoSession,
    NoCaller,
    MAX_ACTIVE,       \* the limit of registered sessions
    MaxShutdowns      \* bound: shutdowns of the registry

ASSUME TerminalAssumption ==
    /\ NoLabel \notin Labels /\ NoSession \notin Sessions /\ NoCaller \notin Callers
    /\ MAX_ACTIVE \in Nat /\ MaxShutdowns \in Nat
    /\ IsFiniteSet(Sessions)

VARIABLES
    sessions,   \* the registered sessions
    labels,     \* label -> the session it names
    expired,    \* sessions and labels remembered as expired
    ses,        \* session -> its state, its process and its reader thread
    call,       \* caller -> its control state
    down        \* the shutdown call: its control state and what it has to end

vars == <<sessions, labels, expired, ses, call, down>>

Stopped == {"stream_limit", "expired", "killed", "shutdown", "exited"}
NotLaunched == [state |-> "none", label |-> NoLabel, proc |-> "none", reader |-> "none",
                limited |-> FALSE, force |-> FALSE, busy |-> NoCaller]
IdleCall == [pc |-> "idle", s |-> NoSession, kill |-> FALSE, as |-> "none"]

Init ==
    /\ sessions = {} /\ labels = [l \in Labels |-> NoSession] /\ expired = {}
    /\ ses = [s \in Sessions |-> NotLaunched]
    /\ call = [c \in Callers |-> IdleCall]
    /\ down = [pc |-> "idle", todo |-> {}, s |-> NoSession, runs |-> 0]

\* _process.poll() is None; "term" and "kill" are signals not yet acted on.
Alive(s) == ses[s].proc \in {"run", "term", "kill"}
active(s) == ses[s].state = "running" /\ Alive(s)

\* _signal_group: a stronger signal is not weakened by a later SIGTERM.
Signalled(p, sig) == IF p = "run" \/ (p = "term" /\ sig = "kill") THEN sig ELSE p

ReaderDone(s) == ses[s].reader = "done"

-----------------------------------------------------------------------------
(* The process and its reader thread *)

\* The process ends by itself, on a signal it honours, or on SIGKILL.
ProcessExits(s) ==
    /\ Alive(s)
    /\ ses' = [ses EXCEPT ![s].proc = "dead"]
    /\ UNCHANGED <<sessions, labels, expired, call, down>>

\* _reader: output beyond MAX_SESSION_BYTES stops the session.
StreamLimit(s) ==
    /\ ses[s].reader = "reading" /\ ses[s].proc # "none"
    /\ ses' = [ses EXCEPT ![s].limited = TRUE, ![s].state = "stream_limit",
                          ![s].proc = Signalled(@, "term"), ![s].force = TRUE]
    /\ UNCHANGED <<sessions, labels, expired, call, down>>

\* _reader: the lifetime or the idle time of a running session is over.
Expire(s) ==
    /\ ses[s].reader = "reading" /\ ses[s].state = "running"
    /\ ses' = [ses EXCEPT ![s].state = "expired", ![s].proc = Signalled(@, "term"),
                          ![s].force = TRUE]
    /\ UNCHANGED <<sessions, labels, expired, call, down>>

(* Mutant: the reader kills only a process it has not asked to end. *)
ForceKillUnasked(s) ==
    /\ ses[s].reader = "reading" /\ ses[s].force /\ ses[s].proc = "run"
    /\ ses' = [ses EXCEPT ![s].proc = "kill"]
    /\ UNCHANGED <<sessions, labels, expired, call, down>>

\* _reader: the grace period after its own SIGTERM is over.
ForceKill(s) ==
    /\ ses[s].reader = "reading" /\ ses[s].force /\ ses[s].proc \in {"run", "term"}
    /\ ses' = [ses EXCEPT ![s].proc = "kill"]
    /\ UNCHANGED <<sessions, labels, expired, call, down>>

(* Mutant: the registry forgets a session before its process is reaped. *)
EndOfFileEarly(s) ==
    /\ ses[s].reader = "reading"
    /\ ses' = [ses EXCEPT ![s].reader = "final"]
    /\ UNCHANGED <<sessions, labels, expired, call, down>>

\* The reader leaves its loop: the process is gone and the PTY is drained,
\* or the PTY reports end of file while the process lives on, ...
EndOfFile(s) ==
    /\ ses[s].reader = "reading"
    /\ ses' = [ses EXCEPT ![s].reader = IF Alive(s) THEN "waiting" ELSE "final"]
    /\ UNCHANGED <<sessions, labels, expired, call, down>>

\* ... then wait(timeout=1) either sees it end or times out and kills it.
ReaderWait(s) ==
    /\ ses[s].reader = "waiting"
    /\ \/ ~Alive(s) /\ ses' = [ses EXCEPT ![s].reader = "final"]
       \/ Alive(s) /\ ses' = [ses EXCEPT ![s].reader = "killed", ![s].proc = "kill"]
    /\ UNCHANGED <<sessions, labels, expired, call, down>>

\* The wait after SIGKILL ends with the process or, rarely, without it.
ReaderReap(s) ==
    /\ ses[s].reader = "killed"
    /\ ses' = [ses EXCEPT ![s].reader = "final"]
    /\ UNCHANGED <<sessions, labels, expired, call, down>>

\* The final state of the session.
ReaderFinal(s) ==
    /\ ses[s].reader = "final"
    /\ ses' = [ses EXCEPT ![s].reader = "retiring",
                          ![s].state = IF @ = "running" THEN "exited" ELSE @]
    /\ UNCHANGED <<sessions, labels, expired, call, down>>

\* _retire, under the registry's lock: the entries go, also the one of the
\* label, whoever it names; an expired session is remembered.
Retire(s) ==
    LET l == ses[s].label
    IN  /\ ses[s].reader = "retiring"
        /\ ses' = [ses EXCEPT ![s].reader = "done"]
        /\ sessions' = sessions \ {s}
        /\ labels' = [x \in Labels |-> IF x = l THEN NoSession ELSE labels[x]]
        /\ expired' = IF ses[s].state = "expired"
                      THEN expired \cup {s} \cup ({l} \ {NoLabel}) ELSE expired
        /\ UNCHANGED <<call, down>>

-----------------------------------------------------------------------------
(* launch, recapture and the capture they share *)

\* launch: the limit and the label are checked, the process is started and
\* registered in one critical section of the registry.
Launch(c, s, l, kill) ==
    /\ call[c].pc = "idle" /\ ses[s].state = "none"
    /\ ~(l # NoLabel /\ kill)
    /\ Cardinality(sessions) < MAX_ACTIVE
    /\ l # NoLabel => labels[l] = NoSession
    /\ sessions' = sessions \cup {s}
    /\ labels' = [x \in Labels |-> IF x = l THEN s ELSE labels[x]]
    /\ expired' = expired \ ({l} \ {NoLabel})
    /\ ses' = [ses EXCEPT ![s] = [NotLaunched EXCEPT !.state = "running", !.label = l,
                                                     !.proc = "run", !.reader = "reading"]]
    /\ call' = [call EXCEPT ![c] = [pc |-> "capture", s |-> s, kill |-> kill, as |-> "none"]]
    /\ UNCHANGED down

\* recapture: _lookup resolves a label or an identity of an active session.
Recapture(c, id, kill) ==
    LET s == IF id \in Labels THEN labels[id] ELSE id
    IN  /\ call[c].pc = "idle" /\ s \in sessions /\ active(s)
        /\ call' = [call EXCEPT ![c] = [pc |-> "capture", s |-> s, kill |-> kill, as |-> "none"]]
        /\ UNCHANGED <<sessions, labels, expired, ses, down>>

\* Nobody else captures the session, or the call is refused as busy.
CaptureBegin(c) ==
    LET s == call[c].s
    IN  /\ call[c].pc = "capture"
        /\ IF ses[s].busy = NoCaller
           THEN /\ ses' = [ses EXCEPT ![s].busy = c]
                /\ call' = [call EXCEPT ![c].pc = "wait"]
           ELSE call' = [call EXCEPT ![c] = IdleCall] /\ UNCHANGED ses
        /\ UNCHANGED <<sessions, labels, expired, down>>

\* The wait ends: the session has stopped, the deadline has passed, or the
\* output since the last capture exceeds MAX_CAPTURE_BYTES.
CaptureWaited(c, flood) ==
    /\ call[c].pc = "wait"
    /\ flood => active(call[c].s)
    /\ ses' = [ses EXCEPT ![call[c].s].limited = @ \/ flood]
    /\ call' = [call EXCEPT ![c].pc = "decide"]
    /\ UNCHANGED <<sessions, labels, expired, down>>

\* Whether the capture ends the session, and as what.
Ending(c) ==
    LET s == call[c].s
    IN  IF ses[s].limited /\ Alive(s) THEN "stream_limit"
        ELSE IF ses[s].state = "expired" /\ Alive(s) THEN "expired"
        ELSE IF call[c].kill /\ active(s) THEN "killed" ELSE "none"
CaptureDecide(c) ==
    /\ call[c].pc = "decide"
    /\ call' = [call EXCEPT ![c].pc = IF Ending(c) = "none" THEN "result" ELSE "terminate",
                            ![c].as = Ending(c)]
    /\ UNCHANGED <<sessions, labels, expired, ses, down>>

\* terminate: the state and SIGTERM, unless the process has ended.
Terminated(s, as) ==
    IF Alive(s) THEN [ses[s] EXCEPT !.state = as, !.proc = Signalled(@, "term")] ELSE ses[s]
TerminateSignal(c) ==
    /\ call[c].pc = "terminate"
    /\ ses' = [ses EXCEPT ![call[c].s] = Terminated(call[c].s, call[c].as)]
    /\ call' = [call EXCEPT ![c].pc = "join"]
    /\ UNCHANGED <<sessions, labels, expired, down>>

(* Mutant: a session that ignores SIGTERM is not killed. *)
TerminateJoinOnly(c) ==
    /\ call[c].pc = "join" /\ ReaderDone(call[c].s)
    /\ call' = [call EXCEPT ![c].pc = "result"]
    /\ UNCHANGED <<sessions, labels, expired, ses, down>>

\* The reader thread has ended, or the grace period is over: SIGKILL, ...
TerminateJoin(c) ==
    /\ call[c].pc = "join"
    /\ \/ /\ ReaderDone(call[c].s)
          /\ call' = [call EXCEPT ![c].pc = "result"] /\ UNCHANGED ses
       \/ /\ ~ReaderDone(call[c].s)
          /\ ses' = [ses EXCEPT ![call[c].s].proc = Signalled(@, "kill")]
          /\ call' = [call EXCEPT ![c].pc = "rejoin"]
    /\ UNCHANGED <<sessions, labels, expired, down>>

\* ... and a last second for the thread, or terminal_cleanup_failed.
TerminateRejoin(c) ==
    LET s == call[c].s
    IN  /\ call[c].pc = "rejoin"
        /\ \/ ReaderDone(s) /\ call' = [call EXCEPT ![c].pc = "result"] /\ UNCHANGED ses
           \/ /\ ~ReaderDone(s)
              /\ call' = [call EXCEPT ![c] = IdleCall]
              /\ ses' = [ses EXCEPT ![s].busy = NoCaller]
        /\ UNCHANGED <<sessions, labels, expired, down>>

\* The screen is rendered and the capture lock released.
CaptureResult(c) ==
    /\ call[c].pc = "result"
    /\ ses' = [ses EXCEPT ![call[c].s].busy = NoCaller]
    /\ call' = [call EXCEPT ![c] = IdleCall]
    /\ UNCHANGED <<sessions, labels, expired, down>>

-----------------------------------------------------------------------------
(* shutdown *)

\* The sessions registered now are the ones that will be terminated, ...
ShutdownBegin ==
    /\ down.pc = "idle" /\ down.runs < MaxShutdowns
    /\ down' = [down EXCEPT !.pc = "next", !.todo = sessions, !.runs = @ + 1]
    /\ UNCHANGED <<sessions, labels, expired, ses, call>>

\* ... one after the other: state and SIGTERM, ...
ShutdownSignal ==
    /\ down.pc = "next"
    /\ \E s \in down.todo :
          /\ ses' = [ses EXCEPT ![s] = Terminated(s, "shutdown")]
          /\ down' = [down EXCEPT !.pc = "join", !.s = s, !.todo = @ \ {s}]
    /\ UNCHANGED <<sessions, labels, expired, call>>

\* ... the grace period, then SIGKILL and a last second; a session that
\* cannot be cleaned up is passed over.
ShutdownJoin ==
    /\ down.pc \in {"join", "rejoin"}
    /\ \/ /\ ReaderDone(down.s)
          /\ down' = [down EXCEPT !.pc = "next", !.s = NoSession] /\ UNCHANGED ses
       \/ /\ ~ReaderDone(down.s) /\ down.pc = "join"
          /\ ses' = [ses EXCEPT ![down.s].proc = Signalled(@, "kill")]
          /\ down' = [down EXCEPT !.pc = "rejoin"]
       \/ /\ ~ReaderDone(down.s) /\ down.pc = "rejoin"
          /\ down' = [down EXCEPT !.pc = "next", !.s = NoSession] /\ UNCHANGED ses
    /\ UNCHANGED <<sessions, labels, expired, call>>

\* The registry is emptied.
ShutdownClear ==
    /\ down.pc = "next" /\ down.todo = {}
    /\ sessions' = {} /\ labels' = [l \in Labels |-> NoSession] /\ expired' = {}
    /\ down' = [down EXCEPT !.pc = "idle"]
    /\ UNCHANGED <<ses, call>>

-----------------------------------------------------------------------------

Reader(s) ==
    \/ EndOfFile(s) /\ ~Alive(s)
    \/ ForceKill(s) \/ ReaderWait(s) \/ ReaderReap(s) \/ ReaderFinal(s) \/ Retire(s)

Capture(c) ==
    \/ CaptureBegin(c) \/ CaptureWaited(c, FALSE) \/ CaptureDecide(c) \/ TerminateSignal(c)
    \/ TerminateJoin(c) \/ TerminateRejoin(c) \/ CaptureResult(c)

Shutdown == ShutdownSignal \/ ShutdownJoin \/ ShutdownClear

Next ==
    \/ \E s \in Sessions : \/ ProcessExits(s) \/ StreamLimit(s) \/ Expire(s)
                           \/ EndOfFile(s) \/ Reader(s)
    \/ \E c \in Callers :
          \/ \E s \in Sessions, l \in Labels \cup {NoLabel}, kill \in BOOLEAN : Launch(c, s, l, kill)
          \/ \E id \in Sessions \cup Labels, kill \in BOOLEAN : Recapture(c, id, kill)
          \/ CaptureWaited(c, TRUE) \/ Capture(c)
    \/ ShutdownBegin \/ Shutdown

Spec == Init /\ [][Next]_vars

\* Threads run and their timeouts end, SIGKILL ends a process, and the end of
\* a process reaches its reader.  Nothing is assumed of a process that has
\* not been killed.
Fairness ==
    /\ \A s \in Sessions : WF_vars(Reader(s)) /\ WF_vars(ses[s].proc = "kill" /\ ProcessExits(s))
    /\ \A c \in Callers : WF_vars(Capture(c))
    /\ WF_vars(Shutdown)

FairSpec == Spec /\ Fairness

-----------------------------------------------------------------------------
(* Properties *)

SessionType ==
    [state : {"none", "running"} \cup Stopped, label : Labels \cup {NoLabel},
     proc : {"none", "run", "term", "kill", "dead"}, limited : BOOLEAN, force : BOOLEAN,
     reader : {"none", "reading", "waiting", "killed", "final", "retiring", "done"},
     busy : Callers \cup {NoCaller}]
CallType ==
    [pc : {"idle", "capture", "wait", "decide", "terminate", "join", "rejoin", "result"},
     s : Sessions \cup {NoSession}, kill : BOOLEAN, as : Stopped \cup {"none"}]

\* Types: the tables and the threads of the terminal registry.
TypeOK ==
    /\ sessions \subseteq Sessions /\ labels \in [Labels -> Sessions \cup {NoSession}]
    /\ expired \subseteq Sessions \cup Labels
    /\ ses \in [Sessions -> SessionType] /\ call \in [Callers -> CallType]
    /\ down \in [pc : {"idle", "next", "join", "rejoin"}, todo : SUBSET Sessions,
                 s : Sessions \cup {NoSession}, runs : Nat]

\* Until the registry is shut down: while its process runs and nobody has
\* killed it, a session is registered, so that no process escapes the session
\* limit, lookup and shutdown, although sessions retire in their own threads.
LiveIsRegistered ==
    down.runs = 0 => \A s \in Sessions : ses[s].proc \in {"run", "term"} => s \in sessions

\* Until the registry is shut down, a label names the registered session that
\* was launched with it, and the other way round, so that recapture by label
\* reaches the same execution.
LabelNamesSession ==
    down.runs = 0 =>
       /\ \A l \in Labels : labels[l] # NoSession => labels[l] \in sessions /\ ses[labels[l]].label = l
       /\ \A s \in sessions : ses[s].label # NoLabel => labels[ses[s].label] = s

\* The registry knows the processes there are, and under which labels.
RegistryInv == TypeOK /\ LiveIsRegistered /\ LabelNamesSession

\* A session that was launched has a process and a reader, and a reader that
\* left its loop has killed the process or seen it end.
Threaded(x) ==
    /\ (x.state = "none" <=> x.reader = "none") /\ (x.proc = "none" <=> x.reader = "none")
    /\ x.reader \in {"killed", "final", "retiring", "done"} => x.proc \in {"kill", "dead"}

\* A call or a shutdown under way names its session.
Named ==
    /\ \A c \in Callers : /\ call[c].pc # "idle" => call[c].s \in Sessions
                          /\ call[c].pc = "terminate" => call[c].as # "none"
    /\ down.pc # "idle" => down.runs # 0
    /\ down.pc \in {"join", "rejoin"} => down.s \in Sessions

\* Until the registry is shut down, it holds the sessions whose reader has
\* not ended.
Registered ==
    down.runs = 0 => sessions = {s \in Sessions : ses[s].reader \notin {"none", "done"}}

\* The inductive invariant.
IInv ==
    /\ TypeOK /\ (\A s \in Sessions : Threaded(ses[s])) /\ Named
    /\ Registered /\ LabelNamesSession

\* A session that has been stopped, by a capture, a limit, its expiry or a
\* shutdown, is retired with its process, whatever that does with SIGTERM.
StoppedIsRetired ==
    \A s \in Sessions : (ses[s].state \in Stopped) ~> (ses[s].reader = "done" /\ ~Alive(s))

\* Every launch and recapture returns.
CapturesReturn ==
    \A c \in Callers : (call[c].pc # "idle") ~> (call[c].pc = "idle")
=============================================================================
