------------------------ MODULE TerminalSessionsProofs ------------------------
(***************************************************************************)
(* Proofs about TerminalSessions: until it is shut down, the registry      *)
(* knows every process and every label, for any number of sessions,        *)
(* callers and labels and for every limit.                                 *)
(***************************************************************************)
EXTENDS TerminalSessions, TLAPS

ThreadsOK == \A s \in Sessions : Threaded(ses[s])

LEMMA TerminalInit == Init => IInv
<1> SUFFICES ASSUME Init PROVE IInv
  OBVIOUS
<1>1. NotLaunched \in SessionType /\ Threaded(NotLaunched) /\ NotLaunched.reader = "none"
  BY DEF NotLaunched, SessionType, Threaded
<1>2. IdleCall \in CallType /\ IdleCall.pc = "idle"
  BY DEF IdleCall, CallType
<1>3. TypeOK /\ ThreadsOK /\ Named
  BY <1>1, <1>2 DEF Init, TypeOK, ThreadsOK, Named
<1>4. Registered /\ LabelNamesSession
  BY <1>1 DEF Init, Registered, LabelNamesSession
<1> QED
  BY <1>3, <1>4 DEF IInv, ThreadsOK

\* A signal keeps a process what it is to the registry.
LEMMA SignalledProc ==
    ASSUME NEW p \in {"none", "run", "term", "kill", "dead"}, NEW sig \in {"term", "kill"}
    PROVE  /\ Signalled(p, sig) \in {"none", "run", "term", "kill", "dead"}
           /\ Signalled(p, sig) = "none" <=> p = "none"
           /\ p \in {"kill", "dead"} => Signalled(p, sig) \in {"kill", "dead"}
BY DEF Signalled

\* One session changes, and neither its label nor its place in the registry.
LEMMA SessionFrame ==
    ASSUME IInv, NEW s \in Sessions, NEW x \in SessionType, Threaded(x),
           x.label = ses[s].label,
           x.reader \in {"none", "done"} <=> ses[s].reader \in {"none", "done"},
           ses' = [ses EXCEPT ![s] = x], UNCHANGED <<sessions, labels, expired>>,
           down'.runs = 0 => down.runs = 0
    PROVE  /\ ses' \in [Sessions -> SessionType] /\ ThreadsOK'
           /\ Registered' /\ LabelNamesSession'
<1>1. \A t \in Sessions : ses'[t] = IF t = s THEN x ELSE ses[t]
  BY DEF IInv, TypeOK
<1>2. ses' \in [Sessions -> SessionType] /\ ThreadsOK'
  BY <1>1 DEF IInv, TypeOK, ThreadsOK
<1>3. \A t \in Sessions : /\ ses'[t].label = ses[t].label
                          /\ ses'[t].reader \in {"none", "done"} <=> ses[t].reader \in {"none", "done"}
  BY <1>1
<1>4. Registered'
  BY <1>3 DEF IInv, Registered
<1>5. LabelNamesSession'
  BY <1>3 DEF IInv, TypeOK, LabelNamesSession
<1> QED
  BY <1>2, <1>4, <1>5

\* Nothing but calls and the shutdown change.
LEMMA NoSessionFrame ==
    ASSUME IInv, UNCHANGED <<sessions, labels, expired, ses>>, down'.runs = 0 => down.runs = 0
    PROVE  /\ ses' \in [Sessions -> SessionType] /\ ThreadsOK'
           /\ Registered' /\ LabelNamesSession'
BY DEF IInv, TypeOK, ThreadsOK, Registered, LabelNamesSession

\* A call takes a step.
LEMMA CallFrame ==
    ASSUME IInv, NEW c \in Callers, NEW k \in CallType, call' = [call EXCEPT ![c] = k], down' = down,
           k.pc # "idle" => k.s \in Sessions, k.pc = "terminate" => k.as # "none"
    PROVE  call' \in [Callers -> CallType] /\ Named'
BY DEF IInv, TypeOK, Named

\* The parts together.
LEMMA Together ==
    ASSUME sessions' \subseteq Sessions, labels' \in [Labels -> Sessions \cup {NoSession}],
           expired' \subseteq Sessions \cup Labels,
           ses' \in [Sessions -> SessionType], call' \in [Callers -> CallType],
           down' \in [pc : {"idle", "next", "join", "rejoin"}, todo : SUBSET Sessions,
                      s : Sessions \cup {NoSession}, runs : Nat],
           ThreadsOK', Named', Registered', LabelNamesSession'
    PROVE  IInv'
BY DEF IInv, TypeOK, ThreadsOK

\* The process and the steps of its reader before it retires.
LEMMA ReaderSteps ==
    ASSUME IInv, NEW s \in Sessions,
           \/ ProcessExits(s) \/ StreamLimit(s) \/ Expire(s) \/ ForceKill(s) \/ EndOfFile(s)
           \/ ReaderWait(s) \/ ReaderReap(s) \/ ReaderFinal(s)
    PROVE  IInv'
<1>0. /\ ses[s] \in SessionType /\ Threaded(ses[s]) /\ ses \in [Sessions -> SessionType]
      /\ UNCHANGED <<sessions, labels, expired, call, down>>
  BY DEF IInv, TypeOK, ProcessExits, StreamLimit, Expire, ForceKill, EndOfFile, ReaderWait, ReaderReap,
         ReaderFinal
<1> DEFINE Good(x) == /\ x \in SessionType /\ Threaded(x) /\ x.label = ses[s].label
                      /\ x.reader \in {"none", "done"} <=> ses[s].reader \in {"none", "done"}
                      /\ ses' = [ses EXCEPT ![s] = x]
<1>1. ASSUME ProcessExits(s) PROVE \E x : Good(x)
  <2> DEFINE x == [ses[s] EXCEPT !.proc = "dead"]
  <2>1. Good(x)
    BY <1>0, <1>1 DEF ProcessExits, Alive, SessionType, Threaded
  <2> QED
    BY <2>1
<1>2. ASSUME StreamLimit(s) PROVE \E x : Good(x)
  <2> DEFINE p == Signalled(ses[s].proc, "term")
             x == [ses[s] EXCEPT !.limited = TRUE, !.state = "stream_limit", !.proc = p, !.force = TRUE]
  <2>1. p \in {"none", "run", "term", "kill", "dead"} /\ (p = "none" <=> ses[s].proc = "none")
    BY <1>0, SignalledProc DEF SessionType
  <2> HIDE DEF p
  <2>2. x \in SessionType /\ Threaded(x)
    BY <1>0, <1>2, <2>1 DEF StreamLimit, SessionType, Threaded, Stopped
  <2>3. ses' = [ses EXCEPT ![s] = x]
    BY <1>0, <1>2 DEF StreamLimit, SessionType, p
  <2>4. x.label = ses[s].label /\ x.reader = ses[s].reader
    BY <1>0 DEF SessionType
  <2>5. Good(x)
    BY <2>2, <2>3, <2>4
  <2> QED
    BY <2>5
<1>3. ASSUME Expire(s) PROVE \E x : Good(x)
  <2> DEFINE p == Signalled(ses[s].proc, "term")
             x == [ses[s] EXCEPT !.state = "expired", !.proc = p, !.force = TRUE]
  <2>1. p \in {"none", "run", "term", "kill", "dead"} /\ (p = "none" <=> ses[s].proc = "none")
    BY <1>0, SignalledProc DEF SessionType
  <2> HIDE DEF p
  <2>2. x \in SessionType /\ Threaded(x)
    BY <1>0, <1>3, <2>1 DEF Expire, SessionType, Threaded, Stopped
  <2>3. ses' = [ses EXCEPT ![s] = x]
    BY <1>0, <1>3 DEF Expire, SessionType, p
  <2>4. x.label = ses[s].label /\ x.reader = ses[s].reader
    BY <1>0 DEF SessionType
  <2>5. Good(x)
    BY <2>2, <2>3, <2>4
  <2> QED
    BY <2>5
<1>4. ASSUME ForceKill(s) PROVE \E x : Good(x)
  <2> DEFINE x == [ses[s] EXCEPT !.proc = "kill"]
  <2>1. Good(x)
    BY <1>0, <1>4 DEF ForceKill, SessionType, Threaded
  <2> QED
    BY <2>1
<1>5. ASSUME EndOfFile(s) PROVE \E x : Good(x)
  <2> DEFINE r == IF Alive(s) THEN "waiting" ELSE "final"
             x == [ses[s] EXCEPT !.reader = r]
  <2>1. r \in {"waiting", "final"} /\ (r = "final" => ses[s].proc \in {"none", "dead"})
    BY <1>0 DEF Alive, SessionType
  <2> HIDE DEF r
  <2>2. Good(x)
    BY <1>0, <1>5, <2>1 DEF EndOfFile, SessionType, Threaded, r
  <2> QED
    BY <2>2
<1>6. ASSUME ReaderWait(s) PROVE \E x : Good(x)
  <2>1. CASE ~Alive(s)
    <3> DEFINE x == [ses[s] EXCEPT !.reader = "final"]
    <3>1. Good(x)
      BY <1>0, <1>6, <2>1 DEF ReaderWait, Alive, SessionType, Threaded
    <3> QED
      BY <3>1
  <2>2. CASE Alive(s)
    <3> DEFINE x == [ses[s] EXCEPT !.reader = "killed", !.proc = "kill"]
    <3>1. Good(x)
      BY <1>0, <1>6, <2>2 DEF ReaderWait, SessionType, Threaded
    <3> QED
      BY <3>1
  <2> QED
    BY <2>1, <2>2
<1>7. ASSUME ReaderReap(s) PROVE \E x : Good(x)
  <2> DEFINE x == [ses[s] EXCEPT !.reader = "final"]
  <2>1. Good(x)
    BY <1>0, <1>7 DEF ReaderReap, SessionType, Threaded
  <2> QED
    BY <2>1
<1>8. ASSUME ReaderFinal(s) PROVE \E x : Good(x)
  <2> DEFINE st == IF ses[s].state = "running" THEN "exited" ELSE ses[s].state
             x == [ses[s] EXCEPT !.reader = "retiring", !.state = st]
  <2>1. st \in {"none", "running"} \cup Stopped /\ (st = "none" <=> ses[s].state = "none")
    BY <1>0 DEF SessionType, Stopped
  <2>2. ses' = [ses EXCEPT ![s] = x] /\ ses[s].reader = "final"
    BY <1>0, <1>8 DEF ReaderFinal, SessionType
  <2> HIDE DEF st
  <2>3. Good(x)
    BY <1>0, <2>1, <2>2 DEF SessionType, Threaded
  <2> QED
    BY <2>3
<1>9. PICK x : Good(x)
  BY <1>1, <1>2, <1>3, <1>4, <1>5, <1>6, <1>7, <1>8
<1>10. ses' \in [Sessions -> SessionType] /\ ThreadsOK' /\ Registered' /\ LabelNamesSession'
  BY <1>0, <1>9, SessionFrame
<1>11. Named'
  BY <1>0 DEF IInv, Named
<1> QED
  BY <1>0, <1>10, <1>11, Together DEF IInv, TypeOK

\* A session leaves the registry with its label.
LEMMA RetireStep ==
    ASSUME IInv, NEW s \in Sessions, Retire(s)
    PROVE  IInv'
<1> DEFINE l == ses[s].label
           x == [ses[s] EXCEPT !.reader = "done"]
<1>0. /\ TypeOK /\ ses[s] \in SessionType /\ Threaded(ses[s]) /\ ses[s].reader = "retiring"
      /\ ses' = [ses EXCEPT ![s] = x] /\ sessions' = sessions \ {s}
      /\ labels' = [y \in Labels |-> IF y = l THEN NoSession ELSE labels[y]]
      /\ expired' \subseteq expired \cup {s} \cup ({l} \ {NoLabel})
      /\ UNCHANGED <<call, down>>
  BY DEF IInv, TypeOK, Retire
<1>1. x \in SessionType /\ Threaded(x) /\ x.reader = "done" /\ x.label = l
  BY <1>0 DEF SessionType, Threaded
<1>2. l \in Labels \cup {NoLabel}
  BY <1>0 DEF SessionType
<1> HIDE DEF x, l
<1>3. \A t \in Sessions : ses'[t] = IF t = s THEN x ELSE ses[t]
  BY <1>0 DEF TypeOK
<1>4. ses' \in [Sessions -> SessionType] /\ ThreadsOK'
  BY <1>0, <1>1, <1>3 DEF IInv, TypeOK, ThreadsOK
<1>5. Registered'
  BY <1>0, <1>1, <1>3 DEF IInv, Registered
<1>6. LabelNamesSession'
  <2> SUFFICES ASSUME down.runs = 0
               PROVE  /\ \A y \in Labels : labels'[y] # NoSession =>
                            labels'[y] \in sessions' /\ ses'[labels'[y]].label = y
                      /\ \A t \in sessions' : ses'[t].label # NoLabel => labels'[ses'[t].label] = t
    BY <1>0 DEF LabelNamesSession
  <2>1. /\ \A y \in Labels : labels[y] # NoSession => labels[y] \in sessions /\ ses[labels[y]].label = y
        /\ \A t \in sessions : ses[t].label # NoLabel => labels[ses[t].label] = t
    BY DEF IInv, LabelNamesSession
  <2>2. ASSUME NEW y \in Labels, labels'[y] # NoSession
        PROVE  labels'[y] \in sessions' /\ ses'[labels'[y]].label = y
    <3>1. y # l /\ labels'[y] = labels[y]
      BY <1>0, <2>2
    <3>2. labels[y] \in sessions /\ ses[labels[y]].label = y
      BY <2>1, <2>2, <3>1
    <3>3. labels[y] # s
      BY <3>1, <3>2 DEF l
    <3> QED
      BY <1>0, <1>3, <3>1, <3>2, <3>3 DEF TypeOK
  <2>3. ASSUME NEW t \in sessions', ses'[t].label # NoLabel PROVE labels'[ses'[t].label] = t
    <3>1. t \in sessions /\ t # s /\ t \in Sessions
      BY <1>0 DEF TypeOK
    <3>2. ses'[t] = ses[t] /\ ses[t].label \in Labels
      BY <1>0, <1>3, <2>3, <3>1 DEF TypeOK, SessionType
    <3>3. labels[ses[t].label] = t
      BY <2>1, <2>3, <3>1, <3>2
    <3>4. ses[t].label # l
      <4>1. s \in sessions
        BY <1>0 DEF IInv, Registered
      <4>2. ses[t].label = l => labels[l] = s
        BY <2>1, <2>3, <3>2, <4>1 DEF l
      <4> QED
        BY <3>1, <3>3, <4>2
    <3> QED
      BY <1>0, <3>2, <3>3, <3>4
  <2> QED
    BY <2>2, <2>3
<1>7. /\ sessions' \subseteq Sessions /\ labels' \in [Labels -> Sessions \cup {NoSession}]
      /\ expired' \subseteq Sessions \cup Labels /\ Named'
      /\ call' \in [Callers -> CallType]
      /\ down' \in [pc : {"idle", "next", "join", "rejoin"}, todo : SUBSET Sessions,
                    s : Sessions \cup {NoSession}, runs : Nat]
  BY <1>0, <1>2 DEF IInv, TypeOK, Named
<1> QED
  BY <1>4, <1>5, <1>6, <1>7, Together

\* A session enters the registry, under a label that is free.
LEMMA LaunchStep ==
    ASSUME IInv, NEW c \in Callers, NEW s \in Sessions, NEW l \in Labels \cup {NoLabel},
           NEW kill \in BOOLEAN, Launch(c, s, l, kill)
    PROVE  IInv'
<1> DEFINE x == [NotLaunched EXCEPT !.state = "running", !.label = l, !.proc = "run", !.reader = "reading"]
           k == [pc |-> "capture", s |-> s, kill |-> kill, as |-> "none"]
<1>0. /\ TypeOK /\ ses[s].state = "none" /\ (l # NoLabel => labels[l] = NoSession)
      /\ ses' = [ses EXCEPT ![s] = x] /\ sessions' = sessions \cup {s}
      /\ labels' = [y \in Labels |-> IF y = l THEN s ELSE labels[y]]
      /\ expired' \subseteq expired
      /\ call' = [call EXCEPT ![c] = k] /\ down' = down
  BY DEF IInv, Launch
<1>1. x \in SessionType /\ Threaded(x) /\ x.reader = "reading" /\ x.label = l
  BY DEF NotLaunched, SessionType, Threaded
<1>2. k \in CallType /\ k.pc = "capture" /\ k.s = s
  BY DEF CallType
<1> HIDE DEF x, k
<1>3. \A t \in Sessions : ses'[t] = IF t = s THEN x ELSE ses[t]
  BY <1>0 DEF TypeOK
<1>4. ses' \in [Sessions -> SessionType] /\ ThreadsOK'
  BY <1>0, <1>1, <1>3 DEF IInv, TypeOK, ThreadsOK
<1>5. Registered'
  BY <1>0, <1>1, <1>3 DEF IInv, Registered
<1>6. LabelNamesSession'
  <2> SUFFICES ASSUME down.runs = 0
               PROVE  /\ \A y \in Labels : labels'[y] # NoSession =>
                            labels'[y] \in sessions' /\ ses'[labels'[y]].label = y
                      /\ \A t \in sessions' : ses'[t].label # NoLabel => labels'[ses'[t].label] = t
    BY <1>0 DEF LabelNamesSession
  <2>1. /\ \A y \in Labels : labels[y] # NoSession => labels[y] \in sessions /\ ses[labels[y]].label = y
        /\ \A t \in sessions : ses[t].label # NoLabel => labels[ses[t].label] = t
    BY DEF IInv, LabelNamesSession
  <2>2. s \notin sessions
    BY <1>0 DEF IInv, Registered, Threaded
  <2>3. ASSUME NEW y \in Labels, labels'[y] # NoSession
        PROVE  labels'[y] \in sessions' /\ ses'[labels'[y]].label = y
    <3>1. CASE y = l
      BY <1>0, <1>1, <1>3, <3>1
    <3>2. CASE y # l
      <4>1. labels'[y] = labels[y]
        BY <1>0, <3>2
      <4>2. labels[y] \in sessions /\ ses[labels[y]].label = y /\ labels[y] \in Sessions
        BY <1>0, <2>1, <2>3, <4>1 DEF TypeOK
      <4> QED
        BY <1>0, <1>3, <2>2, <4>1, <4>2
    <3> QED
      BY <3>1, <3>2
  <2>4. ASSUME NEW t \in sessions', ses'[t].label # NoLabel PROVE labels'[ses'[t].label] = t
    <3>1. CASE t = s
      BY <1>0, <1>1, <1>3, <2>4, <3>1
    <3>2. CASE t # s
      <4>1. t \in sessions /\ t \in Sessions
        BY <1>0, <3>2 DEF TypeOK
      <4>2. ses'[t] = ses[t] /\ ses[t].label \in Labels
        BY <1>0, <1>3, <2>4, <3>2, <4>1 DEF TypeOK, SessionType
      <4>3. labels[ses[t].label] = t
        BY <2>1, <2>4, <4>1, <4>2
      <4>4. t # NoSession
        BY <4>1, TerminalAssumption DEF TerminalAssumption
      <4>5. ses[t].label # l
        BY <1>0, <2>4, <4>2, <4>3, <4>4
      <4> QED
        BY <1>0, <4>2, <4>3, <4>5
    <3> QED
      BY <3>1, <3>2
  <2> QED
    BY <2>3, <2>4
<1>7. /\ sessions' \subseteq Sessions /\ labels' \in [Labels -> Sessions \cup {NoSession}]
      /\ expired' \subseteq Sessions \cup Labels
      /\ down' \in [pc : {"idle", "next", "join", "rejoin"}, todo : SUBSET Sessions,
                    s : Sessions \cup {NoSession}, runs : Nat]
  BY <1>0 DEF TypeOK
<1>8. call' \in [Callers -> CallType] /\ Named'
  BY <1>0, <1>2, CallFrame
<1> QED
  BY <1>4, <1>5, <1>6, <1>7, <1>8, Together
\* The steps of a capture that change the call only.
LEMMA CaptureCallSteps ==
    ASSUME IInv, NEW c \in Callers, UNCHANGED <<sessions, labels, expired, ses, down>>,
           NEW k \in CallType, call' = [call EXCEPT ![c] = k],
           k.pc # "idle" => k.s \in Sessions, k.pc = "terminate" => k.as # "none"
    PROVE  IInv'
<1>1. ses' \in [Sessions -> SessionType] /\ ThreadsOK' /\ Registered' /\ LabelNamesSession'
  BY NoSessionFrame
<1>2. call' \in [Callers -> CallType] /\ Named'
  BY CallFrame
<1> QED
  BY <1>1, <1>2, Together DEF IInv, TypeOK

\* The steps of a capture that change the session too.
LEMMA CaptureSessionSteps ==
    ASSUME IInv, NEW c \in Callers, UNCHANGED <<sessions, labels, expired, down>>,
           NEW k \in CallType, call' = [call EXCEPT ![c] = k],
           k.pc # "idle" => k.s \in Sessions, k.pc = "terminate" => k.as # "none",
           NEW s \in Sessions, NEW x \in SessionType, Threaded(x), ses' = [ses EXCEPT ![s] = x],
           x.label = ses[s].label, x.reader = ses[s].reader
    PROVE  IInv'
<1>1. ses' \in [Sessions -> SessionType] /\ ThreadsOK' /\ Registered' /\ LabelNamesSession'
  BY SessionFrame
<1>2. call' \in [Callers -> CallType] /\ Named'
  BY CallFrame
<1> QED
  BY <1>1, <1>2, Together DEF IInv, TypeOK

\* Who captures a session does not matter to the registry.
LEMMA BusyChange ==
    ASSUME NEW x \in SessionType, Threaded(x), NEW b \in Callers \cup {NoCaller}
    PROVE  /\ [x EXCEPT !.busy = b] \in SessionType /\ Threaded([x EXCEPT !.busy = b])
           /\ [x EXCEPT !.busy = b].label = x.label /\ [x EXCEPT !.busy = b].reader = x.reader
BY DEF SessionType, Threaded

\* A signal that is sent, with a state or without.
LEMMA SignalChange ==
    ASSUME NEW x \in SessionType, Threaded(x), NEW sig \in {"term", "kill"}
    PROVE  LET y == [x EXCEPT !.proc = Signalled(x.proc, sig)]
           IN  y \in SessionType /\ Threaded(y) /\ y.label = x.label /\ y.reader = x.reader
<1> DEFINE p == Signalled(x.proc, sig)
<1>1. /\ p \in {"none", "run", "term", "kill", "dead"} /\ (p = "none" <=> x.proc = "none")
      /\ x.proc \in {"kill", "dead"} => p \in {"kill", "dead"}
  BY SignalledProc DEF SessionType
<1> HIDE DEF p
<1>2. LET y == [x EXCEPT !.proc = p]
      IN  y \in SessionType /\ Threaded(y) /\ y.label = x.label /\ y.reader = x.reader
  BY <1>1 DEF SessionType, Threaded
<1> QED
  BY <1>2 DEF p

LEMMA TerminatedChange ==
    ASSUME IInv, NEW s \in Sessions, NEW as \in Stopped
    PROVE  /\ Terminated(s, as) \in SessionType /\ Threaded(Terminated(s, as))
           /\ Terminated(s, as).label = ses[s].label /\ Terminated(s, as).reader = ses[s].reader
<1>0. ses[s] \in SessionType /\ Threaded(ses[s])
  BY DEF IInv, TypeOK
<1>1. CASE ~Alive(s)
  BY <1>0, <1>1 DEF Terminated
<1>2. CASE Alive(s)
  <2> DEFINE p == Signalled(ses[s].proc, "term")
             x == [ses[s] EXCEPT !.state = as, !.proc = p]
  <2>1. /\ p \in {"none", "run", "term", "kill", "dead"} /\ (p = "none" <=> ses[s].proc = "none")
        /\ ses[s].proc \in {"kill", "dead"} => p \in {"kill", "dead"}
    BY <1>0, SignalledProc DEF SessionType
  <2>2. Terminated(s, as) = x
    BY <1>0, <1>2 DEF Terminated, SessionType
  <2>3. ses[s].reader # "none"
    BY <1>0, <1>2 DEF Alive, Threaded
  <2> HIDE DEF p
  <2>4. x \in SessionType /\ Threaded(x) /\ x.label = ses[s].label /\ x.reader = ses[s].reader
    BY <1>0, <2>1, <2>3 DEF SessionType, Threaded, Stopped
  <2> QED
    BY <2>2, <2>4
<1> QED
  BY <1>1, <1>2

LEMMA CaptureStep ==
    ASSUME IInv, NEW c \in Callers,
           \/ \E id \in Sessions \cup Labels, kill \in BOOLEAN : Recapture(c, id, kill)
           \/ CaptureWaited(c, TRUE) \/ Capture(c)
    PROVE  IInv'
<1>0. /\ TypeOK /\ ses \in [Sessions -> SessionType] /\ call[c] \in CallType
      /\ call[c].pc # "idle" => call[c].s \in Sessions /\ ses[call[c].s] \in SessionType
                                /\ Threaded(ses[call[c].s])
      /\ call[c].pc = "terminate" => call[c].as # "none"
      /\ IdleCall \in CallType /\ IdleCall.pc = "idle"
  BY DEF IInv, TypeOK, Named, IdleCall, CallType
<1>1. ASSUME NEW id \in Sessions \cup Labels, NEW kill \in BOOLEAN, Recapture(c, id, kill) PROVE IInv'
  <2> DEFINE s == IF id \in Labels THEN labels[id] ELSE id
             k == [pc |-> "capture", s |-> s, kill |-> kill, as |-> "none"]
  <2>1. s \in Sessions /\ call' = [call EXCEPT ![c] = k] /\ UNCHANGED <<sessions, labels, expired, ses, down>>
    BY <1>0, <1>1 DEF Recapture, TypeOK
  <2> HIDE DEF s
  <2>2. k \in CallType /\ k.pc = "capture" /\ k.s = s
    BY <2>1 DEF CallType
  <2> QED
    BY <2>1, <2>2, CaptureCallSteps
<1>2. ASSUME CaptureBegin(c) PROVE IInv'
  <2>0. call[c].s \in Sessions
    BY <1>0, <1>2 DEF CaptureBegin
  <2>1. CASE ses[call[c].s].busy = NoCaller
    <3> DEFINE k == [call[c] EXCEPT !.pc = "wait"]
               x == [ses[call[c].s] EXCEPT !.busy = c]
    <3>1. k \in CallType /\ k.pc = "wait" /\ k.s = call[c].s
      BY <1>0 DEF CallType
    <3>2. call' = [call EXCEPT ![c] = k] /\ ses' = [ses EXCEPT ![call[c].s] = x]
          /\ UNCHANGED <<sessions, labels, expired, down>>
      BY <1>0, <1>2, <2>0, <2>1 DEF CaptureBegin, TypeOK
    <3>3. x \in SessionType /\ Threaded(x) /\ x.label = ses[call[c].s].label /\ x.reader = ses[call[c].s].reader
      BY <1>0, <2>0, <1>2, BusyChange DEF CaptureBegin
    <3> QED
      BY <2>0, <3>1, <3>2, <3>3, CaptureSessionSteps
  <2>2. CASE ses[call[c].s].busy # NoCaller
    BY <1>0, <1>2, <2>2, CaptureCallSteps DEF CaptureBegin
  <2> QED
    BY <2>1, <2>2
<1>3. ASSUME NEW flood \in BOOLEAN, CaptureWaited(c, flood) PROVE IInv'
  <2> DEFINE k == [call[c] EXCEPT !.pc = "decide"]
             s == call[c].s
             x == [ses[s] EXCEPT !.limited = ses[s].limited \/ flood]
  <2>0. s \in Sessions /\ ses[s] \in SessionType /\ Threaded(ses[s])
    BY <1>0, <1>3 DEF CaptureWaited
  <2>1. k \in CallType /\ k.pc = "decide" /\ k.s = s
    BY <1>0 DEF CallType
  <2>2. call' = [call EXCEPT ![c] = k] /\ ses' = [ses EXCEPT ![s] = x]
        /\ UNCHANGED <<sessions, labels, expired, down>>
    BY <1>0, <1>3, <2>0 DEF CaptureWaited, TypeOK
  <2>3. x \in SessionType /\ Threaded(x) /\ x.label = ses[s].label /\ x.reader = ses[s].reader
    <3>1. (ses[s].limited \/ flood) \in BOOLEAN
      OBVIOUS
    <3> QED
      BY <2>0, <3>1 DEF SessionType, Threaded
  <2> QED
    BY <2>0, <2>1, <2>2, <2>3, CaptureSessionSteps
<1>4. ASSUME CaptureDecide(c) PROVE IInv'
  <2> DEFINE pc == IF Ending(c) = "none" THEN "result" ELSE "terminate"
             k == [call[c] EXCEPT !.pc = pc, !.as = Ending(c)]
  <2>1. Ending(c) \in Stopped \cup {"none"} /\ pc \in {"result", "terminate"} /\ (pc = "terminate" => Ending(c) # "none")
    BY DEF Ending, Stopped
  <2>2. call' = [call EXCEPT ![c] = k] /\ UNCHANGED <<sessions, labels, expired, ses, down>>
        /\ call[c].s \in Sessions
    BY <1>0, <1>4 DEF CaptureDecide, TypeOK, CallType
  <2> HIDE DEF pc
  <2>3. k \in CallType /\ k.pc = pc /\ k.s = call[c].s /\ k.as = Ending(c)
    BY <1>0, <2>1 DEF CallType
  <2> QED
    BY <2>1, <2>2, <2>3, CaptureCallSteps
<1>5. ASSUME TerminateSignal(c) PROVE IInv'
  <2> DEFINE k == [call[c] EXCEPT !.pc = "join"]
             s == call[c].s
             x == Terminated(s, call[c].as)
  <2>0. s \in Sessions /\ call[c].as \in Stopped
    BY <1>0, <1>5 DEF TerminateSignal, CallType
  <2>1. k \in CallType /\ k.pc = "join" /\ k.s = s
    BY <1>0 DEF CallType
  <2>2. call' = [call EXCEPT ![c] = k] /\ ses' = [ses EXCEPT ![s] = x]
        /\ UNCHANGED <<sessions, labels, expired, down>>
    BY <1>0, <1>5 DEF TerminateSignal, TypeOK
  <2>3. x \in SessionType /\ Threaded(x) /\ x.label = ses[s].label /\ x.reader = ses[s].reader
    BY <2>0, TerminatedChange
  <2> HIDE DEF x, s
  <2> QED
    BY <2>0, <2>1, <2>2, <2>3, CaptureSessionSteps DEF s
<1>6. ASSUME TerminateJoin(c) PROVE IInv'
  <2>0. call[c].s \in Sessions /\ ses[call[c].s] \in SessionType /\ Threaded(ses[call[c].s])
    BY <1>0, <1>6 DEF TerminateJoin
  <2>1. CASE ReaderDone(call[c].s)
    <3> DEFINE k == [call[c] EXCEPT !.pc = "result"]
    <3>1. k \in CallType /\ k.pc = "result" /\ k.s = call[c].s
      BY <1>0 DEF CallType
    <3>2. call' = [call EXCEPT ![c] = k] /\ UNCHANGED <<sessions, labels, expired, ses, down>>
      BY <1>0, <1>6, <2>1 DEF TerminateJoin, TypeOK
    <3> QED
      BY <2>0, <3>1, <3>2, CaptureCallSteps
  <2>2. CASE ~ReaderDone(call[c].s)
    <3> DEFINE k == [call[c] EXCEPT !.pc = "rejoin"]
               x == [ses[call[c].s] EXCEPT !.proc = Signalled(ses[call[c].s].proc, "kill")]
    <3>1. k \in CallType /\ k.pc = "rejoin" /\ k.s = call[c].s
      BY <1>0 DEF CallType
    <3>2. call' = [call EXCEPT ![c] = k] /\ ses' = [ses EXCEPT ![call[c].s] = x]
          /\ UNCHANGED <<sessions, labels, expired, down>>
      BY <1>0, <1>6, <2>0, <2>2 DEF TerminateJoin, TypeOK
    <3>3. x \in SessionType /\ Threaded(x) /\ x.label = ses[call[c].s].label /\ x.reader = ses[call[c].s].reader
      BY <2>0, SignalChange
    <3> HIDE DEF x
    <3> QED
      BY <2>0, <3>1, <3>2, <3>3, CaptureSessionSteps
  <2> QED
    BY <2>1, <2>2
<1>7. ASSUME TerminateRejoin(c) \/ CaptureResult(c) PROVE IInv'
  <2>0. /\ call[c].s \in Sessions /\ ses[call[c].s] \in SessionType /\ Threaded(ses[call[c].s])
    BY <1>0, <1>7 DEF TerminateRejoin, CaptureResult
  <2>1. CASE TerminateRejoin(c) /\ ReaderDone(call[c].s)
    <3> DEFINE k == [call[c] EXCEPT !.pc = "result"]
    <3>1. k \in CallType /\ k.pc = "result" /\ k.s = call[c].s
      BY <1>0 DEF CallType
    <3>2. call' = [call EXCEPT ![c] = k] /\ UNCHANGED <<sessions, labels, expired, ses, down>>
      BY <1>0, <2>1 DEF TerminateRejoin, TypeOK
    <3> QED
      BY <2>0, <3>1, <3>2, CaptureCallSteps
  <2>2. CASE CaptureResult(c) \/ ~ReaderDone(call[c].s)
    <3> DEFINE x == [ses[call[c].s] EXCEPT !.busy = NoCaller]
    <3>2. call' = [call EXCEPT ![c] = IdleCall] /\ ses' = [ses EXCEPT ![call[c].s] = x]
          /\ UNCHANGED <<sessions, labels, expired, down>>
      BY <1>0, <1>7, <2>0, <2>2 DEF TerminateRejoin, CaptureResult, TypeOK
    <3>3. x \in SessionType /\ Threaded(x) /\ x.label = ses[call[c].s].label /\ x.reader = ses[call[c].s].reader
      BY <2>0, BusyChange
    <3> HIDE DEF x
    <3> QED
      BY <1>0, <2>0, <3>2, <3>3, CaptureSessionSteps
  <2> QED
    BY <1>7, <2>1, <2>2
<1> QED
  BY <1>1, <1>2, <1>3, <1>4, <1>5, <1>6, <1>7 DEF Capture

\* The shutdown: what it does to the registry happens when there has been one.
LEMMA ShutdownStep ==
    ASSUME IInv, ShutdownBegin \/ Shutdown
    PROVE  IInv'
<1> DEFINE DownType == [pc : {"idle", "next", "join", "rejoin"}, todo : SUBSET Sessions,
                        s : Sessions \cup {NoSession}, runs : Nat]
<1>0. /\ TypeOK /\ down \in DownType /\ ses \in [Sessions -> SessionType]
      /\ down.pc # "idle" => down.runs # 0
      /\ down.pc \in {"join", "rejoin"} => down.s \in Sessions
  BY DEF IInv, TypeOK, Named
<1>1. CASE ShutdownBegin
  <2>1. /\ UNCHANGED <<sessions, labels, expired, ses, call>>
        /\ down' \in DownType /\ down'.pc = "next" /\ down'.runs = down.runs + 1
    <3>1. sessions \subseteq Sessions /\ down \in DownType
      BY <1>0 DEF TypeOK
    <3>2. /\ UNCHANGED <<sessions, labels, expired, ses, call>>
          /\ down' = [down EXCEPT !.pc = "next", !.todo = sessions, !.runs = down.runs + 1]
      BY <1>1 DEF ShutdownBegin
    <3>3. /\ "next" \in {"idle", "next", "join", "rejoin"} /\ down.runs + 1 \in Nat
          /\ sessions \in SUBSET Sessions /\ down.s \in Sessions \cup {NoSession}
      BY <3>1
    <3>4. down' = [pc |-> "next", todo |-> sessions, s |-> down.s, runs |-> down.runs + 1]
      BY <3>1, <3>2
    <3>5. down' \in DownType
      BY <3>3, <3>4
    <3> QED
      BY <3>2, <3>4, <3>5
  <2>2. down'.runs # 0
    BY <1>0, <2>1
  <2>3. ses' \in [Sessions -> SessionType] /\ ThreadsOK' /\ Registered' /\ LabelNamesSession'
    BY <2>1, <2>2, NoSessionFrame
  <2>4. Named'
    BY <2>1, <2>2 DEF IInv, Named
  <2> QED
    BY <2>1, <2>3, <2>4, Together DEF IInv, TypeOK
<1>2. ASSUME NEW s \in Sessions, NEW x \in SessionType, Threaded(x), x.label = ses[s].label,
             x.reader = ses[s].reader, ses' = [ses EXCEPT ![s] = x],
             UNCHANGED <<sessions, labels, expired, call>>, down' \in DownType, down'.runs = down.runs,
             down.runs # 0, down'.pc \in {"join", "rejoin"} => down'.s \in Sessions
      PROVE  IInv'
  <2>1. ses' \in [Sessions -> SessionType] /\ ThreadsOK' /\ Registered' /\ LabelNamesSession'
    BY <1>2, SessionFrame
  <2>2. Named'
    BY <1>2 DEF IInv, Named
  <2> QED
    BY <1>2, <2>1, <2>2, Together DEF IInv, TypeOK
<1>3. CASE ShutdownSignal
  <2>1. PICK s \in down.todo : /\ ses' = [ses EXCEPT ![s] = Terminated(s, "shutdown")]
                               /\ down' = [down EXCEPT !.pc = "join", !.s = s, !.todo = down.todo \ {s}]
    BY <1>3 DEF ShutdownSignal
  <2>2. s \in Sessions /\ "shutdown" \in Stopped
    BY <1>0 DEF Stopped
  <2>3. /\ down' \in DownType /\ down'.runs = down.runs /\ down'.s \in Sessions /\ down.runs # 0
    BY <1>0, <1>3, <2>1, <2>2 DEF ShutdownSignal
  <2>4. /\ Terminated(s, "shutdown") \in SessionType /\ Threaded(Terminated(s, "shutdown"))
        /\ Terminated(s, "shutdown").label = ses[s].label /\ Terminated(s, "shutdown").reader = ses[s].reader
    BY <2>2, TerminatedChange
  <2> QED
    BY <1>2, <1>3, <2>1, <2>2, <2>3, <2>4 DEF ShutdownSignal
<1>4. CASE ShutdownJoin
  <2>0. /\ down.s \in Sessions /\ ses[down.s] \in SessionType /\ Threaded(ses[down.s]) /\ down.runs # 0
        /\ UNCHANGED <<sessions, labels, expired, call>>
    BY <1>0, <1>4 DEF ShutdownJoin, IInv
  <2>1. CASE UNCHANGED ses /\ down' = [down EXCEPT !.pc = "next", !.s = NoSession]
    <3>1. down' \in DownType /\ down'.pc = "next" /\ down'.runs = down.runs
      BY <1>0, <2>1
    <3>2. ses' = [ses EXCEPT ![down.s] = ses[down.s]]
      BY <1>0, <2>0, <2>1
    <3> QED
      BY <1>2, <2>0, <3>1, <3>2
  <2>2. CASE /\ ses' = [ses EXCEPT ![down.s].proc = Signalled(@, "kill")]
             /\ down' = [down EXCEPT !.pc = "rejoin"]
    <3> DEFINE x == [ses[down.s] EXCEPT !.proc = Signalled(ses[down.s].proc, "kill")]
    <3>1. down' \in DownType /\ down'.s = down.s /\ down'.runs = down.runs
      BY <1>0, <2>2
    <3>2. ses' = [ses EXCEPT ![down.s] = x]
      BY <1>0, <2>0, <2>2
    <3>3. x \in SessionType /\ Threaded(x) /\ x.label = ses[down.s].label /\ x.reader = ses[down.s].reader
      BY <2>0, SignalChange
    <3> HIDE DEF x
    <3> QED
      BY <1>2, <2>0, <3>1, <3>2, <3>3
  <2> QED
    BY <1>4, <2>1, <2>2 DEF ShutdownJoin
<1>5. CASE ShutdownClear
  <2>1. /\ sessions' = {} /\ labels' = [l \in Labels |-> NoSession] /\ expired' = {}
        /\ down' \in DownType /\ down'.pc = "idle" /\ down'.runs # 0 /\ UNCHANGED <<ses, call>>
    BY <1>0, <1>5 DEF ShutdownClear
  <2>2. ThreadsOK' /\ Named' /\ Registered' /\ LabelNamesSession'
    BY <2>1 DEF IInv, ThreadsOK, Named, Registered, LabelNamesSession
  <2> QED
    BY <1>0, <2>1, <2>2, Together DEF TypeOK
<1> QED
  BY <1>1, <1>3, <1>4, <1>5 DEF Shutdown

LEMMA TerminalStep == IInv /\ [Next]_vars => IInv'
<1> SUFFICES ASSUME IInv, [Next]_vars PROVE IInv'
  OBVIOUS
<1>1. ASSUME NEW s \in Sessions,
             \/ ProcessExits(s) \/ StreamLimit(s) \/ Expire(s) \/ EndOfFile(s) \/ Reader(s)
      PROVE  IInv'
  BY <1>1, ReaderSteps, RetireStep DEF Reader
<1>2. ASSUME NEW c \in Callers,
             \/ \E s \in Sessions, l \in Labels \cup {NoLabel}, kill \in BOOLEAN : Launch(c, s, l, kill)
             \/ \E id \in Sessions \cup Labels, kill \in BOOLEAN : Recapture(c, id, kill)
             \/ CaptureWaited(c, TRUE) \/ Capture(c)
      PROVE  IInv'
  BY <1>2, LaunchStep, CaptureStep
<1>3. CASE UNCHANGED vars
  BY <1>3 DEF vars, IInv, TypeOK, Threaded, Named, Registered, LabelNamesSession
<1> QED
  BY <1>1, <1>2, <1>3, ShutdownStep DEF Next

\* Until the registry is shut down, every process that nobody has killed is
\* registered, and labels and registered sessions name each other, however
\* captures, expiry, stream limits and readers interleave (launch, _retire,
\* _lookup).
THEOREM RegistryKnowsProcesses == Spec => []RegistryInv
<1>1. IInv => RegistryInv
  <2> SUFFICES ASSUME IInv PROVE LiveIsRegistered
    BY DEF IInv, RegistryInv
  <2>1. ASSUME NEW s \in Sessions, ses[s].proc \in {"run", "term"} PROVE ses[s].reader \notin {"none", "done"}
    BY <2>1 DEF IInv, Threaded
  <2> QED
    BY <2>1 DEF IInv, Registered, LiveIsRegistered
<1> QED
  BY <1>1, TerminalInit, TerminalStep, PTL DEF Spec
=============================================================================
