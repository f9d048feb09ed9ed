------------------------ MODULE AttemptEffectsProofs ------------------------
(***************************************************************************)
(* Proofs about AttemptEffects, for every set of processes, operations,    *)
(* attempts, sources and leases.                                           *)
(***************************************************************************)
EXTENDS AttemptEffects, TLAPS

\* What a call observes is a well-formed sight.
LEMMA ObservedSight ==
    ASSUME TypeOK, NEW a \in Attempts PROVE Observed(a) \in Sight
BY DEF TypeOK, Observed, Sight, clean

\* Returning, and going to another step, keep the types of the calls.
LEMMA ReturnTypes ==
    ASSUME TypeOK, NEW p \in Procs, Return(p)
    PROVE  /\ pc' \in [Procs -> Steps]
           /\ cur' \in [Procs -> Ops \cup {None}]
           /\ att' \in [Procs -> Attempts \cup {None}]
           /\ seen' \in [Procs -> Sight \cup {None}]
BY DEF TypeOK, Return, Steps

LEMMA GotoTypes ==
    ASSUME TypeOK, NEW p \in Procs, NEW step \in Steps, Goto(p, step)
    PROVE  /\ pc' \in [Procs -> Steps]
           /\ cur' \in [Procs -> Ops \cup {None}]
           /\ att' \in [Procs -> Attempts \cup {None}]
           /\ seen' \in [Procs -> Sight \cup {None}]
BY DEF TypeOK, Goto

\* So do writing a record and stopping a supervisor.
LEMMA WriteType ==
    ASSUME TypeOK, NEW op \in Ops, NEW state \in Journal, write(op, state)
    PROVE  journal' \in [Ops -> Journal]
BY DEF TypeOK, write

LEMMA StopType ==
    ASSUME TypeOK, NEW op \in Ops, stop_supervisor(op)
    PROVE  supervisor' \in [Ops -> Supervisor]
BY DEF TypeOK, stop_supervisor, Supervisor

\* Returning releases locks and takes none.
LEMMA ReturnKeepsCalls ==
    ASSUME TypeOK, CallState, NEW p \in Procs, Return(p)
    PROVE  CallState'
BY DEF TypeOK, CallState, Return, Steps, Called, Executing, Exclusive, Fenced, Handing

\* Going to another step takes only locks the call holds already or that are free.
LEMMA GotoKeepsCalls ==
    ASSUME TypeOK, CallState, NEW p \in Procs, NEW step \in Steps, Goto(p, step),
           pc[p] # "idle",
           step \in Executing \cup {"execute_called"} =>
               \/ pc[p] \in Executing
               \/ pc[p] = "execute_called" /\ ~OpLocked(cur[p]),
           step \in Exclusive => pc[p] \in Exclusive \/ ~AttemptLocked(att[p]),
           step \in {"snapshotted", "pinned", "verified", "observed"} => seen[p] \in Sight
    PROVE  CallState'
<1>1. pc' = [pc EXCEPT ![p] = step] /\ UNCHANGED <<cur, att, seen>>
  BY DEF Goto
<1>2. /\ \A q \in Procs :
          /\ pc'[q] # "idle" => att'[q] \in Attempts
          /\ pc'[q] \in Executing \cup {"execute_called"} =>
                cur'[q] \in Ops /\ att'[q] = attempt_of[cur'[q]]
          /\ pc'[q] \in {"snapshotted", "pinned", "verified", "observed"} =>
                seen'[q] \in Sight
  BY <1>1 DEF TypeOK, CallState
<1>3. \A q, r \in Procs :
          pc'[q] \in Executing /\ pc'[r] \in Executing /\ cur'[q] = cur'[r] => q = r
  BY <1>1 DEF TypeOK, CallState, OpLocked, Executing, Fenced
<1>4. \A q, r \in Procs :
          pc'[q] \in Exclusive /\ pc'[r] \in Exclusive /\ att'[q] = att'[r] => q = r
  BY <1>1 DEF TypeOK, CallState, AttemptLocked, Exclusive, Fenced, Handing
<1> QED
  BY <1>2, <1>3, <1>4 DEF CallState

\* Every step keeps the types of the state.
LEMMA TypeStep == IInv /\ [Next]_vars => TypeOK'
<1> SUFFICES ASSUME IInv, [Next]_vars PROVE TypeOK'
  OBVIOUS
<1> USE AttemptOfAssumption, ObservedSight, ReturnTypes, GotoTypes, WriteType, StopType
     DEF IInv, TypeOK, CallState, Journal, Supervisor, Report, Steps, Called, Executing,
         Exclusive, Fenced, Handing
<1>1. ASSUME NEW p \in Procs, NEW step \in Called, NEW op \in Ops \cup {None},
             NEW a \in Attempts, Call(p, step, op, a),
             step = "execute_called" => op \in Ops /\ a = attempt_of[op]
      PROVE  TypeOK'
  BY <1>1 DEF Call, files, host, world, calls
<1>2. ASSUME NEW p \in Procs, execute_lock(p) PROVE TypeOK'
  BY <1>2 DEF execute_lock, OpLocked, files, host, world, calls
<1>3. ASSUME NEW p \in Procs, execute_fence(p) PROVE TypeOK'
  BY <1>3 DEF execute_fence, AttemptLocked, files, host, world, calls
<1>4. ASSUME NEW p \in Procs, execute_intent(p) PROVE TypeOK'
  BY <1>4 DEF execute_intent, files, host, world, calls
<1>5. ASSUME NEW p \in Procs, execute_launch(p) PROVE TypeOK'
  BY <1>5 DEF execute_launch, files, host, world, calls
<1>6. ASSUME NEW p \in Procs, execute_identify(p) PROVE TypeOK'
  BY <1>6 DEF execute_identify, files, host, world, calls
<1>7. ASSUME NEW p \in Procs, execute_unidentified(p) PROVE TypeOK'
  BY <1>7 DEF execute_unidentified, files, host, world, calls
<1>8. ASSUME NEW p \in Procs, execute_send(p) PROVE TypeOK'
  <2>1. cur[p] \in Ops
    BY <1>8 DEF execute_send
  <2>2. supervisor' \in [Ops -> Supervisor]
    BY <1>8, <2>1 DEF execute_send
  <2>3. UNCHANGED <<files, report, live, runs, world>> /\ (Goto(p, "waiting") \/ Return(p))
    BY <1>8 DEF execute_send
  <2> QED
    BY <2>2, <2>3 DEF files, world
<1>9. ASSUME NEW p \in Procs, execute_report(p) PROVE TypeOK'
  BY <1>9 DEF execute_report, files, host, world, calls
<1>10. ASSUME NEW p \in Procs, execute_timeout(p) PROVE TypeOK'
  BY <1>10 DEF execute_timeout, files, host, world, calls
<1>11. ASSUME NEW p \in Procs, execute_conclude(p) PROVE TypeOK'
  BY <1>11 DEF execute_conclude, files, host, world, calls
<1>12. ASSUME NEW p \in Procs, handoff_lock(p) PROVE TypeOK'
  BY <1>12 DEF handoff_lock, AttemptLocked, files, host, world, calls
<1>13. ASSUME NEW p \in Procs, handoff_snapshot(p) PROVE TypeOK'
  BY <1>13 DEF handoff_snapshot, files, host, world, calls
<1>14. ASSUME NEW p \in Procs, handoff_pin(p) PROVE TypeOK'
  BY <1>14 DEF handoff_pin, files, host, world, calls, Sight
<1>15. ASSUME NEW p \in Procs, handoff_reread(p) PROVE TypeOK'
  BY <1>15 DEF handoff_reread, files, host, world, calls
<1>16. ASSUME NEW p \in Procs, handoff_record(p) PROVE TypeOK'
  BY <1>16 DEF handoff_record, files, host, world, calls, Sight
<1>17. ASSUME NEW p \in Procs, attest_observe(p) PROVE TypeOK'
  <2>1. UNCHANGED <<files, host, world>>
    BY <1>17 DEF attest_observe
  <2>2. CASE Return(p)
    BY <2>1, <2>2 DEF files, host, world
  <2>3. CASE /\ pc' = [pc EXCEPT ![p] = "observed"]
             /\ seen' = [seen EXCEPT ![p] = Observed(att[p])]
             /\ UNCHANGED <<cur, att>>
    <3>1. att[p] \in Attempts
      BY <1>17 DEF attest_observe
    <3>2. pc' \in [Procs -> Steps] /\ seen' \in [Procs -> Sight \cup {None}]
      BY <2>3, <3>1
    <3> QED
      BY <2>1, <2>3, <3>2 DEF files, host, world
  <2> QED
    BY <1>17, <2>2, <2>3 DEF attest_observe
<1>18. ASSUME NEW p \in Procs, attest_record(p) PROVE TypeOK'
  BY <1>18 DEF attest_record, files, host, world, calls
<1>19. ASSUME NEW p \in Procs, fence_authoring_effect(p) PROVE TypeOK'
  BY <1>19 DEF fence_authoring_effect, AttemptLocked, files, host, world, calls
<1>20. ASSUME NEW p \in Procs, GitEffect(p) PROVE TypeOK'
  <2>1. att[p] \in Attempts
    BY <1>20 DEF GitEffect
  <2>2. tree' \in [Attempts -> Sources] /\ head' \in [Attempts -> Sources]
    BY <1>20, <2>1 DEF GitEffect
  <2> QED
    BY <1>20, <2>2 DEF GitEffect, files, host, calls
<1>21. ASSUME NEW p \in Procs, GitEffectDone(p) PROVE TypeOK'
  BY <1>21 DEF GitEffectDone, files, host, world, calls
<1>22. ASSUME NEW p \in Procs, Crash(p) PROVE TypeOK'
  BY <1>22 DEF Crash, files, host, world, calls
<1>23. ASSUME NEW op \in Ops, supervisor_unasked(op) PROVE TypeOK'
  BY <1>23 DEF supervisor_unasked, files, host, world, calls
<1>24. ASSUME NEW op \in Ops, supervisor_refuses(op) PROVE TypeOK'
  BY <1>24 DEF supervisor_refuses, files, host, world, calls
<1>25. ASSUME NEW op \in Ops, run_command_tree(op) PROVE TypeOK'
  BY <1>25 DEF run_command_tree, files, host, world, calls
<1>26. ASSUME NEW op \in Ops, supervisor_completes(op) PROVE TypeOK'
  BY <1>26 DEF supervisor_completes, files, host, world, calls
<1>27. ASSUME NEW op \in Ops, supervisor_unresolved(op) PROVE TypeOK'
  BY <1>27 DEF supervisor_unresolved, files, host, world, calls
<1>28. ASSUME NEW op \in Ops, SupervisorDies(op) PROVE TypeOK'
  BY <1>28 DEF SupervisorDies, files, host, world, calls
<1>29. ASSUME NEW op \in Ops, CommandWrites(op) PROVE TypeOK'
  BY <1>29 DEF CommandWrites, files, host, world, calls
<1>30. ASSUME NEW op \in Ops, CommandEnds(op) PROVE TypeOK'
  BY <1>30 DEF CommandEnds, files, host, world, calls
<1>31. ASSUME NEW a \in Attempts, ProducerEdits(a) PROVE TypeOK'
  BY <1>31 DEF ProducerEdits, files, host, world, calls
<1>32. ASSUME NEW a \in Attempts, LeaseChanges(a) PROVE TypeOK'
  BY <1>32 DEF LeaseChanges, files, host, world, calls
<1>33. ASSUME NEW a \in Attempts, OccupancyChanges(a) PROVE TypeOK'
  BY <1>33 DEF OccupancyChanges, files, host, world, calls
<1>34. ASSUME NEW a \in Attempts, AttestationExpires(a) PROVE TypeOK'
  BY <1>34 DEF AttestationExpires, files, host, world, calls
<1>35. CASE UNCHANGED vars
  BY <1>35 DEF vars, files, host, world, calls
<1>36. ASSUME NEW p \in Procs, Calls(p) PROVE TypeOK'
  BY <1>1, <1>36 DEF Calls, execute_call, handoff_call, attest_call, effect_call, Called
<1> QED
  BY <1>2, <1>3, <1>4, <1>5, <1>6, <1>7, <1>8, <1>9, <1>10, <1>11, <1>12,
     <1>13, <1>14, <1>15, <1>16, <1>17, <1>18, <1>19, <1>20, <1>21, <1>22,
     <1>23, <1>24, <1>25, <1>26, <1>27, <1>28, <1>29, <1>30, <1>31, <1>32,
     <1>33, <1>34, <1>35, <1>36
  DEF Next, Execute, Handoff, Attest, Effect, Supervise, Surroundings

\* A call starts by taking free locks, so no two calls ever hold the same one.
LEMMA CallStep == IInv /\ [Next]_vars => CallState'
<1> SUFFICES ASSUME IInv, [Next]_vars PROVE CallState'
  OBVIOUS
<1> USE AttemptOfAssumption, NoneAssumption, ObservedSight, ReturnKeepsCalls, GotoKeepsCalls
     DEF IInv, TypeOK, Steps, Called, Executing, Exclusive, Fenced, Handing
<1>1. ASSUME NEW p \in Procs, NEW step \in Called, NEW op \in Ops \cup {None},
             NEW a \in Attempts, Call(p, step, op, a),
             step = "execute_called" => op \in Ops /\ a = attempt_of[op]
      PROVE  CallState'
  BY <1>1 DEF Call, files, host, world, calls, CallState
<1>2. ASSUME NEW p \in Procs, execute_lock(p) PROVE CallState'
  BY <1>2 DEF execute_lock, OpLocked, files, host, world, calls
<1>3. ASSUME NEW p \in Procs, execute_fence(p) PROVE CallState'
  BY <1>3 DEF execute_fence, AttemptLocked, files, host, world, calls
<1>4. ASSUME NEW p \in Procs, execute_intent(p) PROVE CallState'
  BY <1>4 DEF execute_intent, files, host, world, calls
<1>5. ASSUME NEW p \in Procs, execute_launch(p) PROVE CallState'
  BY <1>5 DEF execute_launch, files, host, world, calls
<1>6. ASSUME NEW p \in Procs, execute_identify(p) PROVE CallState'
  BY <1>6 DEF execute_identify, files, host, world, calls
<1>7. ASSUME NEW p \in Procs, execute_unidentified(p) PROVE CallState'
  BY <1>7 DEF execute_unidentified, files, host, world, calls
<1>8. ASSUME NEW p \in Procs, execute_send(p) PROVE CallState'
  BY <1>8 DEF execute_send, files, host, world, calls
<1>9. ASSUME NEW p \in Procs, execute_report(p) PROVE CallState'
  BY <1>9 DEF execute_report, files, host, world, calls
<1>10. ASSUME NEW p \in Procs, execute_timeout(p) PROVE CallState'
  BY <1>10 DEF execute_timeout, files, host, world, calls
<1>11. ASSUME NEW p \in Procs, execute_conclude(p) PROVE CallState'
  BY <1>11 DEF execute_conclude, files, host, world, calls
<1>12. ASSUME NEW p \in Procs, handoff_lock(p) PROVE CallState'
  BY <1>12 DEF handoff_lock, AttemptLocked, files, host, world, calls
<1>13. ASSUME NEW p \in Procs, handoff_snapshot(p) PROVE CallState'
  BY <1>13 DEF handoff_snapshot, files, host, world, calls, CallState, Return
<1>14. ASSUME NEW p \in Procs, handoff_pin(p) PROVE CallState'
  BY <1>14 DEF handoff_pin, files, host, world, calls, CallState
<1>15. ASSUME NEW p \in Procs, handoff_reread(p) PROVE CallState'
  BY <1>15 DEF handoff_reread, files, host, world, calls, CallState
<1>16. ASSUME NEW p \in Procs, handoff_record(p) PROVE CallState'
  BY <1>16 DEF handoff_record, files, host, world, calls
<1>17. ASSUME NEW p \in Procs, attest_observe(p) PROVE CallState'
  <2>1. CASE Return(p)
    BY <2>1
  <2>2. CASE /\ pc' = [pc EXCEPT ![p] = "observed"]
             /\ seen' = [seen EXCEPT ![p] = Observed(att[p])]
             /\ UNCHANGED <<cur, att>>
    <3>1. att[p] \in Attempts /\ ~AttemptLocked(att[p])
      BY <1>17 DEF attest_observe, CallState
    <3>2. seen'[p] \in Sight
      BY <2>2, <3>1
    <3> QED
      BY <2>2, <3>1, <3>2 DEF AttemptLocked, CallState
  <2> QED
    BY <1>17, <2>1, <2>2 DEF attest_observe
<1>18. ASSUME NEW p \in Procs, attest_record(p) PROVE CallState'
  BY <1>18 DEF attest_record, files, host, world, calls
<1>19. ASSUME NEW p \in Procs, fence_authoring_effect(p) PROVE CallState'
  BY <1>19 DEF fence_authoring_effect, AttemptLocked, files, host, world, calls
<1>20. ASSUME NEW p \in Procs, GitEffect(p) PROVE CallState'
  BY <1>20 DEF GitEffect, files, host, world, calls, CallState
<1>21. ASSUME NEW p \in Procs, GitEffectDone(p) PROVE CallState'
  BY <1>21 DEF GitEffectDone, files, host, world, calls
<1>22. ASSUME NEW p \in Procs, Crash(p) PROVE CallState'
  BY <1>22 DEF Crash, files, host, world, calls
<1>23. ASSUME NEW op \in Ops, supervisor_unasked(op) PROVE CallState'
  BY <1>23 DEF supervisor_unasked, files, host, world, calls, CallState
<1>24. ASSUME NEW op \in Ops, supervisor_refuses(op) PROVE CallState'
  BY <1>24 DEF supervisor_refuses, files, host, world, calls, CallState
<1>25. ASSUME NEW op \in Ops, run_command_tree(op) PROVE CallState'
  BY <1>25 DEF run_command_tree, files, host, world, calls, CallState
<1>26. ASSUME NEW op \in Ops, supervisor_completes(op) PROVE CallState'
  BY <1>26 DEF supervisor_completes, files, host, world, calls, CallState
<1>27. ASSUME NEW op \in Ops, supervisor_unresolved(op) PROVE CallState'
  BY <1>27 DEF supervisor_unresolved, files, host, world, calls, CallState
<1>28. ASSUME NEW op \in Ops, SupervisorDies(op) PROVE CallState'
  BY <1>28 DEF SupervisorDies, files, host, world, calls, CallState
<1>29. ASSUME NEW op \in Ops, CommandWrites(op) PROVE CallState'
  BY <1>29 DEF CommandWrites, files, host, world, calls, CallState
<1>30. ASSUME NEW op \in Ops, CommandEnds(op) PROVE CallState'
  BY <1>30 DEF CommandEnds, files, host, world, calls, CallState
<1>31. ASSUME NEW a \in Attempts, ProducerEdits(a) PROVE CallState'
  BY <1>31 DEF ProducerEdits, files, host, world, calls, CallState
<1>32. ASSUME NEW a \in Attempts, LeaseChanges(a) PROVE CallState'
  BY <1>32 DEF LeaseChanges, files, host, world, calls, CallState
<1>33. ASSUME NEW a \in Attempts, OccupancyChanges(a) PROVE CallState'
  BY <1>33 DEF OccupancyChanges, files, host, world, calls, CallState
<1>34. ASSUME NEW a \in Attempts, AttestationExpires(a) PROVE CallState'
  BY <1>34 DEF AttestationExpires, files, host, world, calls, CallState
<1>35. CASE UNCHANGED vars
  BY <1>35 DEF CallState, vars, files, host, world, calls
<1>36. ASSUME NEW p \in Procs, Calls(p) PROVE CallState'
  BY <1>1, <1>36 DEF Calls, execute_call, handoff_call, attest_call, effect_call, Called
<1> QED
  BY <1>2, <1>3, <1>4, <1>5, <1>6, <1>7, <1>8, <1>9, <1>10, <1>11, <1>12,
     <1>13, <1>14, <1>15, <1>16, <1>17, <1>18, <1>19, <1>20, <1>21, <1>22,
     <1>23, <1>24, <1>25, <1>26, <1>27, <1>28, <1>29, <1>30, <1>31, <1>32,
     <1>33, <1>34, <1>35, <1>36
  DEF Next, Execute, Handoff, Attest, Effect, Supervise, Surroundings

\* Only the holder of an operation lock moves its record, and only the
\* holder and the supervisor itself move its supervisor.
LEMMA StepStep == IInv /\ [Next]_vars => StepState'
<1> SUFFICES ASSUME IInv, [Next]_vars PROVE StepState'
  OBVIOUS
<1> USE AttemptOfAssumption, NoneAssumption
     DEF IInv, TypeOK, CallState, StepState, OpState, Steps, Called, Executing,
         Exclusive, Fenced, Handing
<1>1. ASSUME NEW p \in Procs, NEW step \in Called, NEW op \in Ops \cup {None},
             NEW a \in Attempts, Call(p, step, op, a),
             step = "execute_called" => op \in Ops /\ a = attempt_of[op]
      PROVE  StepState'
  BY <1>1 DEF Call, files, host, world, calls
<1>2. ASSUME NEW p \in Procs, execute_lock(p) PROVE StepState'
  BY <1>2 DEF execute_lock, Goto, Return, OpLocked, files, host, world, calls
<1>3. ASSUME NEW p \in Procs, execute_fence(p) PROVE StepState'
  BY <1>3 DEF execute_fence, Goto, Return, AttemptLocked, files, host, world, calls
<1>4. ASSUME NEW p \in Procs, execute_intent(p) PROVE StepState'
  BY <1>4 DEF execute_intent, Goto, Return, write, files, host, world, calls
<1>5. ASSUME NEW p \in Procs, execute_launch(p) PROVE StepState'
  BY <1>5 DEF execute_launch, Goto, Return, write, files, host, world, calls
<1>6. ASSUME NEW p \in Procs, execute_identify(p) PROVE StepState'
  BY <1>6
     DEF execute_identify, Goto, Return, write, stop_supervisor, files, host, world,
         calls
<1>7. ASSUME NEW p \in Procs, execute_unidentified(p) PROVE StepState'
  BY <1>7
     DEF execute_unidentified, Return, write, stop_supervisor, files, host, world, calls
<1>8. ASSUME NEW p \in Procs, execute_send(p) PROVE StepState'
  BY <1>8 DEF execute_send, Goto, Return, stop_supervisor, files, host, world, calls
<1>9. ASSUME NEW p \in Procs, execute_report(p) PROVE StepState'
  BY <1>9 DEF execute_report, Goto, Return, write, files, host, world, calls
<1>10. ASSUME NEW p \in Procs, execute_timeout(p) PROVE StepState'
  BY <1>10 DEF execute_timeout, Return, stop_supervisor, files, host, world, calls
<1>11. ASSUME NEW p \in Procs, execute_conclude(p) PROVE StepState'
  BY <1>11 DEF execute_conclude, Return, write, files, host, world, calls
<1>12. ASSUME NEW p \in Procs, handoff_lock(p) PROVE StepState'
  BY <1>12 DEF handoff_lock, Goto, Return, AttemptLocked, files, host, world, calls
<1>13. ASSUME NEW p \in Procs, handoff_snapshot(p) PROVE StepState'
  BY <1>13 DEF handoff_snapshot, Return, files, host, world, calls
<1>14. ASSUME NEW p \in Procs, handoff_pin(p) PROVE StepState'
  BY <1>14 DEF handoff_pin, Goto, Return, files, host, world, calls
<1>15. ASSUME NEW p \in Procs, handoff_reread(p) PROVE StepState'
  BY <1>15 DEF handoff_reread, Goto, Return, files, host, world, calls
<1>16. ASSUME NEW p \in Procs, handoff_record(p) PROVE StepState'
  BY <1>16 DEF handoff_record, Return, files, host, world, calls
<1>17. ASSUME NEW p \in Procs, attest_observe(p) PROVE StepState'
  BY <1>17 DEF attest_observe, Return, AttemptLocked, files, host, world, calls
<1>18. ASSUME NEW p \in Procs, attest_record(p) PROVE StepState'
  BY <1>18 DEF attest_record, Return, files, host, world, calls
<1>19. ASSUME NEW p \in Procs, fence_authoring_effect(p) PROVE StepState'
  BY <1>19
     DEF fence_authoring_effect, Goto, Return, AttemptLocked, files, host, world, calls
<1>20. ASSUME NEW p \in Procs, GitEffect(p) PROVE StepState'
  BY <1>20 DEF GitEffect, files, host, world, calls
<1>21. ASSUME NEW p \in Procs, GitEffectDone(p) PROVE StepState'
  BY <1>21 DEF GitEffectDone, Return, files, host, world, calls
<1>22. ASSUME NEW p \in Procs, Crash(p) PROVE StepState'
  BY <1>22 DEF Crash, Return, files, host, world, calls
<1>23. ASSUME NEW op \in Ops, supervisor_unasked(op) PROVE StepState'
  BY <1>23 DEF supervisor_unasked, files, host, world, calls
<1>24. ASSUME NEW op \in Ops, supervisor_refuses(op) PROVE StepState'
  BY <1>24 DEF supervisor_refuses, files, host, world, calls
<1>25. ASSUME NEW op \in Ops, run_command_tree(op) PROVE StepState'
  BY <1>25 DEF run_command_tree, files, host, world, calls
<1>26. ASSUME NEW op \in Ops, supervisor_completes(op) PROVE StepState'
  BY <1>26 DEF supervisor_completes, files, host, world, calls
<1>27. ASSUME NEW op \in Ops, supervisor_unresolved(op) PROVE StepState'
  BY <1>27 DEF supervisor_unresolved, files, host, world, calls
<1>28. ASSUME NEW op \in Ops, SupervisorDies(op) PROVE StepState'
  BY <1>28 DEF SupervisorDies, files, host, world, calls
<1>29. ASSUME NEW op \in Ops, CommandWrites(op) PROVE StepState'
  BY <1>29 DEF CommandWrites, files, host, world, calls
<1>30. ASSUME NEW op \in Ops, CommandEnds(op) PROVE StepState'
  BY <1>30 DEF CommandEnds, files, host, world, calls
<1>31. ASSUME NEW a \in Attempts, ProducerEdits(a) PROVE StepState'
  BY <1>31 DEF ProducerEdits, files, host, world, calls
<1>32. ASSUME NEW a \in Attempts, LeaseChanges(a) PROVE StepState'
  BY <1>32 DEF LeaseChanges, files, host, world, calls
<1>33. ASSUME NEW a \in Attempts, OccupancyChanges(a) PROVE StepState'
  BY <1>33 DEF OccupancyChanges, files, host, world, calls
<1>34. ASSUME NEW a \in Attempts, AttestationExpires(a) PROVE StepState'
  BY <1>34 DEF AttestationExpires, files, host, world, calls
<1>35. CASE UNCHANGED vars
  BY <1>35 DEF vars, files, host, world, calls
<1>36. ASSUME NEW p \in Procs, Calls(p) PROVE StepState'
  BY <1>1, <1>36 DEF Calls, execute_call, handoff_call, attest_call, effect_call, Called
<1> QED
  BY <1>2, <1>3, <1>4, <1>5, <1>6, <1>7, <1>8, <1>9, <1>10, <1>11, <1>12,
     <1>13, <1>14, <1>15, <1>16, <1>17, <1>18, <1>19, <1>20, <1>21, <1>22,
     <1>23, <1>24, <1>25, <1>26, <1>27, <1>28, <1>29, <1>30, <1>31, <1>32,
     <1>33, <1>34, <1>35, <1>36
  DEF Next, Execute, Handoff, Attest, Effect, Supervise, Surroundings

\* The record never says more than the process tree has done.
LEMMA OpStep == IInv /\ [Next]_vars => OpState'
<1> SUFFICES ASSUME IInv, [Next]_vars PROVE OpState'
  OBVIOUS
<1> USE AttemptOfAssumption, NoneAssumption
     DEF IInv, TypeOK, CallState, StepState, OpState, Steps, Called, Executing,
         Exclusive, Fenced, Handing
<1>1. ASSUME NEW p \in Procs, NEW step \in Called, NEW op \in Ops \cup {None},
             NEW a \in Attempts, Call(p, step, op, a),
             step = "execute_called" => op \in Ops /\ a = attempt_of[op]
      PROVE  OpState'
  BY <1>1 DEF Call, files, host, world, calls
<1>2. ASSUME NEW p \in Procs, execute_lock(p) PROVE OpState'
  BY <1>2 DEF execute_lock, Goto, Return, OpLocked, files, host, world, calls
<1>3. ASSUME NEW p \in Procs, execute_fence(p) PROVE OpState'
  BY <1>3 DEF execute_fence, Goto, Return, AttemptLocked, files, host, world, calls
<1>4. ASSUME NEW p \in Procs, execute_intent(p) PROVE OpState'
  BY <1>4 DEF execute_intent, Goto, Return, write, files, host, world, calls
<1>5. ASSUME NEW p \in Procs, execute_launch(p) PROVE OpState'
  BY <1>5 DEF execute_launch, Goto, Return, write, files, host, world, calls
<1>6. ASSUME NEW p \in Procs, execute_identify(p) PROVE OpState'
  BY <1>6
     DEF execute_identify, Goto, Return, write, stop_supervisor, files, host, world,
         calls
<1>7. ASSUME NEW p \in Procs, execute_unidentified(p) PROVE OpState'
  BY <1>7
     DEF execute_unidentified, Return, write, stop_supervisor, files, host, world, calls
<1>8. ASSUME NEW p \in Procs, execute_send(p) PROVE OpState'
  BY <1>8 DEF execute_send, Goto, Return, stop_supervisor, files, host, world, calls
<1>9. ASSUME NEW p \in Procs, execute_report(p) PROVE OpState'
  BY <1>9 DEF execute_report, Goto, Return, write, files, host, world, calls
<1>10. ASSUME NEW p \in Procs, execute_timeout(p) PROVE OpState'
  BY <1>10 DEF execute_timeout, Return, stop_supervisor, files, host, world, calls
<1>11. ASSUME NEW p \in Procs, execute_conclude(p) PROVE OpState'
  BY <1>11 DEF execute_conclude, Return, write, files, host, world, calls
<1>12. ASSUME NEW p \in Procs, handoff_lock(p) PROVE OpState'
  BY <1>12 DEF handoff_lock, Goto, Return, AttemptLocked, files, host, world, calls
<1>13. ASSUME NEW p \in Procs, handoff_snapshot(p) PROVE OpState'
  BY <1>13 DEF handoff_snapshot, Return, files, host, world, calls
<1>14. ASSUME NEW p \in Procs, handoff_pin(p) PROVE OpState'
  BY <1>14 DEF handoff_pin, Goto, Return, files, host, world, calls
<1>15. ASSUME NEW p \in Procs, handoff_reread(p) PROVE OpState'
  BY <1>15 DEF handoff_reread, Goto, Return, files, host, world, calls
<1>16. ASSUME NEW p \in Procs, handoff_record(p) PROVE OpState'
  BY <1>16 DEF handoff_record, Return, files, host, world, calls
<1>17. ASSUME NEW p \in Procs, attest_observe(p) PROVE OpState'
  BY <1>17 DEF attest_observe, Return, AttemptLocked, files, host, world, calls
<1>18. ASSUME NEW p \in Procs, attest_record(p) PROVE OpState'
  BY <1>18 DEF attest_record, Return, files, host, world, calls
<1>19. ASSUME NEW p \in Procs, fence_authoring_effect(p) PROVE OpState'
  BY <1>19
     DEF fence_authoring_effect, Goto, Return, AttemptLocked, files, host, world, calls
<1>20. ASSUME NEW p \in Procs, GitEffect(p) PROVE OpState'
  BY <1>20 DEF GitEffect, files, host, world, calls
<1>21. ASSUME NEW p \in Procs, GitEffectDone(p) PROVE OpState'
  BY <1>21 DEF GitEffectDone, Return, files, host, world, calls
<1>22. ASSUME NEW p \in Procs, Crash(p) PROVE OpState'
  BY <1>22 DEF Crash, Return, files, host, world, calls
<1>23. ASSUME NEW op \in Ops, supervisor_unasked(op) PROVE OpState'
  BY <1>23 DEF supervisor_unasked, files, host, world, calls
<1>24. ASSUME NEW op \in Ops, supervisor_refuses(op) PROVE OpState'
  BY <1>24 DEF supervisor_refuses, files, host, world, calls
<1>25. ASSUME NEW op \in Ops, run_command_tree(op) PROVE OpState'
  BY <1>25 DEF run_command_tree, files, host, world, calls
<1>26. ASSUME NEW op \in Ops, supervisor_completes(op) PROVE OpState'
  BY <1>26 DEF supervisor_completes, NoChildren, files, host, world, calls
<1>27. ASSUME NEW op \in Ops, supervisor_unresolved(op) PROVE OpState'
  BY <1>27 DEF supervisor_unresolved, files, host, world, calls
<1>28. ASSUME NEW op \in Ops, SupervisorDies(op) PROVE OpState'
  BY <1>28 DEF SupervisorDies, files, host, world, calls
<1>29. ASSUME NEW op \in Ops, CommandWrites(op) PROVE OpState'
  BY <1>29 DEF CommandWrites, files, host, world, calls
<1>30. ASSUME NEW op \in Ops, CommandEnds(op) PROVE OpState'
  BY <1>30 DEF CommandEnds, files, host, world, calls
<1>31. ASSUME NEW a \in Attempts, ProducerEdits(a) PROVE OpState'
  BY <1>31 DEF ProducerEdits, files, host, world, calls
<1>32. ASSUME NEW a \in Attempts, LeaseChanges(a) PROVE OpState'
  BY <1>32 DEF LeaseChanges, files, host, world, calls
<1>33. ASSUME NEW a \in Attempts, OccupancyChanges(a) PROVE OpState'
  BY <1>33 DEF OccupancyChanges, files, host, world, calls
<1>34. ASSUME NEW a \in Attempts, AttestationExpires(a) PROVE OpState'
  BY <1>34 DEF AttestationExpires, files, host, world, calls
<1>35. CASE UNCHANGED vars
  BY <1>35 DEF vars, files, host, world, calls
<1>36. ASSUME NEW p \in Procs, Calls(p) PROVE OpState'
  BY <1>1, <1>36 DEF Calls, execute_call, handoff_call, attest_call, effect_call, Called
<1> QED
  BY <1>2, <1>3, <1>4, <1>5, <1>6, <1>7, <1>8, <1>9, <1>10, <1>11, <1>12,
     <1>13, <1>14, <1>15, <1>16, <1>17, <1>18, <1>19, <1>20, <1>21, <1>22,
     <1>23, <1>24, <1>25, <1>26, <1>27, <1>28, <1>29, <1>30, <1>31, <1>32,
     <1>33, <1>34, <1>35, <1>36
  DEF Next, Execute, Handoff, Attest, Effect, Supervise, Surroundings

\* The attempt lock keeps starts out while the fence goes up, and the fence
\* keeps them out from then on.
LEMMA FenceStep == IInv /\ [Next]_vars => FenceState'
<1> SUFFICES ASSUME IInv, [Next]_vars PROVE FenceState'
  OBVIOUS
<1> USE AttemptOfAssumption, NoneAssumption
     DEF IInv, TypeOK, CallState, StepState, OpState, FenceState, FencedOff, Terminal,
         command_journal_clear, require_quiescent_host, Steps, Called, Executing,
         Exclusive, Fenced, Handing
<1>1. ASSUME NEW p \in Procs, NEW step \in Called, NEW op \in Ops \cup {None},
             NEW a \in Attempts, Call(p, step, op, a),
             step = "execute_called" => op \in Ops /\ a = attempt_of[op]
      PROVE  FenceState'
  BY <1>1 DEF Call, files, host, world, calls
<1>2. ASSUME NEW p \in Procs, execute_lock(p) PROVE FenceState'
  BY <1>2 DEF execute_lock, Goto, Return, OpLocked, files, host, world, calls
<1>3. ASSUME NEW p \in Procs, execute_fence(p) PROVE FenceState'
  BY <1>3 DEF execute_fence, Goto, Return, AttemptLocked, files, host, world, calls
<1>4. ASSUME NEW p \in Procs, execute_intent(p) PROVE FenceState'
  BY <1>4 DEF execute_intent, Goto, Return, write, files, host, world, calls
<1>5. ASSUME NEW p \in Procs, execute_launch(p) PROVE FenceState'
  <2>1. UNCHANGED <<attestation, marker>>
    BY <1>5 DEF execute_launch
  <2>2. CASE Goto(p, "spawned") /\ UNCHANGED journal
    BY <1>5, <2>1, <2>2 DEF execute_launch, Goto
  <2>3. CASE write(cur[p], "not_started") /\ Return(p)
    BY <1>5, <2>1, <2>3 DEF execute_launch, Return, write
  <2> QED
    BY <1>5, <2>2, <2>3 DEF execute_launch
<1>6. ASSUME NEW p \in Procs, execute_identify(p) PROVE FenceState'
  BY <1>6
     DEF execute_identify, Goto, Return, write, stop_supervisor, files, host, world,
         calls
<1>7. ASSUME NEW p \in Procs, execute_unidentified(p) PROVE FenceState'
  BY <1>7
     DEF execute_unidentified, Return, write, stop_supervisor, files, host, world, calls
<1>8. ASSUME NEW p \in Procs, execute_send(p) PROVE FenceState'
  BY <1>8 DEF execute_send, Goto, Return, stop_supervisor, files, host, world, calls
<1>9. ASSUME NEW p \in Procs, execute_report(p) PROVE FenceState'
  <2>1. UNCHANGED <<attestation, marker>>
    BY <1>9 DEF execute_report
  <2>2. CASE Goto(p, "reported") /\ UNCHANGED journal
    BY <1>9, <2>1, <2>2 DEF execute_report, Goto
  <2>3. CASE UNCHANGED journal /\ Return(p)
    BY <1>9, <2>1, <2>3 DEF execute_report, Return
  <2>4. ASSUME NEW state \in {"not_started", "completed"}, write(cur[p], state), Return(p)
        PROVE  FenceState'
    BY <1>9, <2>1, <2>4 DEF execute_report, Return, write
  <2> QED
    BY <1>9, <2>2, <2>3, <2>4 DEF execute_report
<1>10. ASSUME NEW p \in Procs, execute_timeout(p) PROVE FenceState'
  BY <1>10 DEF execute_timeout, Return, stop_supervisor, files, host, world, calls
<1>11. ASSUME NEW p \in Procs, execute_conclude(p) PROVE FenceState'
  BY <1>11 DEF execute_conclude, Return, write, files, host, world, calls
<1>12. ASSUME NEW p \in Procs, handoff_lock(p) PROVE FenceState'
  BY <1>12 DEF handoff_lock, Goto, Return, AttemptLocked, files, host, world, calls
<1>13. ASSUME NEW p \in Procs, handoff_snapshot(p) PROVE FenceState'
  BY <1>13 DEF handoff_snapshot, Return, files, host, world, calls
<1>14. ASSUME NEW p \in Procs, handoff_pin(p) PROVE FenceState'
  BY <1>14 DEF handoff_pin, Goto, Return, files, host, world, calls
<1>15. ASSUME NEW p \in Procs, handoff_reread(p) PROVE FenceState'
  BY <1>15 DEF handoff_reread, Goto, Return, files, host, world, calls
<1>16. ASSUME NEW p \in Procs, handoff_record(p) PROVE FenceState'
  BY <1>16 DEF handoff_record, Return, files, host, world, calls
<1>17. ASSUME NEW p \in Procs, attest_observe(p) PROVE FenceState'
  BY <1>17 DEF attest_observe, Return, AttemptLocked, files, host, world, calls
<1>18. ASSUME NEW p \in Procs, attest_record(p) PROVE FenceState'
  BY <1>18 DEF attest_record, Return, files, host, world, calls
<1>19. ASSUME NEW p \in Procs, fence_authoring_effect(p) PROVE FenceState'
  BY <1>19
     DEF fence_authoring_effect, Goto, Return, AttemptLocked, files, host, world, calls
<1>20. ASSUME NEW p \in Procs, GitEffect(p) PROVE FenceState'
  BY <1>20 DEF GitEffect, files, host, world, calls
<1>21. ASSUME NEW p \in Procs, GitEffectDone(p) PROVE FenceState'
  BY <1>21 DEF GitEffectDone, Return, files, host, world, calls
<1>22. ASSUME NEW p \in Procs, Crash(p) PROVE FenceState'
  BY <1>22 DEF Crash, Return, files, host, world, calls
<1>23. ASSUME NEW op \in Ops, supervisor_unasked(op) PROVE FenceState'
  BY <1>23 DEF supervisor_unasked, files, host, world, calls
<1>24. ASSUME NEW op \in Ops, supervisor_refuses(op) PROVE FenceState'
  BY <1>24 DEF supervisor_refuses, files, host, world, calls
<1>25. ASSUME NEW op \in Ops, run_command_tree(op) PROVE FenceState'
  BY <1>25 DEF run_command_tree, files, host, world, calls
<1>26. ASSUME NEW op \in Ops, supervisor_completes(op) PROVE FenceState'
  BY <1>26 DEF supervisor_completes, files, host, world, calls
<1>27. ASSUME NEW op \in Ops, supervisor_unresolved(op) PROVE FenceState'
  BY <1>27 DEF supervisor_unresolved, files, host, world, calls
<1>28. ASSUME NEW op \in Ops, SupervisorDies(op) PROVE FenceState'
  BY <1>28 DEF SupervisorDies, files, host, world, calls
<1>29. ASSUME NEW op \in Ops, CommandWrites(op) PROVE FenceState'
  BY <1>29 DEF CommandWrites, files, host, world, calls
<1>30. ASSUME NEW op \in Ops, CommandEnds(op) PROVE FenceState'
  BY <1>30 DEF CommandEnds, files, host, world, calls
<1>31. ASSUME NEW a \in Attempts, ProducerEdits(a) PROVE FenceState'
  BY <1>31 DEF ProducerEdits, files, host, world, calls
<1>32. ASSUME NEW a \in Attempts, LeaseChanges(a) PROVE FenceState'
  BY <1>32 DEF LeaseChanges, files, host, world, calls
<1>33. ASSUME NEW a \in Attempts, OccupancyChanges(a) PROVE FenceState'
  BY <1>33 DEF OccupancyChanges, files, host, world, calls
<1>34. ASSUME NEW a \in Attempts, AttestationExpires(a) PROVE FenceState'
  BY <1>34 DEF AttestationExpires, files, host, world, calls
<1>35. CASE UNCHANGED vars
  BY <1>35 DEF vars, files, host, world, calls
<1>36. ASSUME NEW p \in Procs, Calls(p) PROVE FenceState'
  BY <1>1, <1>36 DEF Calls, execute_call, handoff_call, attest_call, effect_call, Called
<1> QED
  BY <1>2, <1>3, <1>4, <1>5, <1>6, <1>7, <1>8, <1>9, <1>10, <1>11, <1>12,
     <1>13, <1>14, <1>15, <1>16, <1>17, <1>18, <1>19, <1>20, <1>21, <1>22,
     <1>23, <1>24, <1>25, <1>26, <1>27, <1>28, <1>29, <1>30, <1>31, <1>32,
     <1>33, <1>34, <1>35, <1>36
  DEF Next, Execute, Handoff, Attest, Effect, Supervise, Surroundings

\* The ref is created once and the record names what it holds.
LEMMA PinStep == IInv /\ [Next]_vars => PinState'
<1> SUFFICES ASSUME IInv, [Next]_vars PROVE PinState'
  OBVIOUS
<1> USE AttemptOfAssumption, NoneAssumption
     DEF IInv, TypeOK, CallState, FenceState, PinState, MarkerIsPinned, Steps, Called,
         Executing, Exclusive, Fenced, Handing
<1>1. ASSUME NEW p \in Procs, NEW step \in Called, NEW op \in Ops \cup {None},
             NEW a \in Attempts, Call(p, step, op, a),
             step = "execute_called" => op \in Ops /\ a = attempt_of[op]
      PROVE  PinState'
  BY <1>1 DEF Call, files, host, world, calls
<1>2. ASSUME NEW p \in Procs, execute_lock(p) PROVE PinState'
  BY <1>2 DEF execute_lock, Goto, Return, OpLocked, files, host, world, calls
<1>3. ASSUME NEW p \in Procs, execute_fence(p) PROVE PinState'
  BY <1>3 DEF execute_fence, Goto, Return, AttemptLocked, files, host, world, calls
<1>4. ASSUME NEW p \in Procs, execute_intent(p) PROVE PinState'
  BY <1>4 DEF execute_intent, Goto, Return, write, files, host, world, calls
<1>5. ASSUME NEW p \in Procs, execute_launch(p) PROVE PinState'
  BY <1>5 DEF execute_launch, Goto, Return, write, files, host, world, calls
<1>6. ASSUME NEW p \in Procs, execute_identify(p) PROVE PinState'
  BY <1>6
     DEF execute_identify, Goto, Return, write, stop_supervisor, files, host, world,
         calls
<1>7. ASSUME NEW p \in Procs, execute_unidentified(p) PROVE PinState'
  BY <1>7
     DEF execute_unidentified, Return, write, stop_supervisor, files, host, world, calls
<1>8. ASSUME NEW p \in Procs, execute_send(p) PROVE PinState'
  BY <1>8 DEF execute_send, Goto, Return, stop_supervisor, files, host, world, calls
<1>9. ASSUME NEW p \in Procs, execute_report(p) PROVE PinState'
  BY <1>9 DEF execute_report, Goto, Return, write, files, host, world, calls
<1>10. ASSUME NEW p \in Procs, execute_timeout(p) PROVE PinState'
  BY <1>10 DEF execute_timeout, Return, stop_supervisor, files, host, world, calls
<1>11. ASSUME NEW p \in Procs, execute_conclude(p) PROVE PinState'
  BY <1>11 DEF execute_conclude, Return, write, files, host, world, calls
<1>12. ASSUME NEW p \in Procs, handoff_lock(p) PROVE PinState'
  BY <1>12 DEF handoff_lock, Goto, Return, AttemptLocked, files, host, world, calls
<1>13. ASSUME NEW p \in Procs, handoff_snapshot(p) PROVE PinState'
  BY <1>13 DEF handoff_snapshot, Return, files, host, world, calls
<1>14. ASSUME NEW p \in Procs, handoff_pin(p) PROVE PinState'
  BY <1>14 DEF handoff_pin, Goto, Return, files, host, world, calls
<1>15. ASSUME NEW p \in Procs, handoff_reread(p) PROVE PinState'
  BY <1>15 DEF handoff_reread, Goto, Return, files, host, world, calls
<1>16. ASSUME NEW p \in Procs, handoff_record(p) PROVE PinState'
  BY <1>16 DEF handoff_record, Return, files, host, world, calls
<1>17. ASSUME NEW p \in Procs, attest_observe(p) PROVE PinState'
  BY <1>17 DEF attest_observe, Return, AttemptLocked, files, host, world, calls
<1>18. ASSUME NEW p \in Procs, attest_record(p) PROVE PinState'
  BY <1>18 DEF attest_record, Return, files, host, world, calls
<1>19. ASSUME NEW p \in Procs, fence_authoring_effect(p) PROVE PinState'
  BY <1>19
     DEF fence_authoring_effect, Goto, Return, AttemptLocked, files, host, world, calls
<1>20. ASSUME NEW p \in Procs, GitEffect(p) PROVE PinState'
  BY <1>20 DEF GitEffect, files, host, world, calls
<1>21. ASSUME NEW p \in Procs, GitEffectDone(p) PROVE PinState'
  BY <1>21 DEF GitEffectDone, Return, files, host, world, calls
<1>22. ASSUME NEW p \in Procs, Crash(p) PROVE PinState'
  BY <1>22 DEF Crash, Return, files, host, world, calls
<1>23. ASSUME NEW op \in Ops, supervisor_unasked(op) PROVE PinState'
  BY <1>23 DEF supervisor_unasked, files, host, world, calls
<1>24. ASSUME NEW op \in Ops, supervisor_refuses(op) PROVE PinState'
  BY <1>24 DEF supervisor_refuses, files, host, world, calls
<1>25. ASSUME NEW op \in Ops, run_command_tree(op) PROVE PinState'
  BY <1>25 DEF run_command_tree, files, host, world, calls
<1>26. ASSUME NEW op \in Ops, supervisor_completes(op) PROVE PinState'
  BY <1>26 DEF supervisor_completes, files, host, world, calls
<1>27. ASSUME NEW op \in Ops, supervisor_unresolved(op) PROVE PinState'
  BY <1>27 DEF supervisor_unresolved, files, host, world, calls
<1>28. ASSUME NEW op \in Ops, SupervisorDies(op) PROVE PinState'
  BY <1>28 DEF SupervisorDies, files, host, world, calls
<1>29. ASSUME NEW op \in Ops, CommandWrites(op) PROVE PinState'
  BY <1>29 DEF CommandWrites, files, host, world, calls
<1>30. ASSUME NEW op \in Ops, CommandEnds(op) PROVE PinState'
  BY <1>30 DEF CommandEnds, files, host, world, calls
<1>31. ASSUME NEW a \in Attempts, ProducerEdits(a) PROVE PinState'
  BY <1>31 DEF ProducerEdits, files, host, world, calls
<1>32. ASSUME NEW a \in Attempts, LeaseChanges(a) PROVE PinState'
  BY <1>32 DEF LeaseChanges, files, host, world, calls
<1>33. ASSUME NEW a \in Attempts, OccupancyChanges(a) PROVE PinState'
  BY <1>33 DEF OccupancyChanges, files, host, world, calls
<1>34. ASSUME NEW a \in Attempts, AttestationExpires(a) PROVE PinState'
  BY <1>34 DEF AttestationExpires, files, host, world, calls
<1>35. CASE UNCHANGED vars
  BY <1>35 DEF vars, files, host, world, calls
<1>36. ASSUME NEW p \in Procs, Calls(p) PROVE PinState'
  BY <1>1, <1>36 DEF Calls, execute_call, handoff_call, attest_call, effect_call, Called
<1> QED
  BY <1>2, <1>3, <1>4, <1>5, <1>6, <1>7, <1>8, <1>9, <1>10, <1>11, <1>12,
     <1>13, <1>14, <1>15, <1>16, <1>17, <1>18, <1>19, <1>20, <1>21, <1>22,
     <1>23, <1>24, <1>25, <1>26, <1>27, <1>28, <1>29, <1>30, <1>31, <1>32,
     <1>33, <1>34, <1>35, <1>36
  DEF Next, Execute, Handoff, Attest, Effect, Supervise, Surroundings

-----------------------------------------------------------------------------
LEMMA InitInvariant == Init => IInv
<1> SUFFICES ASSUME Init PROVE IInv
  OBVIOUS
<1> USE AttemptOfAssumption, NoneAssumption DEF Init
<1>1. TypeOK
  BY DEF TypeOK, Journal, Supervisor, Report, Steps
<1>2. CallState /\ StepState /\ OpState
  BY DEF CallState, StepState, OpState, Executing, Exclusive, Fenced, Handing
<1>3. FenceState /\ PinState
  BY DEF FenceState, PinState, MarkerIsPinned, FencedOff, Terminal, Fenced, Handing
<1> QED
  BY <1>1, <1>2, <1>3 DEF IInv

\* The inductive invariant holds in every reachable state.
THEOREM Invariance == Spec => []IInv
<1>1. IInv /\ [Next]_vars => IInv'
  BY TypeStep, CallStep, StepStep, OpStep, FenceStep, PinStep DEF IInv
<1> QED
  BY InitInvariant, <1>1, PTL DEF Spec

\* The types of the state hold in every reachable state.
THEOREM TypeCorrect == Spec => []TypeOK
<1>1. IInv => TypeOK
  BY DEF IInv
<1> QED
  BY Invariance, <1>1, PTL

\* An authored command runs at most once, whatever crashes and retries do to
\* the calls of execute.
THEOREM RunsOnce == Spec => []AtMostOnce
<1>1. IInv => AtMostOnce
  BY DEF IInv, OpState, AtMostOnce
<1> QED
  BY Invariance, <1>1, PTL

\* What the command journal says of an ended command is true of its processes.
THEOREM JournalTruth == Spec => []JournalIsTrue
<1>1. IInv => JournalIsTrue
  BY DEF IInv, OpState, JournalIsTrue
<1> QED
  BY Invariance, <1>1, PTL

\* No command and no authoring git effect is under way behind the fence.
THEOREM FenceSafety == Spec => []FenceHolds
<1>1. IInv => FenceHolds
  BY AttemptOfAssumption DEF IInv, OpState, FenceState, FenceHolds, Terminal
<1> QED
  BY Invariance, <1>1, PTL

\* A durable handoff record names the commit its ref pins.
THEOREM PinSafety == Spec => []MarkerIsPinned
<1>1. IInv => MarkerIsPinned
  BY DEF IInv, PinState
<1> QED
  BY Invariance, <1>1, PTL

-----------------------------------------------------------------------------
(* The fence is final, and the promise of EffectFence is kept.             *)

\* The only steps that touch the process tree, the fences or the pin.
LEMMA Frame ==
    ASSUME [Next]_vars
    PROVE  \/ UNCHANGED <<live, runs, attestation, marker, pin>>
           \/ \E p \in Procs : handoff_pin(p) \/ handoff_record(p) \/ attest_record(p)
           \/ \E op \in Ops : run_command_tree(op) \/ CommandEnds(op)
<1> DEFINE Still == UNCHANGED <<live, runs, attestation, marker, pin>>
<1>1. CASE UNCHANGED vars
  BY <1>1 DEF vars, files, host
<1>2. ASSUME NEW p \in Procs, Calls(p) PROVE Still
  BY <1>2 DEF Calls, execute_call, handoff_call, attest_call, effect_call, Call, files, host
<1>3. ASSUME NEW p \in Procs, Execute(p) PROVE Still
  BY <1>3 DEF Execute, execute_lock, execute_fence, execute_intent, execute_launch,
              execute_identify, execute_unidentified, execute_send, execute_report,
              execute_timeout, execute_conclude, files, host
<1>4. ASSUME NEW p \in Procs, handoff_lock(p) \/ handoff_snapshot(p) \/ handoff_reread(p)
      PROVE  Still
  BY <1>4 DEF handoff_lock, handoff_snapshot, handoff_reread, files, host
<1>5. ASSUME NEW p \in Procs,
             attest_observe(p) \/ Effect(p) \/ GitEffect(p) \/ Crash(p)
      PROVE  Still
  BY <1>5
     DEF attest_observe, Effect, fence_authoring_effect, GitEffect, GitEffectDone,
         Crash,
              files, host
<1>6. ASSUME NEW op \in Ops,
             \/ supervisor_unasked(op) \/ supervisor_refuses(op) \/ supervisor_completes(op)
             \/ supervisor_unresolved(op) \/ SupervisorDies(op) \/ CommandWrites(op)
      PROVE  Still
  BY <1>6 DEF supervisor_unasked, supervisor_refuses, supervisor_completes,
              supervisor_unresolved, SupervisorDies, CommandWrites, files, host
<1>7. ASSUME NEW a \in Attempts, Surroundings(a) PROVE Still
  BY <1>7 DEF Surroundings, ProducerEdits, LeaseChanges, OccupancyChanges,
              AttestationExpires, files, host
<1> QED
  BY <1>1, <1>2, <1>3, <1>4, <1>5, <1>6, <1>7 DEF Next, Handoff, Attest, Supervise

\* A handoff record, its ref and an attestation, once there, never change.
THEOREM FinalFence == Spec => FenceIsFinal
<1> DEFINE Final == \A a \in Attempts :
                       /\ marker[a] # None => marker'[a] = marker[a]
                       /\ pin[a] # None => pin'[a] = pin[a]
                       /\ attestation[a] # None => attestation'[a] = attestation[a]
<1>1. IInv /\ [Next]_vars => Final
  <2> SUFFICES ASSUME IInv, [Next]_vars PROVE Final
    OBVIOUS
  <2> USE DEF IInv, TypeOK, CallState
  <2>1. ASSUME NEW p \in Procs, handoff_pin(p) PROVE Final
    BY <2>1 DEF handoff_pin
  <2>2. ASSUME NEW p \in Procs, handoff_record(p) PROVE Final
    BY <2>2 DEF handoff_record, FenceState, Handing
  <2>3. ASSUME NEW p \in Procs, attest_record(p) PROVE Final
    BY <2>3 DEF attest_record
  <2>4. ASSUME NEW op \in Ops, run_command_tree(op) \/ CommandEnds(op) PROVE Final
    BY <2>4 DEF run_command_tree, CommandEnds, files
  <2> QED
    BY <2>1, <2>2, <2>3, <2>4, Frame
<1>2. IInv /\ [Next]_vars => [Final]_vars
  BY <1>1
<1> QED
  BY Invariance, <1>2, PTL DEF Spec, FenceIsFinal

\* The executor, its journal and its fences implement EffectFence: the argv of
\* an operation starts at most once and never behind the fence, and the fence
\* goes up only when nothing of the attempt runs.
THEOREM FenceRefinement == Spec => ImplementsFence
<1> DEFINE running == {op \in Ops : live[op]}
           spent == {op \in Ops : runs[op] > 0}
           fenced == {a \in Attempts : FencedOff(a)}
<1>1. Init => Promise!Init
  BY DEF Init, Promise!Init, FencedOff
<1>2. IInv /\ [Next]_vars => [Promise!Next]_(Promise!vars)
  <2> SUFFICES ASSUME IInv, [Next]_vars
               PROVE  Promise!Next \/ UNCHANGED <<running, spent, fenced>>
    BY DEF Promise!vars
  <2> USE AttemptOfAssumption DEF IInv, TypeOK
  <2>1. CASE UNCHANGED <<live, runs, attestation, marker, pin>>
    BY <2>1 DEF FencedOff
  <2>2. ASSUME NEW p \in Procs, handoff_pin(p)
        PROVE  UNCHANGED <<running, spent, fenced>>
    BY <2>2 DEF handoff_pin, host, FencedOff
  <2>3. ASSUME NEW p \in Procs, handoff_record(p) PROVE Promise!Next
    <3>1. att[p] \in Attempts /\ seen[p].tree \in Sources
      BY <2>3 DEF handoff_record, CallState, Sight
    <3>2. Promise!Of(att[p]) \cap running = {}
      BY <2>3, <3>1 DEF handoff_record, FenceState, Handing, OpState, Terminal, Promise!Of
    <3>3. fenced' = fenced \cup {att[p]} /\ UNCHANGED <<running, spent>>
      BY <2>3, <3>1, NoneAssumption DEF handoff_record, host, FencedOff
    <3> QED
      BY <3>1, <3>2, <3>3 DEF Promise!Next, Promise!Fence
  <2>4. ASSUME NEW p \in Procs, attest_record(p)
        PROVE  Promise!Next \/ UNCHANGED <<running, spent, fenced>>
    <3>1. att[p] \in Attempts /\ seen[p] \in Sight /\ UNCHANGED <<marker, host>>
      BY <2>4 DEF attest_record, CallState
    <3>2. CASE UNCHANGED attestation
      BY <3>1, <3>2 DEF host, FencedOff
    <3>3. CASE /\ command_journal_clear(att[p])
               /\ attestation' = [attestation EXCEPT ![att[p]] = seen[p]]
      <4>1. Promise!Of(att[p]) \cap running = {}
        BY <3>1, <3>3 DEF command_journal_clear, OpState, Terminal, Promise!Of
      <4>2. seen[p] # None
        BY <3>1, SightAssumption
      <4>3. fenced' = fenced \cup {att[p]} /\ UNCHANGED <<running, spent>>
        BY <3>1, <3>3, <4>2 DEF host, FencedOff
      <4> QED
        BY <3>1, <4>1, <4>3 DEF Promise!Next, Promise!Fence
    <3> QED
      BY <2>4, <3>2, <3>3 DEF attest_record
  <2>5. ASSUME NEW op \in Ops, run_command_tree(op) PROVE Promise!Next
    <3>1. runs[op] = 0 /\ journal[op] = "running"
      BY <2>5 DEF run_command_tree, OpState
    <3>2. op \notin spent /\ attempt_of[op] \notin fenced
      BY <3>1 DEF FenceState, Terminal
    <3>3. /\ running' = running \cup {op}
          /\ spent' = spent \cup {op}
          /\ UNCHANGED fenced
      BY <2>5, <3>1 DEF run_command_tree, files, FencedOff
    <3> QED
      BY <3>2, <3>3 DEF Promise!Next, Promise!Start
  <2>6. ASSUME NEW op \in Ops, CommandEnds(op) PROVE Promise!Next
    <3>1. op \in running /\ running' = running \ {op} /\ UNCHANGED <<spent, fenced>>
      BY <2>6 DEF CommandEnds, files, FencedOff
    <3> QED
      BY <3>1 DEF Promise!Next, Promise!Stop
  <2> QED
    BY <2>1, <2>2, <2>3, <2>4, <2>5, <2>6, Frame
<1> QED
  BY Invariance, <1>1, <1>2, PTL DEF Spec, ImplementsFence, Promise!Spec

=============================================================================
