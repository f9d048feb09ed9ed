----------------------- MODULE SessionCredentialsProofs -----------------------
(***************************************************************************)
(* Proofs about SessionCredentials: child actors stay bound to one         *)
(* execution, for any number of callers, executions, crashes and minted    *)
(* subjects and for every size of the issuer's tables.                     *)
(***************************************************************************)
EXTENDS SessionCredentials, SequenceTheorems, TLAPS

Subjects == [e : Execs, actor : 1..MaxMinted]

LEMMA CredentialsInit == Init => IInv
<1> SUFFICES ASSUME Init PROVE IInv
  OBVIOUS
<1>1. TypeOK
  BY CredentialAssumption, EmptySeq DEF CredentialAssumption, Init, TypeOK, Idle, NoActor
<1>2. Claims = {}
  BY DEF Init, Claims, Idle
<1>3. GrantsRecorded
  BY DEF Init, GrantsRecorded, Idle
<1> QED
  BY <1>1, <1>2, <1>3 DEF IInv, ClaimsAgree

\* A step that adds no claim keeps the agreement.
LEMMA NoNewClaim ==
    ASSUME ClaimsAgree, minted' = minted, Claims' \subseteq Claims
    PROVE  ClaimsAgree'
BY DEF ClaimsAgree

\* A call that takes a step which neither issues nor grants adds no claim.
LEMMA CallFrame ==
    ASSUME TypeOK, NEW c \in Callers, NEW k, k.pc \notin {"issued", "granted"},
           call' = [call EXCEPT ![c] = k], UNCHANGED <<child, subjects>>,
           store'.children \subseteq Claims \cup store.children
    PROVE  Claims' \subseteq Claims
<1>1. \A x \in Callers : call'[x].pc \in {"issued", "granted"} => call'[x] = call[x]
  BY DEF TypeOK
<1> QED
  BY <1>1 DEF Claims

\* The subjects of the issuer before and after a new one is taken in.
LEMMA SubjectsAfter ==
    ASSUME TypeOK, NEW e \in Execs, minted < MaxMinted,
           subjects' = Append(Room(subjects), [e |-> e, actor |-> minted + 1])
    PROVE  /\ subjects' \in Seq(Subjects) /\ Len(subjects') <= MaxSubjects
           /\ \E i \in 1..Len(subjects') : subjects'[i].e = e
           /\ \A i \in 1..Len(subjects') :
                 \/ subjects'[i] = [e |-> e, actor |-> minted + 1]
                 \/ \E j \in 1..Len(subjects) : subjects'[i] = subjects[j]
<1> DEFINE s == Room(subjects)  new == [e |-> e, actor |-> minted + 1]
<1>0. /\ subjects \in Seq(Subjects) /\ Len(subjects) \in Nat /\ Len(subjects) <= MaxSubjects
      /\ MaxSubjects \in Nat \ {0}
  BY CredentialAssumption, LenProperties DEF TypeOK, Subjects, CredentialAssumption
<1>1. new \in Subjects
  BY CredentialAssumption DEF TypeOK, Subjects, CredentialAssumption
<1>2. /\ s \in Seq(Subjects) /\ Len(s) \in Nat /\ Len(s) < MaxSubjects
      /\ \A i \in 1..Len(s) : \E j \in 1..Len(subjects) : s[i] = subjects[j]
  <2>1. CASE Len(subjects) >= MaxSubjects /\ subjects # <<>>
    <3>1. s = Tail(subjects)
      BY <2>1 DEF Room
    <3>2. /\ Tail(subjects) \in Seq(Subjects) /\ Len(Tail(subjects)) = Len(subjects) - 1
          /\ \A i \in 1..Len(Tail(subjects)) : Tail(subjects)[i] = subjects[i + 1]
      BY <1>0, <2>1, HeadTailProperties
    <3>3. Len(subjects) # 0
      BY <1>0, <2>1
    <3>4. \A i \in 1..Len(Tail(subjects)) : i + 1 \in 1..Len(subjects)
      BY <1>0, <3>2, <3>3
    <3> QED
      BY <1>0, <3>1, <3>2, <3>3, <3>4
  <2>2. CASE ~(Len(subjects) >= MaxSubjects /\ subjects # <<>>)
    <3>1. s = subjects
      BY <2>2 DEF Room
    <3>2. Len(subjects) < MaxSubjects
      <4>1. CASE subjects = <<>>
        BY <1>0, <4>1
      <4>2. CASE subjects # <<>>
        BY <1>0, <2>2, <4>2
      <4> QED
        BY <4>1, <4>2
    <3> QED
      BY <1>0, <3>1, <3>2
  <2> QED
    BY <2>1, <2>2
<1> HIDE DEF s, new
<1>3. subjects' = Append(s, new)
  BY DEF s, new
<1>4. /\ Append(s, new) \in Seq(Subjects) /\ Len(Append(s, new)) = Len(s) + 1
      /\ \A i \in 1..Len(s) : Append(s, new)[i] = s[i]
      /\ Append(s, new)[Len(s) + 1] = new
  BY <1>1, <1>2, AppendProperties
<1>5. ASSUME NEW i \in 1..Len(subjects')
      PROVE  subjects'[i] = new \/ \E j \in 1..Len(subjects) : subjects'[i] = subjects[j]
  <2>1. i = Len(s) + 1 \/ i \in 1..Len(s)
    BY <1>2, <1>3, <1>4
  <2> QED
    BY <1>2, <1>3, <1>4, <2>1
<1>6. Len(s) + 1 \in 1..Len(subjects') /\ subjects'[Len(s) + 1].e = e /\ Len(subjects') <= MaxSubjects
  BY <1>0, <1>2, <1>3, <1>4 DEF new
<1> QED
  BY <1>3, <1>4, <1>5, <1>6 DEF new

\* Issuing a credential: the actor is one that the issuer had for this
\* execution or one that nobody has.
LEMMA IssueStep ==
    ASSUME IInv, NEW c \in Callers, NEW e \in Execs, Issue(c, e)
    PROVE  IInv'
<1> DEFINE i == CHOOSE j \in 1..Len(subjects') : subjects'[j].e = e
           actor == subjects'[i].actor
           k == [pc |-> "issued", tool |-> "start", e |-> e, actor |-> actor]
<1>0. /\ TypeOK /\ minted \in 0..MaxMinted /\ MaxMinted \in Nat
      /\ call' = [call EXCEPT ![c] = k] /\ pending' = pending \cup {c}
      /\ UNCHANGED <<parent, child, store, faults>>
  BY CredentialAssumption DEF IInv, TypeOK, Issue, CredentialAssumption
<1>1. /\ subjects' \in Seq(Subjects) /\ Len(subjects') <= MaxSubjects
      /\ \E j \in 1..Len(subjects') : subjects'[j].e = e
      /\ minted' \in 0..MaxMinted /\ minted <= minted'
      /\ \A j \in 1..Len(subjects') :
            \/ <<subjects'[j].e, subjects'[j].actor>> \in Claims
            \/ /\ <<subjects'[j].e, subjects'[j].actor>> = <<e, minted + 1>>
               /\ minted' = minted + 1
  <2>1. CASE Bound(e)
    <3>1. subjects' = subjects /\ minted' = minted
      BY <2>1 DEF Issue, Subject
    <3>2. \A j \in 1..Len(subjects) : <<subjects[j].e, subjects[j].actor>> \in Claims
      BY DEF Claims
    <3> QED
      BY <1>0, <2>1, <3>1, <3>2 DEF TypeOK, Bound, Subjects
  <2>2. CASE ~Bound(e)
    <3>1. /\ minted < MaxMinted /\ minted' = minted + 1
          /\ subjects' = Append(Room(subjects), [e |-> e, actor |-> minted + 1])
      BY <2>2 DEF Issue, Subject
    <3>2. /\ subjects' \in Seq(Subjects) /\ Len(subjects') <= MaxSubjects
          /\ \E j \in 1..Len(subjects') : subjects'[j].e = e
          /\ \A j \in 1..Len(subjects') :
                \/ subjects'[j] = [e |-> e, actor |-> minted + 1]
                \/ \E m \in 1..Len(subjects) : subjects'[j] = subjects[m]
      BY <1>0, <3>1, SubjectsAfter
    <3>3. \A j \in 1..Len(subjects) : <<subjects[j].e, subjects[j].actor>> \in Claims
      BY DEF Claims
    <3>4. ASSUME NEW j \in 1..Len(subjects')
          PROVE  \/ <<subjects'[j].e, subjects'[j].actor>> \in Claims
                 \/ <<subjects'[j].e, subjects'[j].actor>> = <<e, minted + 1>>
      BY <3>2, <3>3
    <3>5. minted' \in 0..MaxMinted /\ minted <= minted'
      BY <1>0, <3>1
    <3> QED
      BY <3>1, <3>2, <3>4, <3>5
  <2> QED
    BY <2>1, <2>2
<1>2. i \in 1..Len(subjects') /\ subjects'[i].e = e
  BY <1>1
<1>3. actor \in 1..MaxMinted
  <2>1. subjects'[i] \in Subjects
    BY <1>1, <1>2, ElementOfSeq
  <2> QED
    BY <2>1 DEF Subjects
<1>4. \/ <<e, actor>> \in Claims
      \/ <<e, actor>> = <<e, minted + 1>> /\ minted' = minted + 1
  <2> HIDE DEF i
  <2>1. \/ <<subjects'[i].e, subjects'[i].actor>> \in Claims
        \/ /\ <<subjects'[i].e, subjects'[i].actor>> = <<e, minted + 1>>
           /\ minted' = minted + 1
    BY <1>1, <1>2
  <2> QED
    BY <1>2, <2>1
<1> HIDE DEF i, actor
<1>5. TypeOK'
  <2>1. call' \in [Callers -> [pc : {"idle", "dispatched", "finished", "issued", "granted", "rejected"},
                               tool : {"none", "dispatch", "finish", "start"} \cup ChildTools,
                               e : Execs \cup {NoExec}, actor : 0..MaxMinted]]
    BY <1>0, <1>3 DEF TypeOK
  <2> QED
    BY <1>0, <1>1, <2>1 DEF TypeOK, Subjects
<1>6. \A x \in Callers : call'[x] = IF x = c THEN k ELSE call[x]
  BY <1>0 DEF TypeOK
<1>7. ASSUME NEW x \in Claims'
      PROVE  x \in Claims \/ (x = <<e, minted + 1>> /\ minted' = minted + 1)
  <2>1. CASE x \in {<<subjects'[j].e, subjects'[j].actor>> : j \in 1..Len(subjects')}
    BY <1>1, <2>1
  <2>2. CASE x \in {<<call'[y].e, call'[y].actor>> :
                      y \in {z \in Callers : call'[z].pc \in {"issued", "granted"}}}
    <3>1. PICK y \in Callers : call'[y].pc \in {"issued", "granted"} /\ x = <<call'[y].e, call'[y].actor>>
      BY <2>2
    <3>2. CASE y = c
      BY <1>4, <1>6, <3>1, <3>2
    <3>3. CASE y # c
      BY <1>6, <3>1, <3>3 DEF Claims
    <3> QED
      BY <3>2, <3>3
  <2>3. CASE \/ x \in {<<y, child'[y].actor>> : y \in {z \in Execs : child'[z].actor # NoActor}}
             \/ x \in store'.children
    BY <1>0, <2>3 DEF Claims
  <2> QED
    BY <1>7, <2>1, <2>2, <2>3 DEF Claims
<1>8. ClaimsAgree'
  <2>1. \A x \in Claims : x[2] \in 1..minted
    BY DEF IInv, ClaimsAgree
  <2>2. ASSUME NEW x \in Claims', NEW y \in Claims'
        PROVE  x[2] \in 1..minted' /\ (x[2] = y[2] => x[1] = y[1])
    <3>1. x \in Claims \/ (x = <<e, minted + 1>> /\ minted' = minted + 1)
      BY <1>7
    <3>2. y \in Claims \/ (y = <<e, minted + 1>> /\ minted' = minted + 1)
      BY <1>7
    <3>3. CASE x \in Claims /\ y \in Claims
      BY <1>0, <1>1, <3>3 DEF IInv, ClaimsAgree
    <3>4. CASE x = <<e, minted + 1>> /\ minted' = minted + 1
      BY <1>0, <2>1, <3>2, <3>4
    <3>5. CASE x \in Claims /\ y = <<e, minted + 1>> /\ minted' = minted + 1
      BY <1>0, <2>1, <3>5
    <3> QED
      BY <3>1, <3>2, <3>3, <3>4, <3>5
  <2> QED
    BY <2>2 DEF ClaimsAgree
<1>9. GrantsRecorded'
  BY <1>0, <1>6 DEF IInv, GrantsRecorded
<1> QED
  BY <1>5, <1>8, <1>9 DEF IInv

\* The authority takes an actor for an execution that has none, and no other
\* one afterwards.
LEMMA AuthenticateStep ==
    ASSUME IInv, NEW c \in Callers, Authenticate(c)
    PROVE  IInv'
<1> DEFINE e == call[c].e
           actor == call[c].actor
           ok == c \in pending /\ child[e].actor \in {NoActor, actor}
<1>0. /\ TypeOK /\ GrantsRecorded /\ call[c].pc = "issued" /\ pending' = pending \ {c}
      /\ child' = IF ok THEN [child EXCEPT ![e] = [state |-> "active", actor |-> actor]] ELSE child
      /\ call' = [call EXCEPT ![c] = IF ok THEN [call[c] EXCEPT !.pc = "granted"] ELSE Idle]
      /\ UNCHANGED <<parent, store, subjects, minted, faults>>
  BY DEF IInv, Authenticate
<1>1. e \in Execs /\ <<e, actor>> \in Claims
  BY <1>0 DEF GrantsRecorded, Claims
<1>2. actor \in 1..minted /\ actor # NoActor /\ actor \in 0..MaxMinted
  <2>1. actor \in 1..minted
    BY <1>1 DEF IInv, ClaimsAgree
  <2> QED
    BY <1>0, <2>1 DEF TypeOK, NoActor
<1>3. CASE ok
  <2>1. /\ \A x \in Execs : child'[x] = IF x = e THEN [state |-> "active", actor |-> actor] ELSE child[x]
        /\ \A x \in Callers : call'[x] = IF x = c THEN [call[c] EXCEPT !.pc = "granted"] ELSE call[x]
    BY <1>0, <1>3 DEF TypeOK
  <2>2. /\ call'[c].pc = "granted" /\ call'[c].e = e /\ call'[c].actor = actor
        /\ call'[c] \in [pc : {"idle", "dispatched", "finished", "issued", "granted", "rejected"},
                         tool : {"none", "dispatch", "finish", "start"} \cup ChildTools,
                         e : Execs \cup {NoExec}, actor : 0..MaxMinted]
    <3>1. call'[c] = [call[c] EXCEPT !.pc = "granted"]
      BY <2>1
    <3>2. call[c] \in [pc : {"idle", "dispatched", "finished", "issued", "granted", "rejected"},
                       tool : {"none", "dispatch", "finish", "start"} \cup ChildTools,
                       e : Execs \cup {NoExec}, actor : 0..MaxMinted]
      BY <1>0 DEF TypeOK
    <3> QED
      BY <3>1, <3>2
  <2>3. TypeOK'
    BY <1>0, <1>1, <1>2, <1>3, <2>2 DEF TypeOK
  <2>4. Claims' \subseteq Claims
    <3>1. ASSUME NEW x \in Claims' PROVE x \in Claims
      <4>1. CASE \E y \in Callers : call'[y].pc \in {"issued", "granted"} /\ x = <<call'[y].e, call'[y].actor>>
        <5>1. PICK y \in Callers : call'[y].pc \in {"issued", "granted"} /\ x = <<call'[y].e, call'[y].actor>>
          BY <4>1
        <5>2. CASE y = c
          BY <1>1, <2>2, <5>1, <5>2
        <5>3. CASE y # c
          BY <2>1, <5>1, <5>3 DEF Claims
        <5> QED
          BY <5>2, <5>3
      <4>2. CASE \E y \in Execs : child'[y].actor # NoActor /\ x = <<y, child'[y].actor>>
        <5>1. PICK y \in Execs : child'[y].actor # NoActor /\ x = <<y, child'[y].actor>>
          BY <4>2
        <5>2. CASE y = e
          BY <1>1, <2>1, <5>1, <5>2
        <5>3. CASE y # e
          BY <2>1, <5>1, <5>3 DEF Claims
        <5> QED
          BY <5>2, <5>3
      <4>3. CASE x \in store.children \/ x \in {<<subjects[i].e, subjects[i].actor>> : i \in 1..Len(subjects)}
        BY <4>3 DEF Claims
      <4> QED
        BY <1>0, <3>1, <4>1, <4>2, <4>3 DEF Claims
    <3> QED
      BY <3>1
  <2>5. \A x \in Execs : child[x].actor # NoActor => child'[x].actor = child[x].actor
    BY <1>3, <2>1
  <2>6. GrantsRecorded'
    <3>1. ASSUME NEW x \in Callers, call'[x].pc \in {"issued", "granted"}
          PROVE  call'[x].e \in Execs /\ (call'[x].pc = "granted" => child'[call'[x].e].actor = call'[x].actor)
      <4>1. CASE x = c
        BY <1>1, <2>1, <2>2, <4>1
      <4>2. CASE x # c
        <5>1. call'[x] = call[x] /\ call[x].e \in Execs
          BY <1>0, <2>1, <3>1, <4>2 DEF GrantsRecorded
        <5>2. ASSUME call[x].pc = "granted" PROVE child'[call[x].e].actor = call[x].actor
          <6>1. child[call[x].e].actor = call[x].actor /\ <<call[x].e, call[x].actor>> \in Claims
            BY <1>0, <5>2 DEF GrantsRecorded, Claims
          <6>2. call[x].actor \in 1..minted
            BY <6>1 DEF IInv, ClaimsAgree
          <6>3. call[x].actor # NoActor
            BY <1>0, <6>2 DEF TypeOK, NoActor
          <6> QED
            BY <2>5, <5>1, <6>1, <6>3
        <5> QED
          BY <5>1, <5>2
      <4> QED
        BY <4>1, <4>2
    <3>2. ASSUME NEW b \in store.children PROVE child'[b[1]].actor = b[2]
      <4>1. b[1] \in Execs /\ b[2] \in 1..MaxMinted /\ child[b[1]].actor = b[2]
        BY <1>0 DEF TypeOK, GrantsRecorded
      <4>2. b[2] # NoActor
        BY <4>1 DEF NoActor
      <4> QED
        BY <2>5, <4>1, <4>2
    <3> QED
      BY <1>0, <3>1, <3>2 DEF GrantsRecorded
  <2> QED
    BY <1>0, <2>3, <2>4, <2>6, NoNewClaim DEF IInv
<1>4. CASE ~ok
  <2>1. child' = child /\ call' = [call EXCEPT ![c] = Idle]
    BY <1>0, <1>4
  <2>2. TypeOK'
    <3>1. Idle \in [pc : {"idle", "dispatched", "finished", "issued", "granted", "rejected"},
                    tool : {"none", "dispatch", "finish", "start"} \cup ChildTools,
                    e : Execs \cup {NoExec}, actor : 0..MaxMinted]
      BY CredentialAssumption DEF Idle, NoActor, CredentialAssumption
    <3>2. call' \in [Callers -> [pc : {"idle", "dispatched", "finished", "issued", "granted", "rejected"},
                                 tool : {"none", "dispatch", "finish", "start"} \cup ChildTools,
                                 e : Execs \cup {NoExec}, actor : 0..MaxMinted]]
      BY <2>1, <3>1 DEF IInv, TypeOK
    <3>3. pending' \subseteq Callers /\ UNCHANGED <<parent, store, subjects, minted, faults>>
      BY <1>0 DEF TypeOK
    <3> QED
      BY <2>1, <3>2, <3>3 DEF IInv, TypeOK
  <2>3. Claims' \subseteq Claims
    BY <1>0, <2>1, CallFrame DEF Idle
  <2>4. GrantsRecorded'
    BY <1>0, <2>1 DEF GrantsRecorded, TypeOK, Idle
  <2> QED
    BY <1>0, <2>2, <2>3, <2>4, NoNewClaim DEF IInv
<1> QED
  BY <1>3, <1>4

\* The other steps of a call: nothing is claimed that was not.
LEMMA CallStep ==
    ASSUME IInv, NEW c \in Callers, NEW k,
           k \in [pc : {"idle", "dispatched", "finished", "rejected"},
                  tool : {"none", "dispatch", "finish", "start"} \cup ChildTools,
                  e : Execs \cup {NoExec}, actor : 0..MaxMinted],
           call' = [call EXCEPT ![c] = k],
           parent' \in {"none", "active", "finished"}, faults' \in 0..MaxFaults,
           store' \in [attempt : BOOLEAN, children : SUBSET (Execs \X (1..MaxMinted))],
           \A b \in store'.children :
              \/ b \in store.children
              \/ call[c].pc = "granted" /\ b = <<call[c].e, call[c].actor>>,
           UNCHANGED <<child, subjects, pending, minted>>
    PROVE  IInv'
<1>0. TypeOK /\ GrantsRecorded /\ ClaimsAgree
  BY DEF IInv
<1>1. TypeOK'
  BY <1>0 DEF TypeOK
<1>2. store'.children \subseteq Claims
  BY DEF Claims
<1>3. Claims' \subseteq Claims
  BY <1>0, <1>2, CallFrame
<1>4. GrantsRecorded'
  <2>1. \A x \in Callers : call'[x].pc \in {"issued", "granted"} => call'[x] = call[x]
    BY <1>0 DEF TypeOK
  <2>2. \A b \in store'.children : child[b[1]].actor = b[2]
    BY <1>0 DEF GrantsRecorded
  <2> QED
    BY <1>0, <2>1, <2>2 DEF GrantsRecorded
<1> QED
  BY <1>0, <1>1, <1>3, <1>4, NoNewClaim DEF IInv

LEMMA CredentialsStep == IInv /\ [Next]_vars => IInv'
<1> SUFFICES ASSUME IInv, [Next]_vars PROVE IInv'
  OBVIOUS
<1>0. TypeOK /\ GrantsRecorded /\ ClaimsAgree /\ MaxFaults \in Nat /\ MaxMinted \in Nat
  BY CredentialAssumption DEF IInv, CredentialAssumption
<1> DEFINE CallType == [pc : {"idle", "dispatched", "finished", "rejected"},
                        tool : {"none", "dispatch", "finish", "start"} \cup ChildTools,
                        e : Execs \cup {NoExec}, actor : 0..MaxMinted]
<1>a. Idle \in CallType
  BY <1>0 DEF Idle, NoActor
<1>1. ASSUME NEW c \in Callers, Dispatch(c) PROVE IInv'
  <2>1. [Idle EXCEPT !.pc = "dispatched", !.tool = "dispatch"] \in CallType
    BY <1>a DEF Idle
  <2> QED
    BY <1>0, <1>1, <2>1, CallStep DEF Dispatch, TypeOK
<1>2. ASSUME NEW c \in Callers, StoreAttemptBearer(c) PROVE IInv'
  <2>1. store' \in [attempt : BOOLEAN, children : SUBSET (Execs \X (1..MaxMinted))]
        /\ store'.children = store.children
    BY <1>0, <1>2 DEF StoreAttemptBearer, TypeOK
  <2> QED
    BY <1>0, <1>a, <1>2, <2>1, CallStep DEF StoreAttemptBearer, TypeOK
<1>3. ASSUME NEW c \in Callers, Finish(c) PROVE IInv'
  <2>1. [Idle EXCEPT !.pc = "finished", !.tool = "finish"] \in CallType
    BY <1>a DEF Idle
  <2> QED
    BY <1>0, <1>3, <2>1, CallStep DEF Finish, TypeOK
<1>4. ASSUME NEW c \in Callers, ForgetAttemptBearer(c) PROVE IInv'
  <2>1. store' \in [attempt : BOOLEAN, children : SUBSET (Execs \X (1..MaxMinted))]
        /\ store'.children = store.children
    BY <1>0, <1>4 DEF ForgetAttemptBearer, TypeOK
  <2> QED
    BY <1>0, <1>a, <1>4, <2>1, CallStep DEF ForgetAttemptBearer, TypeOK
<1>5. ASSUME NEW c \in Callers, StoreChildBearer(c) PROVE IInv'
  <2>1. <<call[c].e, call[c].actor>> \in Execs \X (1..MaxMinted)
    <3>1. call[c].e \in Execs /\ <<call[c].e, call[c].actor>> \in Claims
      BY <1>0, <1>5 DEF StoreChildBearer, GrantsRecorded, Claims
    <3>2. call[c].actor \in 1..minted
      BY <1>0, <3>1 DEF ClaimsAgree
    <3> QED
      BY <1>0, <3>1, <3>2 DEF TypeOK
  <2>2. /\ store' \in [attempt : BOOLEAN, children : SUBSET (Execs \X (1..MaxMinted))]
        /\ store'.children = store.children \cup {<<call[c].e, call[c].actor>>}
        /\ call[c].pc = "granted"
    BY <1>0, <1>5, <2>1 DEF StoreChildBearer, TypeOK
  <2> QED
    BY <1>0, <1>a, <1>5, <2>2, CallStep DEF StoreChildBearer, TypeOK
<1>6. ASSUME NEW c \in Callers, Answer(c) \/ StoreFails(c) PROVE IInv'
  <2>1. /\ call' = [call EXCEPT ![c] = Idle] /\ faults' \in 0..MaxFaults
        /\ UNCHANGED <<parent, child, store, subjects, pending, minted>>
    BY <1>0, <1>6 DEF Answer, StoreFails, Fault, TypeOK
  <2> QED
    BY <1>0, <1>a, <2>1, CallStep DEF TypeOK
<1>7. ASSUME NEW c \in Callers, NEW e \in Execs, NEW tool \in ChildTools, ChildOperation(c, e, tool) PROVE IInv'
  <2>1. [pc |-> "rejected", tool |-> tool, e |-> e, actor |-> NoActor] \in CallType
    BY <1>0 DEF NoActor
  <2> QED
    BY <1>0, <1>7, <2>1, CallStep DEF ChildOperation, TypeOK
<1>8. ASSUME NEW c \in Callers, CredentialExpires(c) PROVE IInv'
  <2>1. UNCHANGED <<parent, child, store, subjects, call, minted>> /\ pending' \subseteq pending
        /\ faults' \in 0..MaxFaults
    BY <1>0, <1>8 DEF CredentialExpires, Fault, TypeOK
  <2>2. Claims' = Claims
    BY <2>1 DEF Claims
  <2> QED
    BY <1>0, <2>1, <2>2, NoNewClaim DEF IInv, TypeOK, GrantsRecorded
<1>9. CASE Crash
  <2>1. /\ UNCHANGED <<parent, child, store, minted>> /\ pending' = {} /\ subjects' = <<>>
        /\ call' = [c \in Callers |-> Idle] /\ faults' \in 0..MaxFaults
    BY <1>0, <1>9 DEF Crash, Fault, TypeOK
  <2>2. Claims' \subseteq Claims
    BY <2>1 DEF Claims, Idle
  <2>3. TypeOK'
    BY <1>0, <2>1, CredentialAssumption, EmptySeq DEF TypeOK, Idle, NoActor, CredentialAssumption
  <2>4. GrantsRecorded'
    BY <1>0, <2>1 DEF GrantsRecorded, Idle
  <2> QED
    BY <1>0, <2>1, <2>2, <2>3, <2>4, NoNewClaim DEF IInv
<1>10. CASE UNCHANGED vars
  BY <1>10 DEF vars, IInv, TypeOK, ClaimsAgree, GrantsRecorded, Claims
<1> QED
  BY <1>1, <1>2, <1>3, <1>4, <1>5, <1>6, <1>7, <1>8, <1>9, <1>10, IssueStep, AuthenticateStep DEF Next

\* After any crashes, expiries, evictions and repeated starts the issuer's
\* tables are within their limits, no two executions share an actor, and every
\* bearer in the file is that of the actor which the authority recorded
\* (issue, start_child, store_child_bearer).
THEOREM ActorsBelongToOneExecution == Spec => []CredentialInv
<1>1. IInv => CredentialInv
  <2> SUFFICES ASSUME IInv PROVE ActorPerExecution
    BY DEF IInv, CredentialInv
  <2>1. ASSUME NEW x \in Execs, NEW y \in Execs, child[x].actor = child[y].actor, child[x].actor # NoActor
        PROVE  x = y
    <3>1. <<x, child[x].actor>> \in Claims /\ <<y, child[y].actor>> \in Claims
      BY <2>1 DEF Claims
    <3> QED
      BY <2>1, <3>1 DEF IInv, ClaimsAgree
  <2> QED
    BY <2>1 DEF IInv, GrantsRecorded, ActorPerExecution
<1> QED
  BY <1>1, CredentialsInit, CredentialsStep, PTL DEF Spec
=============================================================================
