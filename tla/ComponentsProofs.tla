-------------------------- MODULE ComponentsProofs --------------------------
(***************************************************************************)
(* Proofs about the components that MCComponents puts together: the packet *)
(* store (PacketStore) and the metadata store (MetadataStore), for every   *)
(* set of packets, owners, notes, declarations and operations and for      *)
(* every limit; the resource authorities (ResourceAuthority) and the       *)
(* routing migration (Migration), for every set of attempts, GPUs, front   *)
(* doors and requests and any number of restarts, switches and crashes.    *)
(***************************************************************************)
EXTENDS MCComponents, FiniteSetTheorems, SequenceTheorems, TLAPS

-----------------------------------------------------------------------------
(* The packet store: liveness of packets *)

LEMMA PacketConstants == P!PacketAssumption
BY ComponentAssumptions DEF ComponentAssumptions

\* The counting operators of the instances are those of FiniteSets.
LEMMA Counting ==
    /\ \A S : P!IsFiniteSet(S) = IsFiniteSet(S) /\ P!Cardinality(S) = Cardinality(S)
    /\ \A S : D!Cardinality(S) = Cardinality(S)
BY DEF P!IsFiniteSet, P!Cardinality, IsFiniteSet, Cardinality, D!Cardinality

\* The roots are alive, and what is alive has live parents.
LEMMA LiveClosed ==
    ASSUME P!TypeOK
    PROVE  /\ P!Roots \subseteq P!live_ids
           /\ \A p \in P!live_ids : p \in Packets /\ rows[p].parents \subseteq P!live_ids
<1>1. P!Roots \subseteq Packets
  BY DEF P!TypeOK, P!Roots
<1>2. P!Roots \subseteq P!live_ids
  BY <1>1 DEF P!live_ids
<1>3. ASSUME NEW p \in P!live_ids, NEW q \in rows[p].parents PROVE q \in P!live_ids
  <2>1. p \in Packets /\ q \in Packets
    BY <1>3 DEF P!live_ids, P!TypeOK
  <2>2. ASSUME NEW S \in SUBSET Packets, P!Roots \subseteq S, P!ParentClosed(S) PROVE q \in S
    BY <1>3, <2>2 DEF P!live_ids, P!ParentClosed
  <2> QED
    BY <2>1, <2>2 DEF P!live_ids
<1> QED
  BY <1>2, <1>3 DEF P!live_ids

\* What is alive is stored.
LEMMA LiveStored ==
    ASSUME P!TypeOK, P!Rooted
    PROVE  \A p \in P!live_ids : P!Stored(p)
<1> DEFINE S == {p \in Packets : P!Stored(p)}
<1>1. P!Roots \subseteq S
  BY DEF P!TypeOK, P!Rooted, P!Roots
<1>2. P!ParentClosed(S)
  BY DEF P!TypeOK, P!Rooted, P!ParentClosed
<1> QED
  BY <1>1, <1>2 DEF P!live_ids

-----------------------------------------------------------------------------
(* The packet store: the retention table *)

\* A finite, totally ordered set that is not empty has an oldest element.
LEMMA OldestExists ==
    ASSUME NEW K, IsFiniteSet(K), K # {}, NEW order, P!TotalOrder(order, K)
    PROVE  \E x \in K : \A y \in K \ {x} : <<x, y>> \in order
<1> DEFINE older(x) == {y \in K : <<y, x>> \in order}
           T == {older(x) : x \in K}
<1>1. IsWellFoundedOn(StrictSubsetOrdering(K), SUBSET K)
  BY FS_StrictSubsetOrderingWellFounded, FS_FiniteSubsetsOfFinite
<1>2. T \subseteq SUBSET K /\ T # {}
  <2>1. PICK x : x \in K
    OBVIOUS
  <2>2. older(x) \in T
    BY <2>1
  <2> QED
    BY <2>2
<1>3. PICK U \in T : \A V \in T : ~ (<<V, U>> \in StrictSubsetOrdering(K))
  <2> HIDE DEF T
  <2> QED
    BY <1>1, <1>2, WFMin
<1>4. PICK x \in K : \A y \in K : ~ (<<older(y), older(x)>> \in StrictSubsetOrdering(K))
  <2>1. PICK x \in K : U = older(x)
    BY <1>3
  <2>2. ASSUME NEW y \in K PROVE older(y) \in T
    OBVIOUS
  <2> HIDE DEF older, T
  <2> QED
    BY <1>3, <2>1, <2>2
<1>5. ASSUME NEW y \in K, <<y, x>> \in order PROVE FALSE
  <2>1. older(y) \subseteq older(x) /\ y \in older(x) /\ y \notin older(y)
    BY <1>5 DEF P!TotalOrder
  <2>2. <<older(y), older(x)>> \in StrictSubsetOrdering(K)
    BY <2>1 DEF StrictSubsetOrdering
  <2> QED
    BY <1>4, <2>2
<1> QED
  BY <1>5 DEF P!TotalOrder

\* Dropping the surplus leaves no more finished jobs than the limit.
LEMMA SurplusBounds ==
    ASSUME NEW table \in [Owners -> {"none", "running", "terminal"}], NEW order,
           IsFiniteSet(P!Retained(table)), P!TotalOrder(order, P!Retained(table))
    PROVE  Cardinality({o \in Owners : table[o] = "terminal" /\ o \notin P!Surplus(table, order)})
              <= recent_terminal_limit
<1> DEFINE K == {o \in Owners : table[o] = "terminal" /\ o \notin P!Surplus(table, order)}
<1>0. recent_terminal_limit \in Nat
  BY PacketConstants DEF P!PacketAssumption
<1>1. K \subseteq P!Retained(table) /\ IsFiniteSet(K)
  <2>1. K \subseteq P!Retained(table)
    BY DEF P!Retained
  <2> QED
    BY <2>1, FS_Subset
<1>2. CASE K = {}
  BY <1>0, <1>2, FS_EmptySet
<1>3. CASE K # {}
  <2>1. PICK x \in K : \A y \in K \ {x} : <<x, y>> \in order
    <3> HIDE DEF K
    <3>1. P!TotalOrder(order, K)
      BY <1>1 DEF P!TotalOrder
    <3> QED
      BY <1>1, <1>3, <3>1, OldestExists
  <2> DEFINE N == P!Newer(table, order, x)
  <2>2. K \ {x} \subseteq N
    BY <2>1 DEF P!Newer
  <2>3. N \subseteq P!Retained(table)
    BY DEF P!Newer, P!Retained
  <2>4. IsFiniteSet(N) /\ Cardinality(K \ {x}) <= Cardinality(N)
    <3>1. IsFiniteSet(N)
      BY <2>3, FS_Subset
    <3> HIDE DEF N, K
    <3> QED
      BY <2>2, <3>1, FS_Subset
  <2>5. ~(Cardinality(N) >= recent_terminal_limit)
    <3>1. x \in Owners /\ table[x] = "terminal" /\ x \notin P!Surplus(table, order)
      BY <2>1
    <3> QED
      BY <3>1, Counting DEF P!Surplus
  <2>6. Cardinality(K \ {x}) = Cardinality(K) - 1 /\ Cardinality(K) \in Nat
    BY <1>1, <2>1, FS_RemoveElement, FS_CardinalityType
  <2>7. Cardinality(N) \in Nat
    BY <2>4, FS_CardinalityType
  <2> QED
    BY <1>0, <2>4, <2>5, <2>6, <2>7
<1> QED
  BY <1>2, <1>3
\* A job that is retained becomes the newest row of an ordered table, and the
\* rows that are left when the surplus goes are ordered and bounded.
LEMMA RetentionKept ==
    ASSUME P!IInv, NEW o \in Owners, NEW p \in Packets, NEW terminal \in BOOLEAN,
           P!RetainJob(o, {p}, terminal)
    PROVE  /\ retention' \in [Owners -> {"none", "running", "terminal"}]
           /\ updated' \subseteq P!Retained(retention') \X P!Retained(retention')
           /\ P!RetentionOrdered' /\ P!TerminalBounded'
<1> DEFINE table == [retention EXCEPT ![o] = IF terminal THEN "terminal" ELSE "running"]
           order == {q \in updated : q[1] # o /\ q[2] # o} \cup ((P!Retained(retention) \ {o}) \X {o})
           stale == P!Surplus(table, order)
           R == P!Retained(table)
<1>1. /\ retention \in [Owners -> {"none", "running", "terminal"}]
      /\ updated \subseteq P!Retained(retention) \X P!Retained(retention)
      /\ IsFiniteSet(P!Retained(retention)) /\ P!TotalOrder(updated, P!Retained(retention))
  BY Counting DEF P!IInv, P!TypeOK, P!RetentionOrdered
<1>2. table \in [Owners -> {"none", "running", "terminal"}] /\ R = P!Retained(retention) \cup {o}
  BY <1>1 DEF P!Retained
<1> HIDE DEF R, table
<1>3. IsFiniteSet(R)
  BY <1>1, <1>2, FS_AddElement
<1>4. order \subseteq R \X R
  BY <1>1, <1>2
<1>5. P!TotalOrder(order, R)
  <2> DEFINE old == P!Retained(retention)
  <2>1. ASSUME NEW x \in R, NEW y \in R
        PROVE  <<x, y>> \in order <=> x # o /\ (y = o \/ <<x, y>> \in updated)
    <3>1. x # o => x \in old
      BY <1>2
    <3>2. <<x, y>> \in (old \ {o}) \X {o} <=> x # o /\ y = o
      BY <3>1
    <3>3. <<x, y>> \in {q \in updated : q[1] # o /\ q[2] # o} <=> <<x, y>> \in updated /\ x # o /\ y # o
      OBVIOUS
    <3> QED
      BY <3>2, <3>3
  <2>2. \A x \in R : x # o => x \in old
    BY <1>2
  <2> HIDE DEF order, old
  <2>3. P!TotalOrder(updated, old)
    BY <1>1 DEF old
  <2>4. \A x \in R : <<x, x>> \notin order
    BY <2>1, <2>2, <2>3 DEF P!TotalOrder
  <2>5. \A x, y \in R : x # y => <<x, y>> \in order \/ <<y, x>> \in order
    BY <2>1, <2>2, <2>3 DEF P!TotalOrder
  <2>6. ASSUME NEW x \in R, NEW y \in R, NEW z \in R, <<x, y>> \in order, <<y, z>> \in order
        PROVE  <<x, z>> \in order
    <3>1. x # o /\ y # o /\ <<x, y>> \in updated /\ (z = o \/ <<y, z>> \in updated)
      BY <2>1, <2>6
    <3> QED
      BY <2>1, <2>2, <2>3, <3>1 DEF P!TotalOrder
  <2> QED
    BY <2>4, <2>5, <2>6 DEF P!TotalOrder
<1>6. /\ retention' = [x \in Owners |-> IF x \in stale THEN "none" ELSE table[x]]
      /\ updated' = {q \in order : q[1] \notin stale /\ q[2] \notin stale}
  BY DEF P!RetainJob, table
<1> HIDE DEF order, stale
<1>7. /\ P!Retained(retention') = R \ stale
      /\ {x \in Owners : retention'[x] = "terminal"} = {x \in Owners : table[x] = "terminal" /\ x \notin stale}
      /\ retention' \in [Owners -> {"none", "running", "terminal"}]
  BY <1>2, <1>6 DEF P!Retained, R
<1>8. updated' \subseteq P!Retained(retention') \X P!Retained(retention')
  BY <1>4, <1>6, <1>7
<1>9. P!TotalOrder(updated', P!Retained(retention'))
  <2>1. \A x, y \in R \ stale : <<x, y>> \in updated' <=> <<x, y>> \in order
    BY <1>6
  <2> HIDE DEF R
  <2> QED
    BY <1>5, <1>7, <2>1 DEF P!TotalOrder
<1>10. IsFiniteSet(R \ stale)
  BY <1>3, FS_Difference
<1>11. Cardinality({x \in Owners : table[x] = "terminal" /\ x \notin stale}) <= recent_terminal_limit
  BY <1>2, <1>3, <1>5, SurplusBounds DEF stale, R
<1> QED
  BY <1>7, <1>8, <1>9, <1>10, <1>11, Counting DEF P!RetentionOrdered, P!TerminalBounded, P!Retained

-----------------------------------------------------------------------------
(* The packet store: the inductive invariant *)

LEMMA PacketInit == P!Init => P!IInv
<1> SUFFICES ASSUME P!Init PROVE P!IInv
  OBVIOUS
<1> USE PacketConstants DEF P!PacketAssumption, P!Init
<1>1. P!Retained(retention) = {} /\ {o \in Owners : retention[o] = "terminal"} = {}
  BY DEF P!Retained
<1>2. P!NoRow \in [state : {"absent", "stored", "expired"}, hash : Hashes, parents : SUBSET Packets,
                   scope : SUBSET Facts]
  BY DEF P!NoRow
<1>3. P!TypeOK
  BY <1>2 DEF P!TypeOK, P!NoNote
<1>4. P!BodyStored /\ P!Rooted /\ P!ScopesNested /\ P!EvidencePinned
  BY DEF P!BodyStored, P!Rooted, P!ScopesNested, P!EvidencePinned, P!Stored, P!NoRow, P!NoNote
<1>5. P!RetentionOrdered /\ P!TerminalBounded
  BY <1>1, Counting, FS_EmptySet DEF P!RetentionOrdered, P!TotalOrder, P!TerminalBounded
<1> QED
  BY <1>3, <1>4, <1>5 DEF P!IInv

LEMMA PacketStep == P!IInv /\ [P!Next]_(P!vars) => P!IInv'
<1> SUFFICES ASSUME P!IInv, [P!Next]_(P!vars) PROVE P!IInv'
  OBVIOUS
<1>a. /\ P!TypeOK /\ P!BodyStored /\ P!Rooted /\ P!ScopesNested /\ P!EvidencePinned
      /\ P!RetentionOrdered /\ P!TerminalBounded
  BY DEF P!IInv
<1>b. \A p \in P!live_ids : P!Stored(p)
  BY <1>a, LiveStored
<1>1. ASSUME NEW p \in Packets, P!Lapse(p) PROVE P!IInv'
  BY <1>a, <1>1 DEF P!Lapse, P!IInv, P!TypeOK, P!BodyStored, P!Rooted, P!ScopesNested, P!EvidencePinned,
     P!RetentionOrdered, P!TerminalBounded, P!Stored
<1>2. ASSUME NEW p \in Packets, NEW hash \in Hashes, NEW parents \in SUBSET Packets, NEW scope \in P!Scopes,
             NEW by \in SUBSET Owners, P!Put(p, hash, parents, scope, by)
      PROVE  P!IInv'
  <2>1. /\ rows[p].state = "absent"
        /\ rows' = [rows EXCEPT ![p] = [state |-> "stored", hash |-> hash, parents |-> parents,
                                        scope |-> scope]]
        /\ bodies' = bodies \cup {hash} /\ pins' = pins \cup (by \X {p})
        /\ UNCHANGED <<lapsed, retention, updated, notes>>
    BY <1>2 DEF P!Put
  <2>2. \A q \in parents : P!Stored(q) /\ rows[q].scope # {} /\ rows[q].scope \subseteq scope
    BY <1>2 DEF P!Put, P!authorized
  <2>3. /\ rows'[p].state = "stored" /\ rows'[p].hash = hash /\ rows'[p].parents = parents
        /\ rows'[p].scope = scope
        /\ \A q \in Packets \ {p} : rows'[q] = rows[q]
        /\ rows' \in [Packets -> [state : {"absent", "stored", "expired"}, hash : Hashes,
                                  parents : SUBSET Packets, scope : SUBSET Facts]]
    BY <1>a, <2>1 DEF P!TypeOK, P!Scopes
  <2>4. \A q \in Packets : rows[q].parents \subseteq Packets
    BY <1>a DEF P!TypeOK
  <2>5. P!TypeOK'
    BY <1>a, <2>1, <2>3 DEF P!TypeOK
  <2>6. P!BodyStored'
    BY <1>a, <2>1, <2>3 DEF P!BodyStored, P!Stored
  <2>7. P!Rooted'
    BY <1>a, <2>1, <2>2, <2>3, <2>4 DEF P!Rooted, P!Stored, P!TypeOK
  <2>8. P!ScopesNested'
    BY <1>a, <2>1, <2>2, <2>3, <2>4 DEF P!ScopesNested, P!Stored
  <2> QED
    BY <1>a, <2>1, <2>5, <2>6, <2>7, <2>8 DEF P!IInv, P!EvidencePinned, P!RetentionOrdered, P!TerminalBounded
<1>3. ASSUME NEW o \in Owners, NEW p \in Packets, P!Pin(o, {p}) PROVE P!IInv'
  <2>1. P!Stored(p)
    BY <1>3 DEF P!Pin, P!Pinnable
  <2> QED
    BY <1>a, <1>3, <2>1 DEF P!Pin, P!IInv, P!TypeOK, P!BodyStored, P!Rooted, P!ScopesNested,
       P!EvidencePinned, P!RetentionOrdered, P!TerminalBounded, P!Stored
<1>4. ASSUME NEW o \in Owners, NEW p \in Packets, NEW terminal \in BOOLEAN, P!RetainJob(o, {p}, terminal)
      PROVE  P!IInv'
  <2>1. P!Stored(p) /\ UNCHANGED <<rows, lapsed, bodies, notes>>
    BY <1>4 DEF P!RetainJob, P!Pinnable
  <2>2. PICK stale \in SUBSET Owners : pins' = {q \in pins \cup ({o} \X {p}) : q[1] \notin stale}
    BY <1>4 DEF P!RetainJob, P!Surplus
  <2>3. P!TypeOK'
    BY <1>a, <1>4, <2>1, <2>2, RetentionKept DEF P!TypeOK, P!IInv
  <2>4. P!Rooted' /\ P!BodyStored' /\ P!ScopesNested'
    BY <1>a, <2>1, <2>2 DEF P!Rooted, P!BodyStored, P!ScopesNested, P!Stored
  <2>5. P!EvidencePinned'
    BY <1>a, <2>1, <2>2, PacketConstants DEF P!EvidencePinned, P!PacketAssumption
  <2> QED
    BY <1>4, <2>3, <2>4, <2>5, RetentionKept DEF P!IInv
<1>5. ASSUME NEW o \in Owners, P!Unpin(o) PROVE P!IInv'
  BY <1>a, <1>5, PacketConstants DEF P!PacketAssumption, P!Unpin, P!IInv, P!TypeOK, P!BodyStored, P!Rooted,
     P!ScopesNested, P!EvidencePinned, P!RetentionOrdered, P!TerminalBounded, P!Stored
<1>6. ASSUME NEW o \in Owners, NEW p \in Packets, NEW scope \in P!Scopes, NEW out \in SUBSET Owners,
             P!ReconcileRetention({<<o, p>>}, scope, out)
      PROVE  P!IInv'
  <2>1. UNCHANGED <<rows, lapsed, bodies, retention, updated, notes>>
    BY <1>6 DEF P!ReconcileRetention
  <2>2. PICK pinned \in SUBSET {<<o, p>>} :
            /\ pins' = {q \in pins \cup pinned : q[1] \notin out}
            /\ pinned # {} => P!Stored(p)
    <3>1. P!lookup(p, scope) = "ok" => P!Stored(p)
      BY DEF P!lookup
    <3>2. pins' = {q \in pins \cup {x \in {<<o, p>>} : P!lookup(x[2], scope) = "ok"} : q[1] \notin out}
      BY <1>6 DEF P!ReconcileRetention
    <3>3. {x \in {<<o, p>>} : P!lookup(x[2], scope) = "ok"} # {} => P!lookup(p, scope) = "ok"
      OBVIOUS
    <3> QED
      BY <3>1, <3>2, <3>3
  <2> QED
    BY <1>a, <2>1, <2>2, PacketConstants DEF P!PacketAssumption, P!IInv, P!TypeOK, P!BodyStored, P!Rooted,
       P!ScopesNested, P!EvidencePinned, P!RetentionOrdered, P!TerminalBounded, P!Stored
<1>7. CASE P!Gc
  <2>1. /\ rows' = [p \in Packets |-> IF p \in P!Collectable THEN P!ExpiredRow(rows[p]) ELSE rows[p]]
        /\ bodies' = P!BodiesAfter(P!Collectable)
        /\ UNCHANGED <<lapsed, pins, retention, updated, notes>>
    BY <1>7 DEF P!Gc
  <2>2. \A p \in Packets :
            /\ rows'[p].hash = rows[p].hash /\ rows'[p].parents = rows[p].parents
            /\ rows'[p].scope = rows[p].scope
            /\ rows'[p].state = IF p \in P!Collectable THEN "expired" ELSE rows[p].state
            /\ rows'[p] \in [state : {"absent", "stored", "expired"}, hash : Hashes,
                             parents : SUBSET Packets, scope : SUBSET Facts]
    BY <1>a, <2>1 DEF P!TypeOK, P!ExpiredRow
  <2>3. \A p \in Packets : P!Stored(p)' <=> P!Stored(p) /\ p \in P!live_ids
    BY <1>a, <2>2 DEF P!Stored, P!Collectable
  <2>4. \A p \in Packets : rows[p].parents \subseteq Packets
    BY <1>a DEF P!TypeOK
  <2>5. P!TypeOK'
    BY <1>a, <2>1, <2>2 DEF P!TypeOK, P!BodiesAfter
  <2>6. P!BodyStored'
    BY <1>a, <2>1, <2>2, <2>3 DEF P!BodyStored, P!BodiesAfter, P!Collectable, P!Stored
  <2>7. P!Rooted'
    <3>1. \A q \in pins : q[2] \in Packets /\ q[2] \in P!live_ids
      BY <1>a, LiveClosed DEF P!TypeOK, P!Roots
    <3>2. \A p \in Packets : P!Stored(p)' => \A q \in rows[p].parents : P!Stored(q)'
      BY <1>a, <2>3, <2>4, LiveClosed DEF P!Rooted
    <3> QED
      BY <1>a, <2>1, <2>2, <2>3, <3>1, <3>2 DEF P!Rooted
  <2>8. P!ScopesNested'
    BY <1>a, <2>2, <2>4 DEF P!ScopesNested, P!Collectable, P!Stored
  <2> QED
    BY <1>a, <2>1, <2>5, <2>6, <2>7, <2>8 DEF P!IInv, P!EvidencePinned, P!RetentionOrdered, P!TerminalBounded
<1>8. ASSUME NEW n \in Notes, NEW refs \in SUBSET Packets, NEW scope \in P!Scopes, P!PutNote(n, refs, scope)
      PROVE  P!IInv'
  <2>1. /\ \A p \in refs : P!Stored(p)
        /\ pins' = {q \in pins : q[1] # n} \cup ({n} \X refs)
        /\ notes' = [notes EXCEPT ![n] = [cited |-> refs, kept |-> TRUE]]
        /\ UNCHANGED <<rows, lapsed, bodies, retention, updated>>
    BY <1>8 DEF P!PutNote, P!Repinned
  <2>2. P!TypeOK'
    BY <1>a, <2>1 DEF P!TypeOK
  <2>3. P!Rooted' /\ P!BodyStored' /\ P!ScopesNested'
    BY <1>a, <2>1 DEF P!Rooted, P!BodyStored, P!ScopesNested, P!Stored
  <2>4. P!EvidencePinned'
    BY <1>a, <2>1 DEF P!EvidencePinned, P!TypeOK
  <2> QED
    BY <1>a, <2>1, <2>2, <2>3, <2>4 DEF P!IInv, P!RetentionOrdered, P!TerminalBounded
<1>9. ASSUME NEW n \in Notes, P!DeleteNote(n) PROVE P!IInv'
  BY <1>a, <1>9 DEF P!DeleteNote, P!NoNote, P!IInv, P!TypeOK, P!BodyStored, P!Rooted, P!ScopesNested,
     P!EvidencePinned, P!RetentionOrdered, P!TerminalBounded, P!Stored
<1>10. CASE UNCHANGED P!vars
  BY <1>a, <1>10 DEF P!vars, P!IInv, P!TypeOK, P!BodyStored, P!Rooted, P!ScopesNested, P!EvidencePinned,
     P!RetentionOrdered, P!TerminalBounded, P!Stored
<1> QED
  BY <1>1, <1>2, <1>3, <1>4, <1>5, <1>6, <1>7, <1>8, <1>9, <1>10 DEF P!Next

-----------------------------------------------------------------------------
(* The packet store: theorems *)

LEMMA PacketInvariant == P!Spec => []P!IInv
BY PacketInit, PacketStep, PTL DEF P!Spec

\* Whatever sequence of puts, pins, notes, retained jobs, expiries and
\* collections came before, the bodies of all unexpired packets, the ancestors
\* of all live packets and the evidence of all notes are stored, and no more
\* than recent_terminal_limit finished jobs are retained (gc, retain_job).
THEOREM CollectionKeepsWhatIsLive == P!Spec => []PacketInv
<1>1. P!IInv => PacketInv
  <2> SUFFICES ASSUME P!IInv PROVE PacketInv
    OBVIOUS
  <2>1. P!LiveIsStored
    BY LiveStored DEF P!IInv, P!LiveIsStored
  <2>2. P!EvidenceKept
    <3>1. ASSUME NEW n \in Notes, notes[n].kept, NEW p \in notes[n].cited
          PROVE  P!Stored(p) /\ p \in P!live_ids
      <4>1. <<n, p>> \in pins
        BY <3>1 DEF P!IInv, P!EvidencePinned
      <4>2. p \in P!live_ids
        BY <4>1, LiveClosed DEF P!IInv, P!Roots
      <4> QED
        BY <4>2, LiveStored DEF P!IInv
    <3> QED
      BY <3>1 DEF P!EvidenceKept
  <2> QED
    BY <2>1, <2>2 DEF P!IInv, PacketInv, P!PacketInv
<1> QED
  BY <1>1, PacketInvariant, PTL

\* A packet that resolves for a caller has parents that resolve for the same
\* caller (lookup, _put).
THEOREM ProvenanceResolves == P!Spec => []ParentsResolve
<1>1. P!IInv => ParentsResolve
  <2> SUFFICES ASSUME P!IInv, NEW p \in Packets, NEW scope \in P!Scopes, P!lookup(p, scope) = "ok",
                      NEW q \in rows[p].parents
               PROVE  P!lookup(q, scope) = "ok"
    BY DEF ParentsResolve, P!ParentsResolve
  <2>1. P!Stored(p) /\ p \in P!live_ids /\ P!authorized(rows[p].scope, scope)
    BY DEF P!lookup
  <2>2. q \in P!live_ids /\ P!Stored(q)
    BY <2>1, LiveClosed, LiveStored DEF P!IInv
  <2>3. rows[q].scope # {} /\ rows[q].scope \subseteq rows[p].scope
    BY DEF P!IInv, P!ScopesNested
  <2>4. P!authorized(rows[q].scope, scope)
    BY <2>1, <2>3 DEF P!authorized
  <2> QED
    BY <2>2, <2>4 DEF P!lookup, P!Stored
<1> QED
  BY <1>1, PacketInvariant, PTL
-----------------------------------------------------------------------------
(* The metadata store: what an amendment appends *)

LEMMA MetadataConstants == D!MetadataAssumption
BY ComponentAssumptions DEF ComponentAssumptions

\* One row is appended to the versions s.
LEMMA OneAppended ==
    ASSUME NEW S, NEW s \in Seq(S), NEW e \in S
    PROVE  /\ s \o <<e>> \in Seq(S) /\ Len(s \o <<e>>) = Len(s) + 1 /\ Len(s) \in Nat
           /\ (s \o <<e>>)[Len(s) + 1] = e
           /\ \A i \in 1..Len(s) : (s \o <<e>>)[i] = s[i]
           /\ SubSeq(s \o <<e>>, 1, Len(s)) = s
<1>1. <<e>> \in Seq(S) /\ Len(<<e>>) = 1 /\ <<e>>[1] = e
  OBVIOUS
<1>2. /\ s \o <<e>> \in Seq(S) /\ Len(s \o <<e>>) = Len(s) + 1 /\ Len(s) \in Nat
      /\ (s \o <<e>>)[Len(s) + 1] = e
      /\ \A i \in 1..Len(s) : (s \o <<e>>)[i] = s[i]
  BY <1>1, ConcatProperties, LenProperties
<1>3. SubSeq(s \o <<e>>, 1, Len(s)) = s
  <2> DEFINE t == s \o <<e>>  u == SubSeq(t, 1, Len(s))
  <2>1. \A i \in 1..Len(s) : t[i] \in S
    BY <1>2, ElementOfSeq
  <2>2. u \in Seq(S) /\ Len(u) = Len(s) /\ \A i \in 1..Len(s) : u[i] = t[i]
    <3> HIDE DEF t
    <3>1. /\ u \in Seq(S) /\ Len(u) = IF 1 <= Len(s) THEN Len(s) - 1 + 1 ELSE 0
          /\ \A i \in 1..Len(s) - 1 + 1 : u[i] = t[1 + i - 1]
      BY <1>2, <2>1, SubSeqProperties
    <3> QED
      BY <1>2, <3>1
  <2> HIDE DEF t, u
  <2>3. \A i \in 1..Len(u) : u[i] = s[i]
    BY <1>2, <2>2 DEF t
  <2>4. u = s
    BY <2>2, <2>3, SeqEqual
  <2> QED
    BY <2>4 DEF u, t
<1> QED
  BY <1>2, <1>3

\* The keys that an amendment gives a new version.
Touched(req, h) == {req.key} \cup D!AffectedKeys(req, h)

LEMMA RequestTypes ==
    ASSUME NEW req \in D!Requests
    PROVE  /\ req.key \in D!Keys /\ req.action \in {"register", "remove"}
           /\ req.action = "register" => req.payload \in D!Payloads(req.key)
<1>1. CASE req \in D!Removals
  BY <1>1 DEF D!Removals
<1>2. ASSUME NEW k \in D!Keys, req \in D!Registrations(k)
      PROVE  req.key = k /\ req.action = "register" /\ req.payload \in D!Payloads(k)
  BY <1>2 DEF D!Registrations
<1>3. req \in D!Removals \/ \E k \in D!Keys : req \in D!Registrations(k)
  BY DEF D!Requests
<1>4. CASE \E k \in D!Keys : req \in D!Registrations(k)
  <2>1. PICK k \in D!Keys : req \in D!Registrations(k)
    BY <1>4
  <2>2. req.key = k /\ req.action = "register" /\ req.payload \in D!Payloads(k)
    BY <1>2, <2>1
  <2> QED
    BY <2>2
<1> QED
  BY <1>1, <1>3, <1>4

LEMMA LatestTypes ==
    ASSUME D!TypeOK, NEW k \in D!Keys
    PROVE  /\ declarations[k] \in Seq(D!RowType(k)) /\ Len(declarations[k]) \in Nat
           /\ D!Declared(k) => /\ Len(declarations[k]) \in 1..Len(declarations[k])
                               /\ D!Latest(k) \in D!RowType(k)
<1>1. declarations[k] \in Seq(D!RowType(k))
  BY DEF D!TypeOK
<1>2. Len(declarations[k]) \in Nat
  BY <1>1, LenProperties
<1>3. ASSUME D!Declared(k) PROVE Len(declarations[k]) \in 1..Len(declarations[k])
  <2>1. Len(declarations[k]) \in Nat \ {0}
    BY <1>1, <1>3, EmptySeq DEF D!Declared
  <2> QED
    BY <2>1
<1> QED
  BY <1>1, <1>2, <1>3, ElementOfSeq DEF D!Latest

LEMMA TouchedKeys ==
    ASSUME D!TypeOK, NEW req \in D!Requests, NEW h \in D!Hosts
    PROVE  /\ D!AffectedKeys(req, h) \subseteq D!Keys /\ Touched(req, h) \subseteq D!Keys
           /\ D!Affected(req, h) \in D!Versions
           /\ {a[1] : a \in D!Affected(req, h)} = D!AffectedKeys(req, h)
           /\ D!Review(req, h) \in D!Reviews
<1>1. D!AffectedKeys(req, h) \subseteq D!Keys
  BY RequestTypes DEF D!AffectedKeys, D!Related, D!Keys
<1>2. D!Affected(req, h) \in D!Versions
  BY <1>1, LatestTypes DEF D!Affected, D!Versions
<1>3. {a[1] : a \in D!Affected(req, h)} = D!AffectedKeys(req, h)
  <2>1. \A a \in D!Affected(req, h) : a[1] \in D!AffectedKeys(req, h)
    BY DEF D!Affected
  <2>2. ASSUME NEW k \in D!AffectedKeys(req, h) PROVE \E a \in D!Affected(req, h) : a[1] = k
    <3>1. <<k, Len(declarations[k])>> \in D!Affected(req, h)
      BY DEF D!Affected
    <3> QED
      BY <3>1
  <2> QED
    BY <2>1, <2>2
<1>4. D!Review(req, h) \in D!Reviews
  BY <1>2 DEF D!Review, D!Reviews, D!TypeOK, D!Hosts
<1> QED
  BY <1>1, <1>2, <1>3, <1>4, RequestTypes DEF Touched

\* What an applied amendment does to the versions of each key.
LEMMA VersionsAppended ==
    ASSUME D!TypeOK, NEW o \in Ops, NEW req \in D!Requests, NEW expected \in 0..MaxRevision,
           NEW h \in D!Hosts, D!Apply(o, req, expected, h), NEW k \in D!Keys
    PROVE  /\ k \notin Touched(req, h) => declarations'[k] = declarations[k]
           /\ k \in Touched(req, h) =>
                 \E row \in D!RowType(k) :
                    /\ declarations'[k] = declarations[k] \o <<row>>
                    /\ row.revision = revision + 1
                    /\ row.retired <=> req.action = "remove"
                    /\ req.action = "remove" => D!ActiveRow(k) /\ row.payload = D!Latest(k).payload
<1>1. declarations'[k] = declarations[k] \o D!RowsOf(req, k, h)
  BY DEF D!Apply
<1>2. revision + 1 \in 1..MaxRevision
  BY MetadataConstants DEF D!Apply, D!TypeOK, D!MetadataAssumption
<1>3. CASE k \notin Touched(req, h)
  <2>1. D!RowsOf(req, k, h) = <<>>
    BY <1>3 DEF Touched, D!RowsOf
  <2> QED
    BY <1>1, <1>3, <2>1, LatestTypes, ConcatEmptySeq
<1>4. CASE k \in Touched(req, h) /\ req.action = "register"
  <2>1. k = req.key
    BY <1>4 DEF Touched, D!AffectedKeys
  <2> DEFINE row == [payload |-> req.payload, retired |-> FALSE, revision |-> revision + 1]
  <2>2. D!RowsOf(req, k, h) = <<row>>
    BY <1>4, <2>1 DEF D!RowsOf
  <2>3. row \in D!RowType(k)
    BY <1>2, <1>4, <2>1, RequestTypes DEF D!RowType
  <2> QED
    BY <1>1, <1>4, <2>2, <2>3
<1>5. CASE k \in Touched(req, h) /\ req.action = "remove"
  <2>1. D!ActiveRow(k) /\ k \in D!AffectedKeys(req, h)
    BY <1>5 DEF D!Apply, D!Current, D!Admissible, Touched, D!AffectedKeys, D!Related
  <2> DEFINE row == [payload |-> D!Latest(k).payload, retired |-> TRUE, revision |-> revision + 1]
  <2>2. D!RowsOf(req, k, h) = <<row>>
    BY <1>5, <2>1 DEF D!RowsOf
  <2>3. row \in D!RowType(k)
    BY <1>2, <2>1, LatestTypes DEF D!RowType, D!ActiveRow
  <2> QED
    BY <1>1, <1>5, <2>1, <2>2, <2>3
<1> QED
  BY <1>3, <1>4, <1>5, RequestTypes

\* The same, as facts about the stored versions and the newest one.
LEMMA NewVersions ==
    ASSUME D!TypeOK, NEW o \in Ops, NEW req \in D!Requests, NEW expected \in 0..MaxRevision,
           NEW h \in D!Hosts, D!Apply(o, req, expected, h), NEW k \in D!Keys
    PROVE  /\ declarations'[k] \in Seq(D!RowType(k))
           /\ Len(declarations[k]) \in Nat
           /\ \A i \in 1..Len(declarations[k]) : declarations'[k][i] = declarations[k][i]
           /\ Len(declarations'[k]) = IF k \in Touched(req, h) THEN Len(declarations[k]) + 1 ELSE Len(declarations[k])
           /\ SubSeq(declarations'[k], 1, Len(declarations[k])) = declarations[k]
           /\ k \in Touched(req, h) =>
                 /\ declarations'[k][Len(declarations[k]) + 1].revision = revision + 1
                 /\ declarations'[k][Len(declarations[k]) + 1].retired <=> req.action = "remove"
                 /\ req.action = "remove" => /\ D!ActiveRow(k)
                                             /\ declarations'[k][Len(declarations[k]) + 1].payload
                                                  = D!Latest(k).payload
<1>1. declarations[k] \in Seq(D!RowType(k)) /\ Len(declarations[k]) \in Nat
  BY LatestTypes
<1>2. CASE k \notin Touched(req, h)
  <2>1. declarations'[k] = declarations[k]
    BY <1>2, VersionsAppended
  <2>2. SubSeq(declarations[k], 1, Len(declarations[k])) = declarations[k]
    BY <1>1, SubSeqFull
  <2> QED
    BY <1>1, <1>2, <2>1, <2>2
<1>3. CASE k \in Touched(req, h)
  <2>1. PICK row \in D!RowType(k) :
            /\ declarations'[k] = declarations[k] \o <<row>>
            /\ row.revision = revision + 1
            /\ row.retired <=> req.action = "remove"
            /\ req.action = "remove" => D!ActiveRow(k) /\ row.payload = D!Latest(k).payload
    BY <1>3, VersionsAppended
  <2> DEFINE s == declarations[k]
  <2>2. /\ s \o <<row>> \in Seq(D!RowType(k)) /\ Len(s \o <<row>>) = Len(s) + 1
        /\ (s \o <<row>>)[Len(s) + 1] = row
        /\ \A i \in 1..Len(s) : (s \o <<row>>)[i] = s[i]
        /\ SubSeq(s \o <<row>>, 1, Len(s)) = s
    BY <1>1, OneAppended
  <2> QED
    BY <1>1, <1>3, <2>1, <2>2
<1> QED
  BY <1>2, <1>3
-----------------------------------------------------------------------------
(* The metadata store: the inductive invariant *)

LEMMA MetadataInit == D!Init => D!IInv
<1> SUFFICES ASSUME D!Init PROVE D!IInv
  OBVIOUS
<1>1. /\ \A k \in D!Keys : declarations[k] = <<>>
      /\ \A o \in Ops : operations[o] = D!NoOperation /\ previews[o] = D!NoPreview
      /\ revision = 0
  BY DEF D!Init
<1>2. D!TypeOK
  <2>1. \A k \in D!Keys : declarations[k] \in Seq(D!RowType(k))
    BY <1>1, EmptySeq
  <2> QED
    BY <2>1, MetadataConstants DEF D!Init, D!TypeOK, D!MetadataAssumption
<1>3. \A o \in Ops : ~D!Applied(o)
  BY <1>1 DEF D!Applied, D!NoOperation
<1>4. \A k \in D!Keys : Len(declarations[k]) = 0
  BY <1>1
<1>5. D!RevisionsOwned
  BY <1>1, <1>3, <1>4 DEF D!RevisionsOwned
<1>6. D!NoDanglingRelation
  BY <1>1 DEF D!NoDanglingRelation, D!Declared, D!Keys
<1>7. D!CarriedOutAsReviewed
  BY <1>1 DEF D!CarriedOutAsReviewed
<1> QED
  BY <1>2, <1>5, <1>6, <1>7 DEF D!IInv

\* Receipts are records of their type, and not the absence of one.
LEMMA ReceiptTypes ==
    ASSUME D!TypeOK, NEW req \in D!Requests, NEW expected \in 0..MaxRevision, NEW h \in D!Hosts,
           NEW status \in {"noop", "applied"}, status = "applied" => revision < MaxRevision
    PROVE  /\ D!Receipt(req, expected, status, h) \in D!Receipts
           /\ D!Receipt(req, expected, status, h).status = status
           /\ D!Receipt(req, expected, status, h).request = req
           /\ D!Receipt(req, expected, status, h).expected = expected
           /\ D!Receipt(req, expected, status, h).affected = D!Affected(req, h)
           /\ D!Receipt(req, expected, status, h).review = D!Review(req, h)
           /\ D!Receipt(req, expected, status, h).revision
                = IF status = "applied" THEN revision + 1 ELSE revision
           /\ D!Receipt(req, expected, status, h) # D!NoOperation
<1>1. /\ D!Affected(req, h) \in D!Versions /\ D!Review(req, h) \in D!Reviews
  BY TouchedKeys
<1>2. /\ revision \in 0..MaxRevision /\ MaxRevision \in Nat
      /\ status = "applied" => revision + 1 \in 0..MaxRevision
  BY MetadataConstants DEF D!TypeOK, D!MetadataAssumption
<1> QED
  BY <1>1, <1>2 DEF D!Receipt, D!Receipts, D!NoOperation

\* A row that an operation gets when it is carried out, with a preview that
\* was kept and compared, is as reviewed.
LEMMA CarriedOutStep ==
    ASSUME D!IInv, NEW o \in Ops, NEW req \in D!Requests, NEW expected \in 0..MaxRevision,
           NEW h \in D!Hosts, NEW status \in {"noop", "applied"},
           status = "applied" => revision < MaxRevision,
           D!Current(o, req, expected, h), D!Reviewed(o, req, h),
           operations' = [operations EXCEPT ![o] = D!Receipt(req, expected, status, h)],
           previews' = previews
    PROVE  D!CarriedOutAsReviewed'
<1>1. operations \in [Ops -> {D!NoOperation} \cup D!Receipts] /\ D!TypeOK
  BY DEF D!IInv, D!TypeOK
<1>2. operations'[o] = D!Receipt(req, expected, status, h) /\ \A x \in Ops \ {o} : operations'[x] = operations[x]
  BY <1>1
<1>3. /\ operations'[o].request = req /\ operations'[o].expected = expected
      /\ operations'[o].review = D!Review(req, h)
  BY <1>1, <1>2, ReceiptTypes
<1>4. previews[o].kept => /\ previews[o].request = req /\ previews[o].expected = expected
                          /\ previews[o].review = D!Review(req, h)
  BY DEF D!Current, D!Reviewed
<1> QED
  BY <1>2, <1>3, <1>4 DEF D!IInv, D!CarriedOutAsReviewed

\* Previews only add a review for an operation that was not carried out.
LEMMA PreviewStep ==
    ASSUME D!IInv, NEW o \in Ops, NEW req \in D!Requests, NEW expected \in 0..MaxRevision,
           NEW h \in D!Hosts, D!Preview(o, req, expected, h)
    PROVE  D!IInv'
<1>1. /\ operations[o] = D!NoOperation
      /\ previews' = [previews EXCEPT ![o] = [kept |-> TRUE, request |-> req, expected |-> expected,
                                              review |-> D!Review(req, h)]]
      /\ UNCHANGED <<revision, declarations, operations, invalidations, source>>
  BY DEF D!Preview, D!Current
<1>2. D!TypeOK'
  <2>1. D!Review(req, h) \in D!Reviews
    BY TouchedKeys DEF D!IInv
  <2> QED
    BY <1>1, <2>1 DEF D!IInv, D!TypeOK, D!KeptPreviews
<1>3. D!CarriedOutAsReviewed'
  BY <1>1 DEF D!IInv, D!TypeOK, D!CarriedOutAsReviewed
<1> QED
  BY <1>1, <1>2, <1>3
  DEF D!IInv, D!RevisionsOwned, D!NoDanglingRelation, D!Applied, D!RowsStamped, D!Receipted, D!Declared,
      D!ActiveRow, D!Latest, D!NamesKey, D!CommonNames, D!Keys

LEMMA ApplyNoOpStep ==
    ASSUME D!IInv, NEW o \in Ops, NEW req \in D!Requests, NEW expected \in 0..MaxRevision,
           NEW h \in D!Hosts, D!ApplyNoOp(o, req, expected, h)
    PROVE  D!IInv'
<1>1. /\ operations[o] = D!NoOperation
      /\ operations' = [operations EXCEPT ![o] = D!Receipt(req, expected, "noop", h)]
      /\ UNCHANGED <<revision, declarations, previews, invalidations, source>>
      /\ D!Current(o, req, expected, h) /\ D!Reviewed(o, req, h)
  BY DEF D!ApplyNoOp, D!Current
<1>2. /\ D!Receipt(req, expected, "noop", h) \in D!Receipts
      /\ D!Receipt(req, expected, "noop", h).status = "noop"
  BY ReceiptTypes DEF D!IInv
<1>3. /\ D!TypeOK'
      /\ \A x \in Ops : D!Applied(x)' <=> D!Applied(x)
      /\ \A x \in Ops : D!Applied(x) => operations'[x] = operations[x]
  <2>1. operations' \in [Ops -> {D!NoOperation} \cup D!Receipts]
    BY <1>1, <1>2 DEF D!IInv, D!TypeOK
  <2>2. operations'[o].status = "noop" /\ operations[o].status = "none"
    BY <1>1, <1>2 DEF D!IInv, D!TypeOK, D!NoOperation
  <2>3. \A x \in Ops \ {o} : operations'[x] = operations[x]
    BY <1>1 DEF D!IInv, D!TypeOK
  <2> QED
    BY <1>1, <2>1, <2>2, <2>3 DEF D!IInv, D!TypeOK, D!Applied
<1>4. D!CarriedOutAsReviewed'
  BY <1>1, CarriedOutStep
<1>5. D!RevisionsOwned'
  BY <1>1, <1>3 DEF D!IInv, D!RevisionsOwned, D!RowsStamped, D!Receipted
<1>6. D!NoDanglingRelation'
  BY <1>1 DEF D!IInv, D!NoDanglingRelation, D!Declared, D!ActiveRow, D!Latest, D!NamesKey, D!CommonNames,
     D!Keys
<1> QED
  BY <1>3, <1>4, <1>5, <1>6 DEF D!IInv

\* The rows stamped with an earlier revision stay, the new revision stamps
\* the touched keys.
LEMMA StampedRows ==
    ASSUME D!IInv, NEW o \in Ops, NEW req \in D!Requests, NEW expected \in 0..MaxRevision,
           NEW h \in D!Hosts, D!Apply(o, req, expected, h)
    PROVE  /\ \A n \in 1..revision : D!RowsStamped(n)' = D!RowsStamped(n)
           /\ D!RowsStamped(revision)' = Touched(req, h)
           /\ \A k \in D!Keys : \A i \in 1..Len(declarations'[k]) :
                 declarations'[k][i].revision <= revision + 1
<1>0. D!TypeOK /\ revision \in Nat
  BY MetadataConstants DEF D!IInv, D!TypeOK, D!MetadataAssumption
<1>1. ASSUME NEW k \in D!Keys, NEW i \in 1..Len(declarations'[k])
      PROVE  \/ i \in 1..Len(declarations[k]) /\ declarations'[k][i] = declarations[k][i]
             \/ /\ k \in Touched(req, h) /\ i = Len(declarations[k]) + 1
                /\ declarations'[k][i].revision = revision + 1
  <2>1. /\ Len(declarations[k]) \in Nat
        /\ \A j \in 1..Len(declarations[k]) : declarations'[k][j] = declarations[k][j]
        /\ Len(declarations'[k]) = IF k \in Touched(req, h) THEN Len(declarations[k]) + 1 ELSE Len(declarations[k])
        /\ k \in Touched(req, h) => declarations'[k][Len(declarations[k]) + 1].revision = revision + 1
    BY <1>0, NewVersions
  <2>2. CASE k \notin Touched(req, h)
    BY <1>1, <2>1, <2>2
  <2>3. CASE k \in Touched(req, h)
    <3>1. i \in 1..Len(declarations[k]) \/ i = Len(declarations[k]) + 1
      BY <1>1, <2>1, <2>3
    <3> QED
      BY <2>1, <2>3, <3>1
  <2> QED
    BY <2>2, <2>3
<1>2. \A k \in D!Keys : \A i \in 1..Len(declarations[k]) :
          declarations[k][i].revision \in Nat /\ declarations[k][i].revision <= revision
  <2>1. ASSUME NEW k \in D!Keys, NEW i \in 1..Len(declarations[k]) PROVE declarations[k][i].revision \in Nat
    <3>1. declarations[k] \in Seq(D!RowType(k))
      BY <1>0, LatestTypes
    <3>2. declarations[k][i] \in D!RowType(k)
      BY <3>1, ElementOfSeq
    <3> QED
      BY <3>2 DEF D!RowType
  <2> QED
    BY <2>1 DEF D!IInv, D!RevisionsOwned
<1>3. ASSUME NEW n \in 1..revision PROVE D!RowsStamped(n)' = D!RowsStamped(n)
  <2>1. ASSUME NEW k \in D!Keys, NEW i \in 1..Len(declarations'[k]), declarations'[k][i].revision = n
        PROVE  \E j \in 1..Len(declarations[k]) : declarations[k][j].revision = n
    BY <1>0, <1>1, <2>1
  <2>2. ASSUME NEW k \in D!Keys, NEW i \in 1..Len(declarations[k]), declarations[k][i].revision = n
        PROVE  \E j \in 1..Len(declarations'[k]) : declarations'[k][j].revision = n
    <3>1. i \in 1..Len(declarations'[k]) /\ declarations'[k][i] = declarations[k][i]
      <4>1. /\ Len(declarations[k]) \in Nat
            /\ \A j \in 1..Len(declarations[k]) : declarations'[k][j] = declarations[k][j]
            /\ Len(declarations'[k]) = IF k \in Touched(req, h) THEN Len(declarations[k]) + 1 ELSE Len(declarations[k])
        BY <1>0, NewVersions
      <4>2. Len(declarations'[k]) \in Nat /\ Len(declarations'[k]) >= Len(declarations[k])
        BY <4>1
      <4> QED
        BY <4>1, <4>2
    <3> QED
      BY <2>2, <3>1
  <2> QED
    BY <2>1, <2>2 DEF D!RowsStamped, D!Keys
<1>4. D!RowsStamped(revision)' = Touched(req, h)
  <2>1. ASSUME NEW k \in D!Keys, NEW i \in 1..Len(declarations'[k]),
               declarations'[k][i].revision = revision + 1
        PROVE  k \in Touched(req, h)
    BY <1>0, <1>1, <1>2, <2>1
  <2>2. ASSUME NEW k \in Touched(req, h)
        PROVE  k \in D!Keys /\ \E i \in 1..Len(declarations'[k]) : declarations'[k][i].revision = revision + 1
    <3>1. k \in D!Keys
      BY <1>0, <2>2, TouchedKeys
    <3>2. /\ Len(declarations[k]) + 1 \in 1..Len(declarations'[k])
          /\ declarations'[k][Len(declarations[k]) + 1].revision = revision + 1
      <4>1. /\ Len(declarations[k]) \in Nat
            /\ Len(declarations'[k]) = IF k \in Touched(req, h) THEN Len(declarations[k]) + 1 ELSE Len(declarations[k])
            /\ k \in Touched(req, h) => declarations'[k][Len(declarations[k]) + 1].revision = revision + 1
        BY <1>0, <3>1, NewVersions
      <4> QED
        BY <2>2, <4>1
    <3> QED
      BY <3>1, <3>2
  <2>3. revision' = revision + 1
    BY DEF D!Apply
  <2> QED
    BY <2>1, <2>2, <2>3 DEF D!RowsStamped, D!Keys
<1> QED
  BY <1>0, <1>1, <1>2, <1>3, <1>4
\* A removal retires the relations of what it removes, so a relation that is
\* active was registered later than any removal of what it names.
LEMMA NoDanglingStep ==
    ASSUME D!IInv, NEW o \in Ops, NEW req \in D!Requests, NEW expected \in 0..MaxRevision,
           NEW h \in D!Hosts, D!Apply(o, req, expected, h)
    PROVE  D!NoDanglingRelation'
<1> DEFINE new(k) == declarations'[k][Len(declarations[k]) + 1]
<1>0. /\ D!TypeOK /\ revision \in Nat
      /\ \A n \in D!CommonNames : n \in h.names
  <2>1. h.names \in HostNames
    BY DEF D!Hosts
  <2> QED
    BY <2>1, MetadataConstants DEF D!CommonNames, D!IInv, D!TypeOK, D!MetadataAssumption
<1>1. SUFFICES ASSUME NEW k \in D!Keys \ Relations, NEW r \in Relations,
                      D!Declared(k)', D!Latest(k).retired', D!ActiveRow(r)',
                      NEW e \in D!Latest(r).payload.ends', e.key = k, e.name \in D!CommonNames,
                      D!Latest(k).payload.repo' \in {NoRepo, e.repo}
               PROVE  D!Latest(r).revision' > D!Latest(k).revision'
  BY DEF D!NoDanglingRelation, D!NamesKey, D!Keys, D!CommonNames
<1>2. k \in D!Keys /\ r \in D!Keys /\ k # r
  BY DEF D!Keys
<1>3. ASSUME NEW x \in D!Keys, x \notin Touched(req, h) PROVE declarations'[x] = declarations[x]
  BY <1>0, <1>3, VersionsAppended
<1>4. ASSUME NEW x \in D!Keys, x \in Touched(req, h)
      PROVE  /\ D!Latest(x)' = new(x) /\ new(x).revision = revision + 1
             /\ new(x).retired <=> req.action = "remove"
             /\ req.action = "remove" => D!ActiveRow(x) /\ new(x).payload = D!Latest(x).payload
  <2>1. Len(declarations'[x]) = Len(declarations[x]) + 1
    BY <1>0, <1>4, NewVersions
  <2>2. /\ new(x).revision = revision + 1
        /\ new(x).retired <=> req.action = "remove"
        /\ req.action = "remove" => D!ActiveRow(x) /\ new(x).payload = D!Latest(x).payload
    BY <1>0, <1>4, NewVersions
  <2> QED
    BY <2>1, <2>2 DEF D!Latest
<1> HIDE DEF new
<1>5. CASE k \in Touched(req, h)
  <2>1. req.action = "remove"
    BY <1>1, <1>2, <1>4, <1>5
  <2>2. k = req.key
    BY <1>5, <2>1 DEF Touched, D!AffectedKeys, D!Related
  <2>3. r \notin Touched(req, h)
    BY <1>1, <1>2, <1>4, <2>1 DEF D!ActiveRow
  <2>4. declarations'[r] = declarations[r]
    BY <1>2, <1>3, <2>3
  <2>5. D!ActiveRow(r) /\ e \in D!Latest(r).payload.ends
    BY <1>1, <2>4 DEF D!ActiveRow, D!Declared, D!Latest
  <2>6. D!Latest(k).payload.repo' = D!Latest(k).payload.repo
    BY <1>2, <1>4, <1>5, <2>1
  <2>7. r \in D!Related(k, h)
    BY <1>0, <1>1, <2>5, <2>6 DEF D!Related, D!NamesKey
  <2> QED
    BY <2>1, <2>2, <2>3, <2>7 DEF Touched, D!AffectedKeys
<1>6. CASE k \notin Touched(req, h)
  <2>1. declarations'[k] = declarations[k]
    BY <1>2, <1>3, <1>6
  <2>2. D!Latest(k)' = D!Latest(k) /\ D!Declared(k)
    BY <1>1, <2>1 DEF D!Latest, D!Declared
  <2>3. D!Latest(k).revision \in Nat /\ D!Latest(k).revision <= revision
    <3>1. Len(declarations[k]) \in 1..Len(declarations[k]) /\ D!Latest(k) \in D!RowType(k)
      BY <1>0, <1>2, <2>2, LatestTypes
    <3>2. D!Latest(k).revision <= revision
      BY <1>2, <3>1 DEF D!IInv, D!RevisionsOwned, D!Latest
    <3> QED
      BY <3>1, <3>2 DEF D!RowType
  <2>4. CASE r \in Touched(req, h)
    BY <1>0, <1>2, <1>4, <2>2, <2>3, <2>4
  <2>5. CASE r \notin Touched(req, h)
    <3>1. declarations'[r] = declarations[r]
      BY <1>2, <1>3, <2>5
    <3>2. /\ D!Latest(r)' = D!Latest(r) /\ D!ActiveRow(r)
          /\ e \in D!Latest(r).payload.ends /\ D!Latest(k).payload.repo \in {NoRepo, e.repo}
          /\ D!Latest(k).retired
      BY <1>1, <2>2, <3>1 DEF D!ActiveRow, D!Declared, D!Latest
    <3>3. D!NamesKey(r, k, D!CommonNames)
      BY <1>1, <3>2 DEF D!NamesKey
    <3> QED
      BY <2>2, <3>2, <3>3 DEF D!IInv, D!NoDanglingRelation
  <2> QED
    BY <2>4, <2>5
<1> QED
  BY <1>5, <1>6

LEMMA ApplyStep ==
    ASSUME D!IInv, NEW o \in Ops, NEW req \in D!Requests, NEW expected \in 0..MaxRevision,
           NEW h \in D!Hosts, D!Apply(o, req, expected, h)
    PROVE  D!IInv'
<1> DEFINE receipt == D!Receipt(req, expected, "applied", h)
<1>1. /\ operations[o] = D!NoOperation /\ revision < MaxRevision /\ revision' = revision + 1
      /\ invalidations' = invalidations \cup {<<revision + 1, req.key>>}
      /\ operations' = [operations EXCEPT ![o] = receipt]
      /\ UNCHANGED <<previews, source>>
      /\ D!Current(o, req, expected, h) /\ D!Reviewed(o, req, h)
  BY DEF D!Apply, D!Current
<1>2. D!TypeOK /\ revision \in Nat /\ MaxRevision \in Nat /\ revision + 1 \in 1..MaxRevision
  BY <1>1, MetadataConstants DEF D!IInv, D!TypeOK, D!MetadataAssumption
<1>3. /\ receipt \in D!Receipts /\ receipt.status = "applied" /\ receipt.request = req
      /\ receipt.affected = D!Affected(req, h) /\ receipt.revision = revision + 1
  BY <1>1, <1>2, ReceiptTypes
<1> HIDE DEF receipt
<1>4. /\ operations' \in [Ops -> {D!NoOperation} \cup D!Receipts]
      /\ operations'[o] = receipt /\ \A x \in Ops \ {o} : operations'[x] = operations[x]
      /\ ~D!Applied(o)
  BY <1>1, <1>2, <1>3 DEF D!TypeOK, D!Applied, D!NoOperation
<1>5. D!TypeOK'
  <2>1. \A k \in D!Keys : declarations'[k] \in Seq(D!RowType(k))
    BY <1>2, NewVersions
  <2>2. req.key \in D!Keys
    BY RequestTypes
  <2> QED
    BY <1>1, <1>2, <1>4, <2>1, <2>2 DEF D!TypeOK
<1>6. D!Applied(o)' /\ \A x \in Ops \ {o} : D!Applied(x)' <=> D!Applied(x)
  BY <1>3, <1>4 DEF D!Applied
<1>7. D!Receipted(o)' = Touched(req, h) /\ \A x \in Ops \ {o} : D!Receipted(x)' = D!Receipted(x)
  <2>1. D!Receipted(o)' = {req.key} \cup {a[1] : a \in D!Affected(req, h)}
    BY <1>3, <1>4 DEF D!Receipted
  <2>2. {a[1] : a \in D!Affected(req, h)} = D!AffectedKeys(req, h)
    BY <1>2, TouchedKeys
  <2> QED
    BY <1>4, <2>1, <2>2 DEF D!Receipted, Touched
<1>8. D!RevisionsOwned'
  <2>1. \A k \in D!Keys : \A i \in 1..Len(declarations'[k]) : declarations'[k][i].revision <= revision'
    BY <1>1, StampedRows
  <2>2. ASSUME NEW n \in 1..revision' PROVE \E x \in Ops : D!Applied(x)' /\ operations'[x].revision = n
    <3>1. CASE n = revision + 1
      BY <1>3, <1>4, <1>6, <3>1
    <3>2. CASE n # revision + 1
      <4>1. n \in 1..revision
        BY <1>1, <1>2, <2>2, <3>2
      <4>2. PICK x \in Ops : D!Applied(x) /\ operations[x].revision = n
        BY <4>1 DEF D!IInv, D!RevisionsOwned
      <4> QED
        BY <1>4, <1>6, <4>2
    <3> QED
      BY <3>1, <3>2
  <2>3. ASSUME NEW x \in Ops, D!Applied(x)', x # o
        PROVE  /\ D!Applied(x) /\ operations'[x] = operations[x] /\ operations[x].revision \in 1..revision
               /\ D!RowsStamped(operations[x].revision) = D!Receipted(x)
               /\ <<operations[x].revision, operations[x].request.key>> \in invalidations
    BY <1>4, <1>6, <2>3 DEF D!IInv, D!RevisionsOwned
  <2>4. ASSUME NEW x \in Ops, NEW y \in Ops, D!Applied(x)', D!Applied(y)',
               operations'[x].revision = operations'[y].revision
        PROVE  x = y
    <3>1. CASE x # o /\ y # o
      BY <1>4, <1>6, <2>4, <3>1 DEF D!IInv, D!RevisionsOwned
    <3>2. CASE x = o /\ y # o
      <4>1. operations'[x].revision = revision + 1 /\ operations'[y].revision \in 1..revision
        BY <1>3, <1>4, <2>3, <2>4, <3>2
      <4> QED
        BY <1>2, <2>4, <4>1
    <3>3. CASE x # o /\ y = o
      <4>1. operations'[y].revision = revision + 1 /\ operations'[x].revision \in 1..revision
        BY <1>3, <1>4, <2>3, <2>4, <3>3
      <4> QED
        BY <1>2, <2>4, <4>1
    <3> QED
      BY <3>1, <3>2, <3>3
  <2>5. ASSUME NEW x \in Ops, D!Applied(x)'
        PROVE  /\ operations'[x].revision \in 1..revision'
               /\ D!RowsStamped(operations[x].revision)' = D!Receipted(x)'
               /\ <<operations'[x].revision, operations'[x].request.key>> \in invalidations'
    <3>1. CASE x = o
      <4>1. D!RowsStamped(operations[o].revision)' = D!RowsStamped(revision)'
        BY <1>1, <1>3, <1>4 DEF D!RowsStamped
      <4>2. D!RowsStamped(revision)' = Touched(req, h)
        BY StampedRows
      <4> QED
        BY <1>1, <1>2, <1>3, <1>4, <1>7, <3>1, <4>1, <4>2
    <3>2. CASE x # o
      <4>1. operations'[x] = operations[x] /\ operations[x].revision \in 1..revision
        BY <2>3, <2>5, <3>2
      <4>2. D!RowsStamped(operations[x].revision)' = D!RowsStamped(operations[x].revision)
        <5> DEFINE n == operations[x].revision
        <5>1. D!RowsStamped(n)' = {k \in D!Keys : \E i \in 1..Len(declarations'[k]) :
                                      declarations'[k][i].revision = operations[x].revision}
          BY <4>1 DEF D!RowsStamped, D!Keys
        <5>2. \A m \in 1..revision : {k \in D!Keys : \E i \in 1..Len(declarations'[k]) :
                                        declarations'[k][i].revision = m} = D!RowsStamped(m)
          BY StampedRows DEF D!RowsStamped, D!Keys
        <5> QED
          BY <4>1, <5>1, <5>2
      <4> QED
        BY <1>1, <1>2, <1>7, <2>3, <2>5, <3>2, <4>1, <4>2
    <3> QED
      BY <3>1, <3>2
  <2> QED
    BY <2>1, <2>2, <2>4, <2>5 DEF D!RevisionsOwned, D!Keys
<1>9. D!NoDanglingRelation'
  BY NoDanglingStep
<1>10. D!CarriedOutAsReviewed'
  BY <1>1, CarriedOutStep DEF receipt
<1> QED
  BY <1>5, <1>8, <1>9, <1>10 DEF D!IInv

LEMMA MetadataStep == D!IInv /\ [D!Next]_(D!vars) => D!IInv'
<1> SUFFICES ASSUME D!IInv, [D!Next]_(D!vars) PROVE D!IInv'
  OBVIOUS
<1>1. ASSUME NEW o \in Ops, NEW req \in D!Requests, NEW expected \in 0..MaxRevision, NEW h \in D!Hosts,
             \/ D!Preview(o, req, expected, h)
             \/ D!ApplyNoOp(o, req, expected, h)
             \/ D!Apply(o, req, expected, h)
      PROVE  D!IInv'
  BY <1>1, PreviewStep, ApplyNoOpStep, ApplyStep
<1>2. ASSUME \/ UNCHANGED D!vars
             \/ \E d \in Digests : D!EditSource(d)
      PROVE  D!IInv'
  <2>1. /\ UNCHANGED <<revision, declarations, operations, previews, invalidations>>
        /\ source' = source \/ source' \in Digests
    BY <1>2 DEF D!vars, D!EditSource
  <2>2. D!TypeOK' /\ D!CarriedOutAsReviewed'
    BY <2>1 DEF D!IInv, D!TypeOK, D!CarriedOutAsReviewed
  <2>3. D!RevisionsOwned'
    BY <2>1 DEF D!IInv, D!RevisionsOwned, D!Applied, D!RowsStamped, D!Receipted
  <2>4. D!NoDanglingRelation'
    BY <2>1 DEF D!IInv, D!NoDanglingRelation, D!Declared, D!ActiveRow, D!Latest, D!NamesKey, D!CommonNames,
     D!Keys
  <2> QED
    BY <2>2, <2>3, <2>4 DEF D!IInv
<1>3. revision \in 0..MaxRevision
  BY DEF D!IInv, D!TypeOK
<1> QED
  BY <1>1, <1>2, <1>3 DEF D!Next

LEMMA MetadataInvariant == D!Spec => []D!IInv
BY MetadataInit, MetadataStep, PTL DEF D!Spec

-----------------------------------------------------------------------------
(* The metadata store: theorems *)

\* However many hosts amend the store, every revision belongs to exactly one
\* applied operation, whose receipt names the rows stamped with it, and no
\* relation outlives the removal of what it names, as far as it is named as
\* every host knows it (amend).
THEOREM LogExplainsStore == D!Spec => []MetadataInv
<1>1. D!IInv => MetadataInv
  <2> SUFFICES ASSUME D!IInv PROVE D!LogExplainsRows
    BY DEF D!IInv, MetadataInv, D!MetadataInv
  <2>1. ASSUME NEW n \in 1..revision
        PROVE  Cardinality({o \in Ops : D!Applied(o) /\ operations[o].revision = n}) = 1
    <3>1. PICK o \in Ops : D!Applied(o) /\ operations[o].revision = n
      BY DEF D!IInv, D!RevisionsOwned
    <3>2. {x \in Ops : D!Applied(x) /\ operations[x].revision = n} = {o}
      BY <3>1 DEF D!IInv, D!RevisionsOwned
    <3> QED
      BY <3>2, FS_Singleton
  <2> QED
    BY <2>1, Counting DEF D!IInv, D!RevisionsOwned, D!LogExplainsRows
<1> QED
  BY <1>1, MetadataInvariant, PTL

\* An operation that was previewed and carried out, was carried out at the
\* reviewed revision on the reviewed declarations, sources and trust (amend).
THEOREM ReviewsBind == D!Spec => []CarriedOutAsReviewed
<1>1. D!IInv => CarriedOutAsReviewed
  BY DEF D!IInv, CarriedOutAsReviewed
<1> QED
  BY <1>1, MetadataInvariant, PTL

-----------------------------------------------------------------------------
(* Histories *)

LEMMA PacketsImmutable == P!Spec => P!Immutable
<1> DEFINE kept == \A p \in Packets : rows[p].state # "absent" =>
                      /\ rows'[p].state \in {rows[p].state, "expired"}
                      /\ [rows'[p] EXCEPT !.state = "stored"] = [rows[p] EXCEPT !.state = "stored"]
<1>1. P!IInv /\ [P!Next]_(P!vars) => [kept]_(P!vars)
  <2> SUFFICES ASSUME P!IInv, P!Next PROVE kept
    OBVIOUS
  <2>1. CASE rows' = rows
    BY <2>1
  <2>2. ASSUME NEW p \in Packets, NEW hash \in Hashes, NEW parents \in SUBSET Packets,
               NEW scope \in P!Scopes, NEW by \in SUBSET Owners, P!Put(p, hash, parents, scope, by)
        PROVE  kept
    BY <2>2 DEF P!Put, P!IInv, P!TypeOK
  <2>3. CASE P!Gc
    BY <2>3 DEF P!Gc, P!ExpiredRow, P!IInv, P!TypeOK
  <2> QED
    BY <2>1, <2>2, <2>3 DEF P!Next, P!Lapse, P!Pin, P!RetainJob, P!Unpin, P!ReconcileRetention,
       P!PutNote, P!DeleteNote
<1> QED
  BY <1>1, PacketInvariant, PTL DEF P!Spec, P!Immutable

LEMMA MetadataAppended == D!Spec => D!AppendOnly
<1> DEFINE kept == /\ \A o \in Ops : operations[o] # D!NoOperation => operations'[o] = operations[o]
                   /\ \A o \in Ops : previews[o].kept => previews'[o] = previews[o]
                   /\ \A k \in D!Keys : Len(declarations'[k]) >= Len(declarations[k]) /\
                         SubSeq(declarations'[k], 1, Len(declarations[k])) = declarations[k]
<1>1. D!IInv /\ [D!Next]_(D!vars) => [kept]_(D!vars)
  <2> SUFFICES ASSUME D!IInv, D!Next PROVE kept
    OBVIOUS
  <2>1. ASSUME declarations' = declarations, NEW k \in D!Keys
        PROVE  /\ Len(declarations'[k]) >= Len(declarations[k])
               /\ SubSeq(declarations'[k], 1, Len(declarations[k])) = declarations[k]
    <3>1. declarations[k] \in Seq(D!RowType(k)) /\ Len(declarations[k]) \in Nat
      BY LatestTypes DEF D!IInv
    <3> QED
      BY <2>1, <3>1, SubSeqFull
  <2>2. ASSUME NEW o \in Ops, NEW req \in D!Requests, NEW expected \in 0..MaxRevision, NEW h \in D!Hosts,
               D!Preview(o, req, expected, h)
        PROVE  kept
    BY <2>1, <2>2 DEF D!Preview, D!IInv, D!TypeOK
  <2>3. ASSUME NEW o \in Ops, NEW req \in D!Requests, NEW expected \in 0..MaxRevision, NEW h \in D!Hosts,
               D!ApplyNoOp(o, req, expected, h)
        PROVE  kept
    BY <2>1, <2>3 DEF D!ApplyNoOp, D!Current, D!IInv, D!TypeOK
  <2>4. ASSUME NEW o \in Ops, NEW req \in D!Requests, NEW expected \in 0..MaxRevision, NEW h \in D!Hosts,
               D!Apply(o, req, expected, h)
        PROVE  kept
    <3>1. ASSUME NEW k \in D!Keys
          PROVE  /\ Len(declarations'[k]) >= Len(declarations[k])
                 /\ SubSeq(declarations'[k], 1, Len(declarations[k])) = declarations[k]
      <4>1. /\ Len(declarations[k]) \in Nat
            /\ Len(declarations'[k]) = IF k \in Touched(req, h) THEN Len(declarations[k]) + 1 ELSE Len(declarations[k])
            /\ SubSeq(declarations'[k], 1, Len(declarations[k])) = declarations[k]
        BY <2>4, NewVersions DEF D!IInv
      <4> QED
        BY <4>1
    <3>2. /\ \A x \in Ops : operations[x] # D!NoOperation => operations'[x] = operations[x]
          /\ \A x \in Ops : previews[x].kept => previews'[x] = previews[x]
      BY <2>4 DEF D!Apply, D!Current, D!IInv, D!TypeOK
    <3> QED
      BY <3>1, <3>2
  <2>5. ASSUME NEW d \in Digests, D!EditSource(d) PROVE kept
    BY <2>1, <2>5 DEF D!EditSource
  <2>6. revision \in 0..MaxRevision
    BY DEF D!IInv, D!TypeOK
  <2> QED
    BY <2>2, <2>3, <2>4, <2>5, <2>6 DEF D!Next
<1> QED
  BY <1>1, MetadataInvariant, PTL DEF D!Spec, D!AppendOnly

\* Packet identities are never bound again nor revived, and receipts, reviews
\* and versions of the metadata are never rewritten (_put, gc, amend).
THEOREM HistoriesAreKept == P!Spec /\ D!Spec => HistoryKept
BY PacketsImmutable, MetadataAppended DEF HistoryKept

-----------------------------------------------------------------------------
(* The resource authorities *)

LEMMA AuthorityConstants == A!AuthorityAssumption
BY ComponentAssumptions DEF ComponentAssumptions

LEMMA NoLeaseType ==
    A!NoLease \in A!LeaseType /\ A!Starting \in A!ProcType /\ A!NoLease.state = "none"
BY AuthorityConstants
DEF A!AuthorityAssumption, A!NoLease, A!LeaseType, A!LeaseStates, A!Starting, A!ProcType, A!Steps

LEMMA AuthorityInit == A!Init => A!IInv
<1> SUFFICES ASSUME A!Init PROVE A!IInv
  OBVIOUS
<1>1. A!TypeOK
  BY AuthorityConstants, NoLeaseType DEF A!AuthorityAssumption, A!Init, A!TypeOK, A!Free
<1>2. A!SwitchCounted /\ A!LedgerKept
  BY DEF A!Init, A!SwitchCounted, A!LedgerKept
<1>3. ASSUME NEW o \in Attempts PROVE A!CallConsistent(o)
  BY DEF A!Init, A!Starting, A!CallConsistent, A!OwnReservation, A!Reclaimed, A!AnswerIsLedger,
         A!ListingHolds
<1> QED
  BY <1>1, <1>2, <1>3 DEF A!IInv

\* A process that takes a step keeps its type, and what it was about to do is
\* forgotten.
LEMMA StepType ==
    ASSUME NEW o \in Attempts, NEW pc \in A!Steps, A!TypeOK, A!Step(o, pc)
    PROVE  /\ proc' \in [Attempts -> A!ProcType]
           /\ \A x \in Attempts \ {o} : proc'[x] = proc[x]
           /\ proc'[o].pc = pc /\ proc'[o].listed = {}
<1> DEFINE now == [A!Starting EXCEPT !.pc = pc, !.gen = proc[o].gen]
<1>1. proc[o].gen \in 0..MaxRestarts
  BY DEF A!TypeOK, A!ProcType
<1>2. now \in A!ProcType /\ now.pc = pc /\ now.listed = {}
  BY <1>1, NoLeaseType DEF A!ProcType, A!Starting
<1>3. proc' = [proc EXCEPT ![o] = now] /\ proc \in [Attempts -> A!ProcType]
  BY DEF A!Step, A!TypeOK
<1> HIDE DEF now
<1> QED
  BY <1>2, <1>3

\* The ledger goes on: what it knows keeps its allocation, and a lease that
\* has ended does not become active again.
LedgerGoesOn ==
    \A x \in Attempts, w \in Wants : lease[x][w] # A!NoLease =>
        /\ lease'[x][w] # A!NoLease
        /\ lease'[x][w].gpu = lease[x][w].gpu /\ lease'[x][w].gen = lease[x][w].gen
        /\ A!Held(x, w)' => A!Held(x, w)

\* The calls of the processes that do not step stay consistent with it.
LEMMA CallFrame ==
    ASSUME A!IInv, LedgerGoesOn, NEW x \in Attempts, proc'[x] = proc[x]
    PROVE  A!CallConsistent(x)'
<1> USE DEF A!IInv, LedgerGoesOn
<1>1. A!CallConsistent(x) /\ proc[x].listed \subseteq Wants
  BY DEF A!TypeOK, A!ProcType
<1>2. A!OwnReservation(x)' /\ A!AnswerIsLedger(x)'
  BY <1>1 DEF A!CallConsistent, A!OwnReservation, A!AnswerIsLedger
<1>3. proc'[x].listed \cap A!ActiveKeys(x)' \subseteq proc[x].listed \cap A!ActiveKeys(x)
  BY <1>1 DEF A!CallConsistent, A!ListingHolds, A!ActiveKeys
<1>4. A!Reclaimed(x)' /\ A!ListingHolds(x)'
  BY <1>1, <1>3 DEF A!CallConsistent, A!Reclaimed, A!ListingHolds
<1> QED
  BY <1>2, <1>4 DEF A!CallConsistent

\* A process that takes a step without a lease in its hands has nothing to be
\* wrong about.
LEMMA StepConsistent ==
    ASSUME A!IInv, NEW o \in Attempts, LedgerGoesOn,
           NEW pc \in {"start", "local", "connected", "holds_local", "scheduler"}, A!Step(o, pc)
    PROVE  \A x \in Attempts : A!CallConsistent(x)'
<1>1. pc \in A!Steps /\ A!TypeOK
  BY DEF A!Steps, A!IInv
<1>2. /\ \A x \in Attempts \ {o} : proc'[x] = proc[x]
      /\ proc'[o].pc = pc /\ proc'[o].listed = {}
  BY <1>1, StepType
<1>3. A!CallConsistent(o)'
  BY <1>2 DEF A!CallConsistent, A!OwnReservation, A!Reclaimed, A!AnswerIsLedger, A!ListingHolds
<1> QED
  BY <1>2, <1>3, CallFrame

\* A step of one owner's process that leaves the ledger alone.
LEMMA SameLedger == ASSUME UNCHANGED lease PROVE LedgerGoesOn
BY DEF LedgerGoesOn, A!Held

\* A release, an expiry and a reclamation are changes the ledger allows.
LEMMA LeaseEnds ==
    ASSUME A!IInv, NEW o \in Attempts, NEW k \in Wants, lease[o][k] # A!NoLease,
           NEW s \in {"expired", "reclaiming", "released"},
           A!Becomes(o, k, s), s # "released" => A!Held(o, k)
    PROVE  /\ LedgerGoesOn /\ A!LedgerKept'
           /\ lease' \in [Attempts -> [Wants -> A!LeaseType]]
           /\ s = "released" => ~A!Held(o, k)'
<1>1. s \in A!LeaseStates /\ lease \in [Attempts -> [Wants -> A!LeaseType]]
  BY DEF A!IInv, A!TypeOK, A!LeaseStates
<1>2. /\ lease' \in [Attempts -> [Wants -> A!LeaseType]]
      /\ lease'[o][k].state = s
      /\ lease'[o][k].gpu = lease[o][k].gpu /\ lease'[o][k].gen = lease[o][k].gen
      /\ \A x \in Attempts, w \in Wants : <<x, w>> # <<o, k>> => lease'[x][w] = lease[x][w]
  <2> DEFINE l == [lease[o][k] EXCEPT !.state = s]
  <2>1. lease[o][k] \in [state : A!LeaseStates, gpu : GPUs \cup {NoGpu}, gen : 0..MaxRestarts]
    BY <1>1 DEF A!LeaseType
  <2>2. l \in A!LeaseType /\ l.state = s /\ l.gpu = lease[o][k].gpu /\ l.gen = lease[o][k].gen
    BY <1>1, <2>1 DEF A!LeaseType
  <2>3. lease' = [lease EXCEPT ![o] = [lease[o] EXCEPT ![k] = l]]
    BY <1>1 DEF A!Becomes
  <2> HIDE DEF l
  <2> QED
    BY <1>1, <2>2, <2>3
<1>3. LedgerGoesOn
  <2> SUFFICES ASSUME NEW x \in Attempts, NEW w \in Wants, lease[x][w] # A!NoLease
               PROVE  /\ lease'[x][w] # A!NoLease
                      /\ lease'[x][w].gpu = lease[x][w].gpu /\ lease'[x][w].gen = lease[x][w].gen
                      /\ A!Held(x, w)' => A!Held(x, w)
    BY DEF LedgerGoesOn
  <2>1. CASE <<x, w>> = <<o, k>>
    BY <1>2, <2>1, NoLeaseType DEF A!Held
  <2>2. CASE <<x, w>> # <<o, k>>
    BY <1>2, <2>2 DEF A!Held
  <2> QED
    BY <2>1, <2>2
<1>4. A!LedgerKept'
  BY <1>2 DEF A!LedgerKept, A!IInv
<1>5. s = "released" => ~A!Held(o, k)'
  BY <1>2 DEF A!Held
<1> QED
  BY <1>2, <1>3, <1>4, <1>5

\* What a release may make of a lease of the ledger.
LEMMA ReleaseEnds ==
    ASSUME A!IInv, NEW o \in Attempts, NEW k \in Wants, lease[o][k] # A!NoLease,
           NEW s, A!Released(o, k, s)
    PROVE  /\ LedgerGoesOn /\ A!LedgerKept'
           /\ lease' \in [Attempts -> [Wants -> A!LeaseType]]
           /\ s = "released" => ~A!Held(o, k)'
<1>1. lease[o][k].state \in A!LeaseStates \ {"none"}
  BY DEF A!IInv, A!TypeOK, A!LedgerKept, A!LeaseType
<1>2. s \in {"expired", "reclaiming", "released"} /\ (s # "released" => A!Held(o, k))
  BY <1>1 DEF A!Released, A!ReleaseAnswers, A!Held, A!LeaseStates
<1>3. A!Becomes(o, k, s)
  BY DEF A!Released
<1> QED
  BY <1>2, <1>3, LeaseEnds

\* A request that the scheduler handles.
LEMMA HandleStep ==
    ASSUME A!IInv, NEW r \in sent, A!HandleRequest(r)
    PROVE  A!TypeOK' /\ A!LedgerKept' /\ \A x \in Attempts : A!CallConsistent(x)'
<1> DEFINE o == r.owner
           k == r.want
           Kept == A!TypeOK' /\ A!LedgerKept' /\ \A x \in Attempts : A!CallConsistent(x)'
<1> USE DEF A!IInv
<1>1. /\ r \in A!Requests /\ o \in Attempts /\ k \in Wants /\ r.gen \in 0..MaxRestarts
      /\ proc \in [Attempts -> A!ProcType] /\ lease \in [Attempts -> [Wants -> A!LeaseType]]
      /\ sent' \subseteq A!Requests /\ UNCHANGED <<selector, switches, operator, local>>
  BY DEF A!TypeOK, A!Requests, A!HandleRequest
<1>2. CASE A!Refuse(r) /\ UNCHANGED lease
  <2>1. LedgerGoesOn /\ A!LedgerKept'
    BY <1>2, SameLedger DEF A!LedgerKept
  <2>2. CASE A!Waiting(r)
    <3>1. A!Step(o, "scheduler") /\ "scheduler" \in A!Steps
      BY <1>2, <2>2 DEF A!Refuse, A!Steps
    <3>2. \A x \in Attempts : A!CallConsistent(x)'
      BY <1>1, <2>1, <3>1, StepConsistent
    <3>3. proc' \in [Attempts -> A!ProcType]
      BY <1>1, <3>1, StepType
    <3> QED
      BY <1>1, <1>2, <2>1, <3>2, <3>3 DEF A!TypeOK
  <2>3. CASE ~A!Waiting(r)
    <3>1. UNCHANGED proc
      BY <1>2, <2>3 DEF A!Refuse
    <3> QED
      BY <1>1, <1>2, <2>1, <3>1, CallFrame DEF A!TypeOK
  <2> QED
    BY <2>2, <2>3
<1>3. ASSUME NEW l \in A!LeaseType, l # A!NoLease, A!Answer(r, l), LedgerGoesOn, A!LedgerKept',
             lease'[o][k] = l, lease' \in [Attempts -> [Wants -> A!LeaseType]]
      PROVE  Kept
  <2>1. CASE A!Waiting(r)
    <3>1. proc' = [proc EXCEPT ![o].pc = "answered", ![o].answer = l]
          /\ proc[o].pc = "asked" /\ proc[o].want = k
      BY <1>3, <2>1 DEF A!Answer, A!Waiting, A!RequestOf
    <3>2. proc' \in [Attempts -> A!ProcType]
      <4> DEFINE p == [proc[o] EXCEPT !.pc = "answered", !.answer = l]
      <4>1. proc[o] \in A!ProcType
        BY <1>1
      <4>2. p \in A!ProcType
        BY <4>1 DEF A!ProcType, A!Steps
      <4>3. proc' = [proc EXCEPT ![o] = p]
        BY <3>1
      <4> HIDE DEF p
      <4> QED
        BY <1>1, <4>2, <4>3
    <3>3. /\ proc'[o].pc = "answered" /\ proc'[o].answer = l
          /\ proc'[o].want = k /\ proc'[o].listed = proc[o].listed
      BY <1>1, <3>1 DEF A!ProcType
    <3>4. A!OwnReservation(o)' /\ A!Reclaimed(o)' /\ A!AnswerIsLedger(o)'
      BY <1>1, <1>3, <3>3 DEF A!OwnReservation, A!Reclaimed, A!AnswerIsLedger
    <3>5. A!ListingHolds(o)'
      <4>1. proc[o].listed \subseteq Wants /\ A!ListingHolds(o)
        BY <1>1 DEF A!CallConsistent, A!ProcType
      <4>2. \A w \in proc[o].listed : lease[o][w] # A!NoLease
        BY <4>1 DEF A!ListingHolds
      <4>3. \A w \in proc'[o].listed : lease'[o][w] # A!NoLease
        BY <1>1, <1>3, <3>3, <4>1, <4>2 DEF LedgerGoesOn
      <4> QED
        BY <3>3, <4>3 DEF A!ListingHolds
    <3>6. ASSUME NEW x \in Attempts, x # o PROVE A!CallConsistent(x)'
      BY <1>1, <1>3, <3>1, <3>6, CallFrame
    <3> QED
      BY <1>1, <1>3, <3>2, <3>4, <3>5, <3>6 DEF A!TypeOK, A!CallConsistent
  <2>2. CASE ~A!Waiting(r)
    <3>1. UNCHANGED proc
      BY <1>3, <2>2 DEF A!Answer
    <3> QED
      BY <1>1, <1>3, <3>1, CallFrame DEF A!TypeOK
  <2> QED
    BY <2>1, <2>2
<1>4. CASE lease[o][k] # A!NoLease /\ A!Answer(r, lease[o][k]) /\ UNCHANGED lease
  <2>1. LedgerGoesOn /\ A!LedgerKept' /\ lease'[o][k] = lease[o][k] /\ lease[o][k] \in A!LeaseType
    BY <1>1, <1>4, SameLedger DEF A!LedgerKept
  <2> QED
    BY <1>1, <1>3, <1>4, <2>1
<1>5. ASSUME lease[o][k] = A!NoLease, NEW g \in GPUs, NEW l, l = [state |-> "active", gpu |-> g, gen |-> r.gen],
             lease' = [lease EXCEPT ![o][k] = l], A!Answer(r, l)
      PROVE  Kept
  <2>1. l \in A!LeaseType /\ l # A!NoLease /\ l.state = "active"
    BY <1>1, <1>5, NoLeaseType DEF A!LeaseType, A!LeaseStates
  <2>2. /\ lease' \in [Attempts -> [Wants -> A!LeaseType]] /\ lease'[o][k] = l
        /\ \A x \in Attempts, w \in Wants : <<x, w>> # <<o, k>> => lease'[x][w] = lease[x][w]
    BY <1>1, <1>5, <2>1
  <2>3. LedgerGoesOn /\ A!LedgerKept'
    BY <1>5, <2>1, <2>2 DEF LedgerGoesOn, A!Held, A!LedgerKept
  <2> QED
    BY <1>3, <1>5, <2>1, <2>2, <2>3
<1> QED
  BY <1>2, <1>4, <1>5 DEF A!HandleRequest

LEMMA AuthorityStep == A!IInv /\ [A!Next]_(A!vars) => A!IInv'
<1> SUFFICES ASSUME A!IInv, [A!Next]_(A!vars) PROVE A!IInv'
  OBVIOUS
<1> DEFINE Calls == \A x \in Attempts : A!CallConsistent(x)'
           Kept == A!TypeOK' /\ A!LedgerKept' /\ Calls
<1> USE AuthorityConstants DEF A!AuthorityAssumption, A!IInv
<1>a. /\ proc \in [Attempts -> A!ProcType] /\ lease \in [Attempts -> [Wants -> A!LeaseType]]
      /\ \A x \in Attempts : A!CallConsistent(x)
  BY DEF A!TypeOK
<1>b. UNCHANGED lease => LedgerGoesOn /\ A!LedgerKept'
  BY SameLedger DEF A!LedgerKept
<1>1. ASSUME NEW o \in Attempts, NEW pc \in {"start", "local", "connected", "holds_local", "scheduler"},
             A!Step(o, pc), LedgerGoesOn
      PROVE  Calls /\ proc' \in [Attempts -> A!ProcType]
  <2>1. pc \in A!Steps
    BY DEF A!Steps
  <2> QED
    BY <1>1, <2>1, StepConsistent, StepType
<1>2. ASSUME NEW o \in Attempts, NEW p \in A!ProcType, proc' = [proc EXCEPT ![o] = p], LedgerGoesOn,
             p.pc \notin {"answered", "reject", "holds_lease", "releasing", "freed"},
             p.pc = "asked" => p.want \in Wants,
             p.listed \subseteq proc[o].listed
      PROVE  Calls /\ proc' \in [Attempts -> A!ProcType]
  <2>1. proc' \in [Attempts -> A!ProcType] /\ proc'[o] = p /\ \A x \in Attempts \ {o} : proc'[x] = proc[x]
    BY <1>a, <1>2
  <2>2. \A w \in p.listed : w \in Wants /\ lease'[o][w] # A!NoLease
    BY <1>a, <1>2 DEF A!CallConsistent, A!ListingHolds, A!ProcType, LedgerGoesOn
  <2>3. A!CallConsistent(o)'
    BY <1>2, <2>1, <2>2 DEF A!CallConsistent, A!OwnReservation, A!Reclaimed, A!AnswerIsLedger, A!ListingHolds
  <2> QED
    BY <1>2, <2>1, <2>3, CallFrame
<1>3. ASSUME NEW o \in Attempts, NEW g \in GPUs, A!Connect(o, g) PROVE Kept
  <2> DEFINE p == [proc[o] EXCEPT !.pc = "connected", !.gpu = g]
  <2>1. proc[o] \in A!ProcType
    BY <1>a
  <2>2. p \in A!ProcType /\ p.pc = "connected" /\ p.listed = proc[o].listed
    BY <2>1 DEF A!ProcType, A!Steps
  <2>3. proc' = [proc EXCEPT ![o] = p]
    BY <1>3 DEF A!Connect
  <2> HIDE DEF p
  <2>4. Calls /\ proc' \in [Attempts -> A!ProcType]
    BY <1>b, <1>2, <1>3, <2>2, <2>3 DEF A!Connect
  <2> QED
    BY <1>b, <1>3, <2>4 DEF A!Connect, A!TypeOK
<1>4. ASSUME NEW o \in Attempts, NEW g \in GPUs, NEW k \in Wants, A!SendRequest(o, k, g) PROVE Kept
  <2> DEFINE p == [A!Starting EXCEPT !.pc = "asked", !.gen = proc[o].gen, !.want = k, !.gpu = g]
  <2>1. proc[o].gen \in 0..MaxRestarts
    BY <1>a DEF A!ProcType
  <2>2. p \in A!ProcType /\ p.pc = "asked" /\ p.want = k /\ p.listed = {}
    BY <2>1, NoLeaseType DEF A!ProcType, A!Steps, A!Starting
  <2>3. proc' = [proc EXCEPT ![o] = p]
    BY <1>4 DEF A!SendRequest
  <2> HIDE DEF p
  <2>4. Calls /\ proc' \in [Attempts -> A!ProcType]
    BY <1>b, <1>2, <1>4, <2>2, <2>3 DEF A!SendRequest
  <2>5. A!RequestOf(o, k, g) \in A!Requests
    BY <2>1 DEF A!RequestOf, A!Requests
  <2> QED
    BY <1>b, <1>4, <2>4, <2>5 DEF A!SendRequest, A!TypeOK
<1>5. ASSUME NEW o \in Attempts, A!Construct(o) \/ A!Timeout(o) \/ A!HeartbeatFails(o) PROVE Kept
  <2>1. /\ UNCHANGED <<selector, switches, operator, local, sent, lease>>
        /\ \E pc \in {"local", "scheduler"} : A!Step(o, pc)
    BY <1>5 DEF A!Construct, A!Timeout, A!HeartbeatFails
  <2> QED
    BY <1>b, <1>1, <2>1 DEF A!TypeOK
<1>6. ASSUME NEW o \in Attempts, A!ReleaseLocal(o) PROVE Kept
  <2>1. A!Free \in [owner : Attempts \cup {NoOwner}, gen : 0..MaxRestarts]
    BY DEF A!Free
  <2>2. local' \in [GPUs -> [owner : Attempts \cup {NoOwner}, gen : 0..MaxRestarts]]
    BY <1>6, <2>1 DEF A!ReleaseLocal, A!TypeOK
  <2> QED
    BY <1>b, <1>1, <1>6, <2>2 DEF A!ReleaseLocal, A!TypeOK
<1>7. ASSUME NEW o \in Attempts, A!ReserveLocal(o) PROVE Kept
  <2>1. CASE A!Step(o, "local") /\ UNCHANGED local
    BY <1>b, <1>1, <1>7, <2>1 DEF A!ReserveLocal, A!TypeOK
  <2>2. CASE /\ local' = [local EXCEPT ![proc[o].gpu] = [owner |-> o, gen |-> proc[o].gen]]
             /\ proc' = [proc EXCEPT ![o].pc = "holds_local"]
    <3> DEFINE p == [proc[o] EXCEPT !.pc = "holds_local"]
    <3>1. proc[o] \in A!ProcType /\ proc[o].gen \in 0..MaxRestarts
      BY <1>a DEF A!ProcType
    <3>2. p \in A!ProcType /\ p.pc = "holds_local" /\ p.listed = proc[o].listed
      BY <3>1 DEF A!ProcType, A!Steps
    <3>3. proc' = [proc EXCEPT ![o] = p]
      BY <2>2
    <3> HIDE DEF p
    <3>4. Calls /\ proc' \in [Attempts -> A!ProcType]
      BY <1>b, <1>2, <1>7, <3>2, <3>3 DEF A!ReserveLocal
    <3>5. local' \in [GPUs -> [owner : Attempts \cup {NoOwner}, gen : 0..MaxRestarts]]
      BY <2>2, <3>1 DEF A!TypeOK
    <3> QED
      BY <1>b, <1>7, <3>4, <3>5 DEF A!ReserveLocal, A!TypeOK
  <2> QED
    BY <1>7, <2>1, <2>2 DEF A!ReserveLocal
<1>8. ASSUME NEW r \in sent, A!LoseRequest(r) PROVE Kept
  BY <1>b, <1>8, CallFrame DEF A!LoseRequest, A!TypeOK
<1>9. ASSUME NEW o \in Attempts, A!Restart(o) PROVE Kept
  <2> DEFINE p == [A!Starting EXCEPT !.gen = proc[o].gen + 1]
  <2>1. proc[o].gen + 1 \in 0..MaxRestarts
    BY <1>a, <1>9 DEF A!ProcType, A!Restart
  <2>2. p \in A!ProcType /\ p.pc = "start" /\ p.listed = {}
    BY <2>1, NoLeaseType DEF A!ProcType, A!Starting
  <2>3. proc' = [proc EXCEPT ![o] = p]
    BY <1>9 DEF A!Restart
  <2> HIDE DEF p
  <2>4. Calls /\ proc' \in [Attempts -> A!ProcType]
    BY <1>b, <1>2, <1>9, <2>2, <2>3 DEF A!Restart
  <2> QED
    BY <1>b, <1>9, <2>4 DEF A!Restart, A!TypeOK
<1>10. ASSUME NEW o \in Attempts, NEW k \in Wants, A!Expire(o, k) \/ A!Reclaim(o, k) PROVE Kept
  <2>1. PICK s \in {"expired", "released"} : A!Becomes(o, k, s) /\ (s # "released" => A!Held(o, k))
    BY <1>10 DEF A!Expire, A!Reclaim, A!Held
  <2>2. lease[o][k] # A!NoLease
    BY <1>10, NoLeaseType DEF A!Expire, A!Reclaim
  <2>3. s \in {"expired", "reclaiming", "released"}
    OBVIOUS
  <2>4. LedgerGoesOn /\ A!LedgerKept' /\ lease' \in [Attempts -> [Wants -> A!LeaseType]]
    BY <2>1, <2>2, <2>3, LeaseEnds
  <2> QED
    BY <1>10, <2>4, CallFrame DEF A!Expire, A!Reclaim, A!TypeOK
<1>11. ASSUME A!CheckLocalEmpty \/ A!CheckNoLeases \/ A!WriteSelector PROVE Kept /\ A!SwitchCounted'
  <2>1. UNCHANGED <<local, sent, lease, proc>>
    BY <1>11 DEF A!CheckLocalEmpty, A!CheckNoLeases, A!WriteSelector
  <2>2. A!LedgerKept' /\ Calls
    BY <1>b, <2>1, CallFrame
  <2>3. A!TypeOK' /\ A!SwitchCounted'
    BY <1>11, <2>1
    DEF A!CheckLocalEmpty, A!CheckNoLeases, A!WriteSelector, A!SwitchCounted, A!TypeOK
  <2> QED
    BY <2>2, <2>3
<1>12. ASSUME UNCHANGED A!vars PROVE Kept
  <2>1. UNCHANGED <<selector, switches, operator, local, sent, lease, proc>>
    BY <1>12 DEF A!vars
  <2> QED
    BY <1>b, <2>1, CallFrame DEF A!TypeOK
<1>13. ASSUME NEW o \in Attempts, A!Receive(o) PROVE Kept
  <2>1. UNCHANGED <<selector, switches, operator, local, sent, lease>>
    BY <1>13 DEF A!Receive
  <2>2. CASE A!Verdict(o) = "scheduler"
    BY <1>b, <1>1, <1>13, <2>1, <2>2 DEF A!Receive, A!TypeOK
  <2>3. CASE A!Verdict(o) # "scheduler"
    <3> DEFINE p == [proc[o] EXCEPT !.pc = A!Verdict(o), !.gpu = proc[o].answer.gpu]
    <3>1. proc[o] \in A!ProcType /\ proc[o].pc = "answered" /\ A!AnswerIsLedger(o) /\ A!ListingHolds(o)
      BY <1>a, <1>13 DEF A!Receive, A!CallConsistent
    <3>2. /\ A!Verdict(o) \in {"reject", "holds_lease"} /\ A!Verdict(o) \in A!Steps
          /\ A!Verdict(o) = "holds_lease" => proc[o].answer.gen = proc[o].gen
      BY <2>3 DEF A!Verdict, A!Steps
    <3>3. proc[o].answer.gpu \in GPUs \cup {NoGpu}
      BY <3>1 DEF A!ProcType, A!LeaseType
    <3>4. /\ p \in A!ProcType /\ p.pc = A!Verdict(o) /\ p.gpu = proc[o].answer.gpu
          /\ p.gen = proc[o].gen /\ p.want = proc[o].want /\ p.answer = proc[o].answer
          /\ p.listed = proc[o].listed
      BY <3>1, <3>2, <3>3 DEF A!ProcType
    <3>5. proc' = [proc EXCEPT ![o] = p]
      BY <1>13, <2>3 DEF A!Receive
    <3> HIDE DEF p
    <3>6. /\ proc' \in [Attempts -> A!ProcType] /\ proc'[o] = p
          /\ \A x \in Attempts \ {o} : proc'[x] = proc[x]
      BY <1>a, <3>4, <3>5
    <3>7. A!CallConsistent(o)'
      BY <2>1, <3>1, <3>2, <3>4, <3>6
      DEF A!CallConsistent, A!OwnReservation, A!Reclaimed, A!AnswerIsLedger, A!ListingHolds
    <3>8. Calls
      BY <1>b, <2>1, <3>6, <3>7, CallFrame
    <3> QED
      BY <1>b, <2>1, <3>6, <3>8 DEF A!TypeOK
  <2> QED
    BY <2>2, <2>3
<1>14. ASSUME NEW o \in Attempts, A!RejectGrant(o) PROVE Kept
  <2>1. proc[o].want \in Wants /\ lease[o][proc[o].want] # A!NoLease
    BY <1>a, <1>14 DEF A!RejectGrant, A!CallConsistent, A!AnswerIsLedger
  <2>2. LedgerGoesOn /\ A!LedgerKept' /\ lease' \in [Attempts -> [Wants -> A!LeaseType]]
    <3>1. CASE UNCHANGED lease
      BY <1>a, <1>b, <3>1
    <3>2. ASSUME NEW s \in A!LeaseStates, A!Released(o, proc[o].want, s)
          PROVE  LedgerGoesOn /\ A!LedgerKept' /\ lease' \in [Attempts -> [Wants -> A!LeaseType]]
      BY <2>1, <3>2, ReleaseEnds
    <3> QED
      BY <1>14, <3>1, <3>2 DEF A!RejectGrant
  <2> QED
    BY <1>1, <1>14, <2>2 DEF A!RejectGrant, A!TypeOK
<1>15. ASSUME NEW o \in Attempts, A!ListLeases(o) PROVE Kept
  <2>1. UNCHANGED <<selector, switches, operator, local, sent, lease>>
    BY <1>15 DEF A!ListLeases
  <2>2. CASE A!Step(o, "scheduler")
    BY <1>b, <1>1, <2>1, <2>2 DEF A!TypeOK
  <2>3. ASSUME NEW p \in A!ProcType, proc' = [proc EXCEPT ![o] = p], p.pc \in {"freed", "releasing"},
               p.listed = {k \in Wants : lease[o][k] # A!NoLease},
               p.pc = "freed" => A!ActiveKeys(o) = {},
               p.pc = "releasing" => p.want \in Wants /\ A!ActiveKeys(o) = {p.want}
        PROVE  Kept
    <3>1. /\ proc' \in [Attempts -> A!ProcType] /\ proc'[o] = p
          /\ \A x \in Attempts \ {o} : proc'[x] = proc[x]
      BY <1>a, <2>3
    <3>2. A!ActiveKeys(o)' = A!ActiveKeys(o)
      BY <2>1 DEF A!ActiveKeys, A!Held
    <3>3. p.pc = "releasing" => lease[o][p.want] # A!NoLease
      BY <2>3, NoLeaseType DEF A!ActiveKeys, A!Held
    <3>4. A!CallConsistent(o)'
      BY <2>1, <2>3, <3>1, <3>2, <3>3
      DEF A!CallConsistent, A!OwnReservation, A!Reclaimed, A!AnswerIsLedger, A!ListingHolds
    <3>5. Calls
      BY <1>b, <2>1, <3>1, <3>4, CallFrame
    <3> QED
      BY <1>b, <2>1, <3>1, <3>5 DEF A!TypeOK
  <2> DEFINE known == {k \in Wants : lease[o][k] # A!NoLease}
  <2>4. A!Listing(o) \in A!ProcType /\ A!Listing(o).listed = known
    <3>1. proc[o].gen \in 0..MaxRestarts
      BY <1>a DEF A!ProcType
    <3> QED
      BY <3>1, NoLeaseType DEF A!Listing, A!ProcType, A!Starting
  <2>5. CASE A!ActiveKeys(o) = {} /\ proc' = [proc EXCEPT ![o] = [A!Listing(o) EXCEPT !.pc = "freed"]]
    <3> DEFINE p == [A!Listing(o) EXCEPT !.pc = "freed"]
    <3>1. p \in A!ProcType /\ p.pc = "freed" /\ p.listed = known
      BY <2>4 DEF A!ProcType, A!Steps
    <3>2. proc' = [proc EXCEPT ![o] = p]
      BY <2>5
    <3> HIDE DEF p
    <3> QED
      BY <2>3, <2>5, <3>1, <3>2
  <2>6. ASSUME NEW k \in A!Sole(o),
               proc' = [proc EXCEPT ![o] = [A!Listing(o) EXCEPT !.pc = "releasing", !.want = k]]
        PROVE  Kept
    <3> DEFINE p == [A!Listing(o) EXCEPT !.pc = "releasing", !.want = k]
    <3>1. k \in Wants /\ A!ActiveKeys(o) = {k}
      BY <2>6 DEF A!Sole
    <3>2. p \in A!ProcType /\ p.pc = "releasing" /\ p.want = k /\ p.listed = known
      BY <2>4, <3>1 DEF A!ProcType, A!Steps
    <3>3. proc' = [proc EXCEPT ![o] = p]
      BY <2>6
    <3> HIDE DEF p
    <3> QED
      BY <2>3, <3>1, <3>2, <3>3
  <2> QED
    BY <1>15, <2>2, <2>5, <2>6 DEF A!ListLeases
<1>16. ASSUME NEW o \in Attempts, A!ReleaseLease(o) PROVE Kept
  <2>1. /\ proc[o] \in A!ProcType /\ proc[o].pc = "releasing" /\ proc[o].want \in Wants
        /\ lease[o][proc[o].want] # A!NoLease
        /\ proc[o].listed \cap A!ActiveKeys(o) \subseteq {proc[o].want}
        /\ proc[o].listed \subseteq Wants
        /\ \A w \in proc[o].listed : lease[o][w] # A!NoLease
    BY <1>a, <1>16 DEF A!ReleaseLease, A!CallConsistent, A!ListingHolds, A!ProcType
  <2>2. ASSUME NEW s, A!Released(o, proc[o].want, s)
        PROVE  /\ LedgerGoesOn /\ A!LedgerKept' /\ lease' \in [Attempts -> [Wants -> A!LeaseType]]
               /\ s = "released" => lease'[o][proc[o].want].state \notin {"active", "expired", "reclaiming"}
    <3>1. PICK k \in Wants : k = proc[o].want
      BY <2>1
    <3>2. A!Released(o, k, s) /\ lease[o][k] # A!NoLease
      BY <2>1, <2>2, <3>1
    <3>3. /\ LedgerGoesOn /\ A!LedgerKept' /\ lease' \in [Attempts -> [Wants -> A!LeaseType]]
          /\ s = "released" => ~A!Held(o, k)'
      BY <3>2, ReleaseEnds
    <3> QED
      BY <3>1, <3>3 DEF A!Held
  <2>3. CASE A!Step(o, "scheduler")
    <3>1. LedgerGoesOn /\ A!LedgerKept' /\ lease' \in [Attempts -> [Wants -> A!LeaseType]]
      BY <1>a, <1>b, <1>16, <2>2 DEF A!ReleaseLease
    <3> QED
      BY <1>1, <1>16, <2>3, <3>1 DEF A!ReleaseLease, A!TypeOK
  <2>4. CASE /\ A!Released(o, proc[o].want, "released")
             /\ proc' = [proc EXCEPT ![o].pc = "freed", ![o].want = NoWant]
    <3> DEFINE p == [proc[o] EXCEPT !.pc = "freed", !.want = NoWant]
    <3>1. p \in A!ProcType /\ p.pc = "freed" /\ p.listed = proc[o].listed
      BY <2>1 DEF A!ProcType, A!Steps
    <3>2. proc' = [proc EXCEPT ![o] = p]
      BY <2>4
    <3> HIDE DEF p
    <3>3. /\ proc' \in [Attempts -> A!ProcType] /\ proc'[o] = p
          /\ \A x \in Attempts \ {o} : proc'[x] = proc[x]
      BY <1>a, <3>1, <3>2
    <3>4. /\ LedgerGoesOn /\ A!LedgerKept' /\ lease' \in [Attempts -> [Wants -> A!LeaseType]]
          /\ lease'[o][proc[o].want].state \notin {"active", "expired", "reclaiming"}
      BY <2>2, <2>4
    <3>5. \A w \in proc[o].listed : ~A!Held(o, w)' /\ lease'[o][w] # A!NoLease
      BY <2>1, <3>4 DEF LedgerGoesOn, A!ActiveKeys, A!Held
    <3>6. A!Reclaimed(o)' /\ A!ListingHolds(o)'
      <4>1. proc'[o].pc = "freed" /\ proc'[o].listed = proc[o].listed
        BY <3>1, <3>3
      <4>2. proc[o].listed \cap A!ActiveKeys(o)' = {}
        BY <3>5 DEF A!ActiveKeys
      <4> QED
        BY <3>5, <4>1, <4>2 DEF A!Reclaimed, A!ListingHolds
    <3>7. A!CallConsistent(o)'
      BY <3>1, <3>3, <3>6 DEF A!CallConsistent, A!OwnReservation, A!AnswerIsLedger
    <3>8. Calls
      BY <3>3, <3>4, <3>7, CallFrame
    <3> QED
      BY <1>16, <3>3, <3>4, <3>8 DEF A!ReleaseLease, A!TypeOK
  <2> QED
    BY <1>16, <2>3, <2>4 DEF A!ReleaseLease
<1>17. Kept
  BY <1>3, <1>4, <1>5, <1>6, <1>7, <1>8, <1>9, <1>10, <1>11, <1>12, <1>13, <1>14, <1>15, <1>16, HandleStep
  DEF A!Next
<1>18. A!SwitchCounted'
  <2>1. CASE UNCHANGED <<operator, switches>>
    BY <2>1 DEF A!SwitchCounted
  <2>2. A!CheckLocalEmpty \/ A!CheckNoLeases \/ A!WriteSelector \/ UNCHANGED <<operator, switches>>
    BY DEF A!Next, A!vars, A!Connect, A!SendRequest, A!HandleRequest, A!LoseRequest, A!Construct,
           A!ReserveLocal, A!ReleaseLocal, A!Timeout, A!Receive, A!RejectGrant, A!HeartbeatFails,
           A!ListLeases, A!ReleaseLease, A!Restart, A!Expire, A!Reclaim
  <2> QED
    BY <1>11, <2>1, <2>2
<1> QED
  BY <1>17, <1>18

\* What reserve_background returned is the caller's own reservation, and a
\* release that returned has seen every lease of its owner reclaimed, for any
\* number of attempts, requests, GPUs, restarts, lost and late answers and
\* switches of the authority (reserve_background, release, _current_lease).
THEOREM ReservationsAreReclaimed == A!Spec => []AuthorityInv
<1>1. A!IInv => AuthorityInv
  BY DEF A!IInv, A!CallConsistent, AuthorityInv, A!AuthorityInv, A!ReservationIsOwn, A!FreedIsReclaimed
<1> QED
  BY <1>1, AuthorityInit, AuthorityStep, PTL DEF A!Spec

-----------------------------------------------------------------------------
(* The routing migration *)

LEMMA MigrationConstants == M!MigrationAssumption
BY ComponentAssumptions DEF ComponentAssumptions

\* The front doors are distinct values, and what is planned is a state of the
\* three files.
LEMMA DoorFacts ==
    /\ M!Installed # M!NoProject /\ M!Installed # M!NoDoor /\ M!NoProject # M!NoDoor
    /\ M!Installed \notin FrontDoors /\ M!NoDoor \notin FrontDoors /\ M!NoProject \notin FrontDoors
BY MigrationConstants DEF M!MigrationAssumption, M!Installed, M!NoDoor, M!NoProject

LEMMA PlannedType ==
    ASSUME NEW d \in M!Disks, NEW remove \in BOOLEAN
    PROVE  M!Planned(d, remove) \in M!Disks
BY DEF M!Disks, M!Planned, M!PlannedDoor, M!RecordedPrevious, M!updated_agents, M!Markers, M!Doors,
       M!NoRecord

\* Writing one file.
LEMMA FileWritten ==
    ASSUME NEW d \in M!Disks, NEW e \in M!Disks, NEW f \in M!Files
    PROVE  [d EXCEPT ![f] = e[f]] \in M!Disks
BY DEF M!Disks, M!Files

LEMMA SameFiles ==
    ASSUME NEW d \in M!Disks, NEW e \in M!Disks, \A f \in M!Files : d[f] = e[f]
    PROVE  d = e
BY DEF M!Disks, M!Files

LEMMA FirstFile ==
    ASSUME NEW files \in SUBSET M!Files, files # {}
    PROVE  M!First(files) \in files
BY DEF M!Files, M!First

\* A call is idle or has all its fields.
LEMMA CallFields ==
    ASSUME M!TypeOK, run.pc # "idle"
    PROVE  /\ run \in [pc : {"write", "undo", "failed"}, remove : BOOLEAN, plan : M!Disks,
                       originals : M!Disks, todo : SUBSET M!Files, undo : SUBSET M!Files]
           /\ run.plan \in M!Disks /\ run.originals \in M!Disks /\ run.remove \in BOOLEAN
           /\ run.todo \subseteq M!Files /\ run.undo \subseteq M!Files
BY DEF M!TypeOK, M!Calls

\* A plan made from consistent files is consistent; after a removal the front
\* door is the one of before.
LEMMA PlanIsConsistent ==
    ASSUME NEW d \in M!Disks, NEW remove \in BOOLEAN, M!Consistent(d)
    PROVE  /\ M!Consistent(M!Planned(d, remove))
           /\ remove => /\ M!Planned(d, remove).project = before
                        /\ M!Planned(d, remove).record = M!NoRecord
<1> DEFINE p == M!Planned(d, remove)
           norm == IF before = M!NoProject THEN M!NoDoor ELSE before
           door == IF before = M!NoProject THEN M!NoProject ELSE M!Installed
<1>1. /\ p.project = M!PlannedDoor(d, remove)
      /\ p.record = IF remove THEN M!NoRecord ELSE [kept |-> TRUE, previous |-> M!RecordedPrevious(d)]
  BY DEF M!Planned
<1>2. CASE d.record = M!NoRecord /\ d.project = before
  <2>1. d.record.kept = FALSE
    BY <1>2 DEF M!NoRecord
  <2>2. M!RecordedPrevious(d) = norm
    BY <1>2, <2>1 DEF M!RecordedPrevious
  <2>3. /\ remove => M!PlannedDoor(d, remove) = before
        /\ ~remove => M!PlannedDoor(d, remove) = door
    BY <1>2, <2>1 DEF M!PlannedDoor
  <2> QED
    BY <1>1, <2>2, <2>3 DEF M!Consistent
<1>3. CASE d.record = [kept |-> TRUE, previous |-> norm] /\ d.project \in {before, door}
  <2>1. d.record.kept = TRUE /\ d.record.previous = norm
    BY <1>3
  <2>2. M!RecordedPrevious(d) = norm
    BY <2>1 DEF M!RecordedPrevious
  <2>3. /\ remove => M!PlannedDoor(d, remove) = before
        /\ ~remove => M!PlannedDoor(d, remove) = door
    BY <1>3, <2>1, DoorFacts DEF M!PlannedDoor
  <2> QED
    BY <1>1, <2>2, <2>3 DEF M!Consistent
<1> QED
  BY <1>2, <1>3 DEF M!Consistent

\* Files that a call left with its new front door and the old record are
\* consistent, unless the old front door is lost.
LEMMA TornIsConsistent ==
    ASSUME NEW d \in M!Disks, NEW remove \in BOOLEAN, M!Consistent(d), NEW e \in M!Disks,
           e.record = d.record, e.project \in {d.project, M!Planned(d, remove).project},
           ~(e.project # before /\ ~e.record.kept)
    PROVE  M!Consistent(e)
<1> DEFINE norm == IF before = M!NoProject THEN M!NoDoor ELSE before
           door == IF before = M!NoProject THEN M!NoProject ELSE M!Installed
<1>1. CASE d.record = M!NoRecord /\ d.project = before
  BY <1>1 DEF M!Consistent, M!NoRecord
<1>2. CASE d.record = [kept |-> TRUE, previous |-> norm] /\ d.project \in {before, door}
  <2>1. M!Planned(d, remove).project = M!PlannedDoor(d, remove)
    BY DEF M!Planned
  <2>2. M!PlannedDoor(d, remove) \in {before, door}
    BY <1>2, DoorFacts DEF M!PlannedDoor
  <2> QED
    BY <1>2, <2>1, <2>2 DEF M!Consistent
<1> QED
  BY <1>1, <1>2 DEF M!Consistent

LEMMA MigrationInit == M!Init => M!IInv
<1> SUFFICES ASSUME M!Init PROVE M!IInv
  OBVIOUS
<1>1. /\ disk.record = M!NoRecord /\ disk.project = before /\ before \in M!Doors
      /\ disk \in M!Disks
  <2>1. /\ disk \in [agents : M!Markers, project : M!Doors, record : {M!NoRecord}]
        /\ before = disk.project
    BY DEF M!Init
  <2>2. M!NoRecord \in [kept : BOOLEAN, previous : M!Doors]
    BY DEF M!NoRecord, M!Doors
  <2> QED
    BY <2>1, <2>2 DEF M!Disks
<1>2. run \in M!Calls /\ run.pc = "idle" /\ lost = FALSE /\ crashes = 0 /\ runs = 0
  BY DEF M!Init, M!Idle, M!Calls
<1>3. M!TypeOK
  <2>1. lost \in BOOLEAN
    BY <1>2, Zenon
  <2> QED
    BY <1>1, <1>2, <2>1, MigrationConstants DEF M!MigrationAssumption, M!TypeOK
<1>4. M!Progress
  BY <1>2 DEF M!Progress
<1> QED
  BY <1>1, <1>2, <1>3, <1>4 DEF M!IInv, M!Consistent

LEMMA MigrationStep == M!IInv /\ [M!Next]_(M!vars) => M!IInv'
<1> SUFFICES ASSUME M!IInv, [M!Next]_(M!vars) PROVE M!IInv'
  OBVIOUS
<1>a. M!TypeOK /\ M!Progress
  BY DEF M!IInv
<1>b. MaxRuns \in Nat /\ MaxCrashes \in Nat
  BY MigrationConstants DEF M!MigrationAssumption
<1>1. ASSUME NEW remove \in BOOLEAN, NEW reformat \in BOOLEAN, M!Migrate(remove, reformat) PROVE M!IInv'
  <2> DEFINE plan == M!Planned(disk, remove)
             todo == M!Changes(plan, reformat)
  <2>1. plan \in M!Disks /\ todo \subseteq M!Files
    BY <1>a, PlannedType DEF M!TypeOK, M!Changes
  <2>2. run' = [pc |-> "write", remove |-> remove, plan |-> plan, todo |-> todo,
                originals |-> disk, undo |-> todo]
    BY <1>1 DEF M!Migrate
  <2>3. UNCHANGED <<disk, before, lost, crashes>> /\ run.pc = "idle"
    BY <1>1 DEF M!Migrate
  <2>4. M!TypeOK'
    BY <1>a, <1>b, <1>1, <2>1, <2>2 DEF M!Migrate, M!TypeOK, M!Calls
  <2>5. M!Progress'
    <3>1. \A f \in M!Files : f \notin todo => plan[f] = disk[f]
      BY DEF M!Changes
    <3>2. "record" \in M!Files
      BY DEF M!Files
    <3>3. "record" \notin todo => plan.record = disk.record
      BY <3>1, <3>2
    <3>4. run'.plan = M!Planned(run'.originals, run'.remove)
      BY <2>2
    <3>5. /\ run'.pc = "write" /\ run'.todo = todo /\ run'.undo = todo /\ run'.plan = plan
          /\ run'.originals = disk
      BY <2>2
    <3> HIDE DEF todo, plan
    <3> QED
      BY <2>3, <3>1, <3>3, <3>4, <3>5 DEF M!Progress, M!Planned, M!PlannedDoor, M!RecordedPrevious
  <2> QED
    BY <2>2, <2>3, <2>4, <2>5 DEF M!IInv, M!Consistent
<1>2. CASE M!WriteNext
  <2> DEFINE f == M!First(run.todo)
  <2>1. /\ run.pc = "write" /\ f \in run.todo /\ f \in M!Files
        /\ disk' = [disk EXCEPT ![f] = run.plan[f]]
        /\ run' = [run EXCEPT !.todo = @ \ {f}]
        /\ UNCHANGED <<before, lost, runs, crashes>>
    BY <1>a, <1>2, CallFields, FirstFile DEF M!WriteNext
  <2>2. disk' \in M!Disks /\ \A g \in M!Files : disk'[g] = (IF g = f THEN run.plan ELSE disk)[g]
    <3> HIDE DEF f
    <3>1. disk \in M!Disks /\ run.plan \in M!Disks
      BY <1>a, <2>1, CallFields DEF M!TypeOK
    <3>2. disk' \in M!Disks
      BY <2>1, <3>1, FileWritten
    <3>3. DOMAIN disk = M!Files
      BY <3>1 DEF M!Disks, M!Files
    <3> QED
      BY <2>1, <3>2, <3>3
  <2>3. /\ run'.pc = "write" /\ run'.todo = run.todo \ {f} /\ run'.undo = run.undo
        /\ run'.plan = run.plan /\ run'.originals = run.originals /\ run'.remove = run.remove
        /\ run' \in M!Calls
    BY <1>a, <2>1, CallFields DEF M!Calls
  <2>4. M!TypeOK'
    BY <1>a, <2>1, <2>2, <2>3 DEF M!TypeOK
  <2>5. run'.todo # {} /\ "record" \notin run'.todo => run'.plan.record = run'.originals.record
    <3>1. run.todo \subseteq M!Files
      BY <1>a, <2>1, CallFields
    <3>2. f = "record" => run.todo = {"record"}
      BY <2>1, <3>1 DEF M!First, M!Files
    <3>3. run.todo # {} /\ "record" \notin run.todo => run.plan.record = run.originals.record
      BY <1>a, <2>1 DEF M!Progress
    <3> QED
      BY <2>3, <3>2, <3>3
  <2>6. M!Progress'
    BY <1>a, <2>1, <2>2, <2>3, <2>5 DEF M!Progress, M!Planned, M!PlannedDoor, M!RecordedPrevious
  <2> QED
    BY <2>1, <2>3, <2>4, <2>6 DEF M!IInv, M!Consistent
<1>3. CASE M!WriteFails
  <2>1. /\ run.pc = "write" /\ run.todo # {} /\ run' = [run EXCEPT !.pc = "undo"]
        /\ UNCHANGED <<disk, before, lost, runs, crashes>>
    BY <1>3 DEF M!WriteFails
  <2>2. /\ run'.pc = "undo" /\ run'.undo = run.undo /\ run'.plan = run.plan
        /\ run'.originals = run.originals /\ run'.remove = run.remove
        /\ run' \in M!Calls
    BY <1>a, <2>1, CallFields DEF M!Calls
  <2>3. run.undo # {} /\ \A f \in M!Files \ run.undo : disk[f] = run.originals[f]
    BY <1>a, <2>1, CallFields DEF M!Progress
  <2>4. disk.project \in {run.originals.project, run.plan.project} /\ disk.record = run.originals.record
    BY <1>a, <2>1 DEF M!Progress, M!Files
  <2> QED
    BY <1>a, <2>1, <2>2, <2>3, <2>4
    DEF M!IInv, M!Consistent, M!TypeOK, M!Progress, M!Planned, M!PlannedDoor, M!RecordedPrevious
<1>4. CASE M!RestoreNext
  <2> DEFINE f == M!First(run.undo)  left == run.undo \ {f}
  <2>1. /\ run.pc = "undo" /\ f \in run.undo /\ f \in M!Files
        /\ disk' = [disk EXCEPT ![f] = run.originals[f]]
        /\ run' = [run EXCEPT !.undo = left, !.pc = IF left = {} THEN "failed" ELSE "undo"]
        /\ UNCHANGED <<before, lost, runs, crashes>>
    BY <1>a, <1>4, CallFields, FirstFile DEF M!RestoreNext, M!Progress
  <2>2. disk' \in M!Disks /\ \A g \in M!Files : disk'[g] = (IF g = f THEN run.originals ELSE disk)[g]
    <3> HIDE DEF f
    <3>1. disk \in M!Disks /\ run.originals \in M!Disks
      BY <1>a, <2>1, CallFields DEF M!TypeOK
    <3>2. disk' \in M!Disks
      BY <2>1, <3>1, FileWritten
    <3>3. DOMAIN disk = M!Files
      BY <3>1 DEF M!Disks, M!Files
    <3> QED
      BY <2>1, <3>2, <3>3
  <2>3. /\ run'.pc = (IF left = {} THEN "failed" ELSE "undo") /\ run'.undo = left
        /\ run'.plan = run.plan /\ run'.originals = run.originals /\ run'.remove = run.remove
        /\ run' \in M!Calls
    BY <1>a, <2>1, CallFields DEF M!Calls
  <2>4. \A g \in M!Files \ left : disk'[g] = run.originals[g]
    BY <1>a, <2>1, <2>2 DEF M!Progress
  <2>5. left = {} => disk' = run.originals
    <3>1. run.originals \in M!Disks
      BY <1>a, <2>1, CallFields
    <3>2. ASSUME left = {} PROVE disk' = run.originals
      <4>1. \A g \in M!Files : disk'[g] = run.originals[g]
        BY <2>4, <3>2
      <4> QED
        BY <2>2, <3>1, <4>1, SameFiles
    <3> QED
      BY <3>2
  <2>6. disk'.project \in {run.originals.project, run.plan.project} /\ disk'.record = run.originals.record
    BY <1>a, <2>1, <2>2 DEF M!Progress, M!Files
  <2>7. M!Progress'
    BY <1>a, <2>1, <2>3, <2>4, <2>5, <2>6 DEF M!Progress, M!Planned, M!PlannedDoor, M!RecordedPrevious
  <2> QED
    BY <1>a, <2>1, <2>2, <2>3, <2>7 DEF M!IInv, M!Consistent, M!TypeOK
<1>5. CASE M!Return
  <2>1. /\ run.pc # "idle" /\ run' = [pc |-> "idle", remove |-> run.remove]
        /\ UNCHANGED <<disk, before, lost, runs, crashes>>
    BY <1>5 DEF M!Return, M!Idle
  <2>2. M!TypeOK' /\ M!Progress'
    BY <1>a, <2>1, CallFields DEF M!TypeOK, M!Calls, M!Progress
  <2>3. ~lost => M!Consistent(disk)
    <3>1. CASE run.pc = "failed"
      BY <1>a, <3>1 DEF M!IInv, M!Progress
    <3>2. CASE run.pc = "write" /\ run.todo = {}
      <4>1. disk = run.plan /\ run.plan = M!Planned(run.originals, run.remove)
        BY <1>a, <3>2, CallFields, SameFiles DEF M!Progress, M!TypeOK
      <4> QED
        BY <1>a, <2>1, <4>1, CallFields, PlanIsConsistent DEF M!IInv
    <3> QED
      BY <1>5, <3>1, <3>2 DEF M!Return
  <2> QED
    BY <2>1, <2>2, <2>3 DEF M!IInv, M!Consistent
<1>6. CASE M!Crash \/ M!RestoreFails
  <2>1. /\ run.pc \in {"write", "undo"} /\ run' = [pc |-> "idle", remove |-> FALSE]
        /\ lost' = (lost \/ (disk.project # before /\ ~disk.record.kept))
        /\ UNCHANGED <<disk, before, runs>> /\ crashes' \in 0..MaxCrashes
    BY <1>a, <1>b, <1>6 DEF M!Crash, M!RestoreFails, M!Abandon, M!Idle, M!TypeOK
  <2>2. M!TypeOK' /\ M!Progress'
    BY <1>a, <2>1 DEF M!TypeOK, M!Calls, M!Progress
  <2>3. ~lost' => M!Consistent(disk)
    <3> SUFFICES ASSUME ~lost' PROVE M!Consistent(disk)
      OBVIOUS
    <3>1. ~lost /\ ~(disk.project # before /\ ~disk.record.kept)
      BY <2>1
    <3>2. /\ M!Consistent(run.originals) /\ disk \in M!Disks /\ run.originals \in M!Disks
          /\ run.remove \in BOOLEAN /\ run.plan \in M!Disks
          /\ run.plan = M!Planned(run.originals, run.remove)
      BY <1>a, <2>1, <3>1, CallFields DEF M!IInv, M!TypeOK, M!Progress
    <3>3. CASE run.pc = "write" /\ run.todo = {}
      <4>1. disk = run.plan
        BY <1>a, <3>2, <3>3, SameFiles DEF M!Progress
      <4> QED
        BY <3>2, <4>1, PlanIsConsistent
    <3>4. CASE run.pc = "undo" \/ run.todo # {}
      <4>1. disk.project \in {run.originals.project, run.plan.project} /\ disk.record = run.originals.record
        BY <1>a, <2>1, <3>4 DEF M!Progress, M!Files
      <4> QED
        BY <3>1, <3>2, <4>1, TornIsConsistent
    <3> QED
      BY <2>1, <3>3, <3>4
  <2> QED
    BY <2>1, <2>2, <2>3 DEF M!IInv, M!Consistent
<1>7. CASE UNCHANGED M!vars
  BY <1>7 DEF M!vars, M!IInv, M!TypeOK, M!Progress, M!Consistent, M!Planned, M!PlannedDoor, M!RecordedPrevious
<1> QED
  BY <1>1, <1>2, <1>3, <1>4, <1>5, <1>6, <1>7 DEF M!Next

\* A migration that was rolled back left the three files as it found them, an
\* apply that returned repaired what any number of crashes and failed
\* rollbacks had left, and a removal gives back the front door of before
\* unless one of them hit between the new front door and its first record
\* (migrate, _apply_all).
THEOREM MigrationIsReversible == M!Spec => []MigrationInv
<1>1. M!IInv => MigrationInv
  <2> SUFFICES ASSUME M!IInv PROVE MigrationInv
    OBVIOUS
  <2>1. M!TypeOK /\ M!Progress
    BY DEF M!IInv
  <2>2. M!RolledBack
    BY <2>1 DEF M!Progress, M!RolledBack
  <2>3. ASSUME run.pc = "write", run.todo = {}
        PROVE  disk = run.plan /\ run.plan = M!Planned(run.originals, run.remove)
    BY <2>1, <2>3, CallFields, SameFiles DEF M!Progress, M!TypeOK
  <2>4. M!ApplyCompletes
    BY <2>3 DEF M!ApplyCompletes, M!Completed, M!Planned, M!PlannedDoor, M!updated_agents
  <2>5. M!RemoveRestores
    BY <2>1, <2>3, CallFields, PlanIsConsistent
    DEF M!RemoveRestores, M!Completed, M!Planned, M!updated_agents, M!IInv
  <2> QED
    BY <2>1, <2>2, <2>4, <2>5 DEF MigrationInv, M!MigrationInv
<1> QED
  BY <1>1, MigrationInit, MigrationStep, PTL DEF M!Spec
=============================================================================
