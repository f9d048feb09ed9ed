----------------------------- MODULE PacketStore -----------------------------
(***************************************************************************)
(* The information packet store: immutable packets with shared bodies,     *)
(* parents and an access scope; pins of jobs and knowledge notes; expiry   *)
(* and garbage collection.  Every operation is one SQLite transaction, so  *)
(* every action is atomic; what is hard is the long run: which rows,       *)
(* bodies and pins are left after any sequence of them.                    *)
(***************************************************************************)
EXTENDS Naturals, FiniteSets

CONSTANTS
    Packets,                \* packet identities (an alias is one more name)
    Hashes,                 \* payload digests
    Facts,                  \* key-value pairs an access scope is made of
    Owners,                 \* retention owners: jobs
    Notes,                  \* knowledge notes
    recent_terminal_limit,  \* terminal jobs whose pins are kept
    MaxNotes                \* _MAX_NOTES_PER_PROJECT

PacketAssumption ==
    /\ recent_terminal_limit \in Nat /\ MaxNotes \in Nat
    /\ Owners \cap Notes = {} /\ Hashes # {}

VARIABLES
    rows,       \* packet -> its row
    lapsed,     \* packets whose expires_at has passed
    bodies,     \* digests whose payload is stored
    pins,       \* pairs of an owner and a packet
    retention,  \* owner -> its row of the retention table
    updated,    \* the order of the column updated: pairs of an older and a newer row
    notes       \* note -> the evidence it cites, or NoNote

vars == <<rows, lapsed, bodies, pins, retention, updated, notes>>

Scopes == SUBSET Facts \ {{}}
NoRow  == [state |-> "absent", hash |-> CHOOSE x \in Hashes : TRUE, parents |-> {}, scope |-> {}]
NoNote == [cited |-> {}, kept |-> FALSE]

Init ==
    /\ rows = [p \in Packets |-> NoRow] /\ lapsed = {} /\ bodies = {}
    /\ pins = {} /\ retention = [o \in Owners |-> "none"] /\ updated = {}
    /\ notes = [n \in Notes |-> NoNote]

Stored(p) == rows[p].state = "stored"

\* _authorized: every fact the packet requires is among the supplied ones.
authorized(required, supplied) == required # {} /\ supplied # {} /\ required \subseteq supplied

\* _live_ids: unexpired packets and pinned ones, with all their ancestors.
Roots == {q[2] : q \in pins} \cup {p \in Packets : Stored(p) /\ p \notin lapsed}
ParentClosed(S) == \A p \in S : rows[p].parents \subseteq S
live_ids == {p \in Packets : \A S \in SUBSET Packets : Roots \subseteq S /\ ParentClosed(S) => p \in S}

\* Whether a reference resolves for a caller of the store as the package
\* builds it, without an authority_access callback.
lookup(p, scope) ==
    IF rows[p].state = "absent" THEN "not_found"
    ELSE IF ~authorized(rows[p].scope, scope) THEN "forbidden"
    ELSE IF ~Stored(p) \/ p \notin live_ids THEN "expired" ELSE "ok"

\* expires_at of a packet with a time to live passes.
Lapse(p) ==
    /\ rows[p].state # "absent" /\ p \notin lapsed
    /\ lapsed' = lapsed \cup {p}
    /\ UNCHANGED <<rows, bodies, pins, retention, updated, notes>>

(* Mutant: the parents' scopes are not compared with the child's. *)
PutAnyScope(p, hash, parents, scope, by) ==
    /\ rows[p].state = "absent"
    /\ \A q \in parents : Stored(q) /\ q \in live_ids
    /\ rows' = [rows EXCEPT ![p] = [state |-> "stored", hash |-> hash, parents |-> parents,
                                    scope |-> scope]]
    /\ bodies' = bodies \cup {hash} /\ pins' = pins \cup (by \X {p})
    /\ UNCHANGED <<lapsed, retention, updated, notes>>

(* Mutant: the identity of an expired packet is used again. *)
PutReused(p, hash, parents, scope, by) ==
    /\ ~Stored(p)
    /\ \A q \in parents : Stored(q) /\ q \in live_ids /\ authorized(rows[q].scope, scope)
    /\ rows' = [rows EXCEPT ![p] = [state |-> "stored", hash |-> hash, parents |-> parents,
                                    scope |-> scope]]
    /\ bodies' = bodies \cup {hash} /\ pins' = pins \cup (by \X {p})
    /\ UNCHANGED <<lapsed, retention, updated, notes>>

\* _put: a new identity with live parents inside its scope.  The body is
\* stored once per digest, and the owners of pinned_by are pinned with it.
\* Putting an identical packet again changes nothing, another one under the
\* same identity is refused.
Put(p, hash, parents, scope, by) ==
    /\ rows[p].state = "absent"
    /\ \A q \in parents : Stored(q) /\ q \in live_ids /\ authorized(rows[q].scope, scope)
    /\ rows' = [rows EXCEPT ![p] = [state |-> "stored", hash |-> hash, parents |-> parents,
                                    scope |-> scope]]
    /\ bodies' = bodies \cup {hash} /\ pins' = pins \cup (by \X {p})
    /\ UNCHANGED <<lapsed, retention, updated, notes>>

Pinnable(refs) == \A p \in refs : Stored(p) /\ p \in live_ids

\* pin and unpin.
Pin(o, refs) ==
    /\ Pinnable(refs)
    /\ pins' = pins \cup ({o} \X refs)
    /\ UNCHANGED <<rows, lapsed, bodies, retention, updated, notes>>
Unpin(o) ==
    /\ pins' = {q \in pins : q[1] # o}
    /\ UNCHANGED <<rows, lapsed, bodies, retention, updated, notes>>

Retained(table) == {o \in Owners : table[o] # "none"}

\* The finished jobs that were updated after o's row.
Newer(table, order, o) == {x \in Owners : table[x] = "terminal" /\ <<o, x>> \in order}

\* The finished jobs beyond the newest recent_terminal_limit ones.
Surplus(table, order) ==
    {o \in Owners : /\ table[o] = "terminal"
                    /\ Cardinality(Newer(table, order, o)) >= recent_terminal_limit}

\* retain_job: pin, replace the job's row by a newest one and drop the
\* surplus with their pins.
RetainJob(o, refs, terminal) ==
    LET table == [retention EXCEPT ![o] = IF terminal THEN "terminal" ELSE "running"]
        order == {q \in updated : q[1] # o /\ q[2] # o} \cup ((Retained(retention) \ {o}) \X {o})
        stale == Surplus(table, order)
    IN  /\ Pinnable(refs)
        /\ pins' = {q \in pins \cup ({o} \X refs) : q[1] \notin stale}
        /\ retention' = [x \in Owners |-> IF x \in stale THEN "none" ELSE table[x]]
        /\ updated' = {q \in order : q[1] \notin stale /\ q[2] \notin stale}
        /\ UNCHANGED <<rows, lapsed, bodies, notes>>

\* reconcile_retention: the references that still resolve for a retained
\* owner are pinned, owners no longer retained lose their pins.
ReconcileRetention(refs, scope, unpin_owners) ==
    LET pinned == {q \in refs : lookup(q[2], scope) = "ok"}
    IN  /\ pins' = {q \in pins \cup pinned : q[1] \notin unpin_owners}
        /\ UNCHANGED <<rows, lapsed, bodies, retention, updated, notes>>

(* Mutant: the collection looks at expires_at only. *)
CollectableByAge == {p \in Packets : Stored(p) /\ p \in lapsed}

\* The packets that a collection expires.
Collectable == {p \in Packets : Stored(p)} \ live_ids

ExpiredRow(r) == [r EXCEPT !.state = "expired"]

\* gc: packets that are no longer alive expire for good; a body goes when no
\* unexpired packet uses its digest.
BodiesAfter(gone) ==
    bodies \cap {rows[p].hash : p \in {q \in Packets : Stored(q)} \ gone}
Gc ==
    /\ rows' = [p \in Packets |-> IF p \in Collectable THEN ExpiredRow(rows[p]) ELSE rows[p]]
    /\ bodies' = BodiesAfter(Collectable)
    /\ UNCHANGED <<lapsed, pins, retention, updated, notes>>

\* put_note: the evidence must resolve for the writer; the pins of the note
\* are replaced and the note stored in the same transaction.
Repinned(n, refs) == {q \in pins : q[1] # n} \cup ({n} \X refs)
PutNote(n, refs, scope) ==
    /\ \A p \in refs : Stored(p) /\ p \in live_ids /\ authorized(rows[p].scope, scope)
    /\ notes[n].kept \/ Cardinality({m \in Notes : notes[m].kept}) < MaxNotes
    /\ pins' = Repinned(n, refs)
    /\ notes' = [notes EXCEPT ![n] = [cited |-> refs, kept |-> TRUE]]
    /\ UNCHANGED <<rows, lapsed, bodies, retention, updated>>

DeleteNote(n) ==
    /\ notes[n].kept
    /\ pins' = {q \in pins : q[1] # n}
    /\ notes' = [notes EXCEPT ![n] = NoNote]
    /\ UNCHANGED <<rows, lapsed, bodies, retention, updated>>

\* Several references of one call are pinned one by one in its transaction,
\* so single references reach the same tables.
Next ==
    \/ \E p \in Packets : Lapse(p)
    \/ \E p \in Packets, hash \in Hashes, parents \in SUBSET Packets, scope \in Scopes, by \in SUBSET Owners :
          Put(p, hash, parents, scope, by)
    \/ \E o \in Owners, p \in Packets : Pin(o, {p})
    \/ \E o \in Owners, p \in Packets, terminal \in BOOLEAN : RetainJob(o, {p}, terminal)
    \/ \E o \in Owners : Unpin(o)
    \/ \E o \in Owners, p \in Packets, scope \in Scopes, out \in SUBSET Owners :
          ReconcileRetention({<<o, p>>}, scope, out)
    \/ Gc
    \/ \E n \in Notes, refs \in SUBSET Packets, scope \in Scopes : PutNote(n, refs, scope)
    \/ \E n \in Notes : DeleteNote(n)

Spec == Init /\ [][Next]_vars

-----------------------------------------------------------------------------
(* Properties *)

\* Types: the tables of the packet database.
TypeOK ==
    /\ rows \in [Packets -> [state : {"absent", "stored", "expired"}, hash : Hashes,
                             parents : SUBSET Packets, scope : SUBSET Facts]]
    /\ lapsed \subseteq Packets /\ bodies \subseteq Hashes
    /\ pins \subseteq (Owners \cup Notes) \X Packets
    /\ retention \in [Owners -> {"none", "running", "terminal"}]
    /\ updated \subseteq Retained(retention) \X Retained(retention)
    /\ notes \in [Notes -> [cited : SUBSET Packets, kept : BOOLEAN]]

\* The body of every packet that has not expired is stored: lookup never
\* meets "packet body missing: storage corruption".
BodyStored == \A p \in Packets : Stored(p) => rows[p].hash \in bodies

\* Nothing that is alive has been collected: neither a pinned packet nor an
\* ancestor of one, after any sequence of pins, expiries and collections.
LiveIsStored == \A p \in live_ids : Stored(p)

\* A packet that resolves for a caller has parents that resolve for the same
\* caller: provenance never leads to a missing or a forbidden packet.
ParentsResolve ==
    \A p \in Packets, scope \in Scopes :
        lookup(p, scope) = "ok" => \A q \in rows[p].parents : lookup(q, scope) = "ok"

\* The evidence that a stored note cites stays in the store.
EvidenceKept ==
    \A n \in Notes : notes[n].kept => \A p \in notes[n].cited : Stored(p) /\ p \in live_ids

\* At most recent_terminal_limit finished jobs are retained.
TerminalBounded ==
    Cardinality({o \in Owners : retention[o] = "terminal"}) <= recent_terminal_limit

\* What collection and retention leave: bodies, ancestors and evidence of
\* everything alive, and no more finished jobs than the limit.
PacketInv == TypeOK /\ BodyStored /\ LiveIsStored /\ EvidenceKept /\ TerminalBounded

\* A packet identity is immutable: it is never bound again and never comes
\* back once it has expired.
Immutable ==
    [][\A p \in Packets : rows[p].state # "absent" =>
          /\ rows'[p].state \in {rows[p].state, "expired"}
          /\ [rows'[p] EXCEPT !.state = "stored"] = [rows[p] EXCEPT !.state = "stored"]]_vars

\* What is pinned is stored, and so are the parents of what is stored.
Rooted ==
    /\ \A q \in pins : Stored(q[2])
    /\ \A p \in Packets : Stored(p) => \A q \in rows[p].parents : Stored(q)

\* A parent requires no more of a reader than its child.
ScopesNested ==
    \A p \in Packets : \A q \in rows[p].parents :
        rows[q].state # "absent" /\ rows[q].scope # {} /\ rows[q].scope \subseteq rows[p].scope

\* The evidence of a note is pinned by the note.
EvidencePinned == \A n \in Notes : notes[n].kept => \A p \in notes[n].cited : <<n, p>> \in pins

\* The rows of the retention table are finitely many, and totally ordered.
TotalOrder(order, R) ==
    /\ \A x \in R : <<x, x>> \notin order
    /\ \A x, y \in R : x # y => <<x, y>> \in order \/ <<y, x>> \in order
    /\ \A x, y, z \in R : <<x, y>> \in order /\ <<y, z>> \in order => <<x, z>> \in order
RetentionOrdered ==
    IsFiniteSet(Retained(retention)) /\ TotalOrder(updated, Retained(retention))

\* The inductive invariant.
IInv ==
    /\ TypeOK /\ BodyStored /\ Rooted /\ ScopesNested /\ EvidencePinned
    /\ RetentionOrdered /\ TerminalBounded
=============================================================================
