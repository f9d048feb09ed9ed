---------------------------- MODULE MetadataStore ----------------------------
(***************************************************************************)
(* The append-only store of project metadata: declarations with versions,  *)
(* amended under a per-project revision, with previews that bind a later   *)
(* apply to what was reviewed and receipts that make a repeated operation  *)
(* a replay.  One call of amend is one SQLite transaction; several hosts,  *)
(* each with its own configuration, share the store.                       *)
(***************************************************************************)
EXTENDS Naturals, Sequences, FiniteSets

CONSTANTS
    Idents,       \* registered identities
    Relations,    \* registered relations
    Providers,    \* configured providers
    Repos,        \* repositories that identities and endpoints name
    NoRepo,       \* of a declaration without a repository
    Names,        \* project_uuid values: of this workspace and of others
    Ends,         \* the source and target a relation may be registered with
    Digests,      \* contents of the source that declarations are anchored to
    Trusts,       \* provider allowlists that the hosts' configurations hold
    HostNames,    \* _workspace_identities: the names of the workspace a host knows
    Ops,          \* operation ids
    MaxRevision   \* bound: amendments applied

Keys      == Idents \cup Relations \cup Providers
Endpoints == [key : Keys, name : Names, repo : Repos]

MetadataAssumption ==
    /\ MaxRevision \in Nat /\ NoRepo \notin Repos
    /\ Idents \cap Relations = {} /\ Providers \cap Relations = {}
    /\ Ends \subseteq SUBSET Endpoints /\ HostNames \subseteq SUBSET Names

\* What the hosts may differ in: the configured allowlist and the identities
\* of the workspace, cached without the native ones when no Todo authority
\* answered.
Hosts == [trust : Trusts, names : HostNames]

VARIABLES
    revision,      \* metadata_projects.revision
    declarations,  \* key -> its versions, oldest first
    operations,    \* operation id -> its row, or NoOperation
    previews,      \* operation id -> its row, or NoPreview
    invalidations, \* pairs of a revision and an entity
    source         \* content of the anchored source file

vars == <<revision, declarations, operations, previews, invalidations, source>>

NoOperation == [status |-> "none"]
NoPreview   == [kept |-> FALSE]
Payloads(k) ==
    [ends : IF k \in Relations THEN Ends ELSE {{}}, repo : IF k \in Idents THEN Repos ELSE {NoRepo},
     anchor : Digests]
\* A removal names the exact version; its payload has no other content.
Registrations(k) == [action : {"register"}, key : {k}, payload : Payloads(k)]
Removals == [action : {"remove"}, key : Keys, version : 1..MaxRevision, anchor : Digests]
Requests == Removals \cup UNION {Registrations(k) : k \in Keys}

Init ==
    /\ revision = 0
    /\ declarations = [k \in Keys |-> <<>>]
    /\ operations = [o \in Ops |-> NoOperation]
    /\ previews = [o \in Ops |-> NoPreview]
    /\ invalidations = {}
    /\ source \in Digests

-----------------------------------------------------------------------------
(* What a request would change *)

Declared(k) == declarations[k] # <<>>
Latest(k)   == declarations[k][Len(declarations[k])]
ActiveRow(k) == Declared(k) /\ ~Latest(k).retired

\* validate_sources: the anchored bytes are the current ones.
SourcesValid(req) == source = IF req.action = "register" THEN req.payload.anchor ELSE req.anchor

\* _validate_metadata_amendment: the host knows the project of every endpoint
\* of a relation, its own or another one.
EndsKnown(req, h) ==
    req.action = "register" =>
        \A e \in req.payload.ends : e.name \in h.names \cup (Names \ UNION HostNames)

\* Relation r has k as its source or target, under one of the names, and in
\* k's repository if k has one.
NamesKey(r, k, names) ==
    \E e \in Latest(r).payload.ends :
        /\ e.key = k /\ e.name \in names
        /\ Latest(k).payload.repo \in {NoRepo, e.repo}

\* The active relations that name a registration that is removed.
Related(k, h) == {r \in Relations : ActiveRow(r) /\ NamesKey(r, k, h.names)}

\* registration_stale unless the removal names the current active version.
Admissible(req) ==
    req.action = "remove" => ActiveRow(req.key) /\ Len(declarations[req.key]) = req.version

AffectedKeys(req, h) ==
    IF req.action = "remove" THEN {req.key} \cup Related(req.key, h)
    ELSE {k \in {req.key} : Declared(k)}
Affected(req, h) == {<<k, Len(declarations[k])>> : k \in AffectedKeys(req, h)}

NoOp(req) ==
    req.action = "register" /\ ActiveRow(req.key) /\ Latest(req.key).payload = req.payload

\* review_digest: what the reviewer of a preview was shown.  The trust is
\* part of it for providers only.
Review(req, h) ==
    [affected |-> Affected(req, h), anchor |-> source,
     trust |-> IF req.action = "register" /\ req.key \in Providers THEN {h.trust} ELSE {}]

\* The rows that an applied request appends.
RowsOf(req, k, h) ==
    IF k = req.key /\ req.action = "register"
    THEN <<[payload |-> req.payload, retired |-> FALSE, revision |-> revision + 1]>>
    ELSE IF req.action = "remove" /\ k \in AffectedKeys(req, h)
    THEN <<[payload |-> Latest(k).payload, retired |-> TRUE, revision |-> revision + 1]>>
    ELSE <<>>

-----------------------------------------------------------------------------
(* amend *)

\* The checks before anything is planned: an operation that was applied is a
\* replay or a conflict and changes nothing; a preview binds the request and
\* the revision; the revision is compared, and the request checked.
Current(o, req, expected, h) ==
    /\ operations[o] = NoOperation
    /\ previews[o].kept => previews[o].request = req /\ previews[o].expected = expected
    /\ revision = expected
    /\ SourcesValid(req) /\ Admissible(req) /\ EndsKnown(req, h)

\* mode "preview": the review is stored once; a repeated preview that differs
\* is refused and an equal one changes nothing.
Preview(o, req, expected, h) ==
    /\ Current(o, req, expected, h)
    /\ ~previews[o].kept
    /\ previews' = [previews EXCEPT ![o] = [kept |-> TRUE, request |-> req, expected |-> expected,
                                            review |-> Review(req, h)]]
    /\ UNCHANGED <<revision, declarations, operations, invalidations, source>>

(* Mutant: an apply compares the reviewed declarations only. *)
ReviewedAffected(o, req, h) ==
    previews[o].kept => previews[o].review.affected = Review(req, h).affected

\* project_metadata_review_stale unless the review still holds.
Reviewed(o, req, h) == previews[o].kept => previews[o].review = Review(req, h)

Receipt(req, expected, status, h) ==
    [status |-> status, request |-> req, expected |-> expected,
     revision |-> IF status = "applied" THEN revision + 1 ELSE revision,
     affected |-> Affected(req, h), review |-> Review(req, h)]

(* Mutant: an amendment without an effect takes a revision. *)
ApplyNoOpCounted(o, req, expected, h) ==
    /\ Current(o, req, expected, h) /\ Reviewed(o, req, h) /\ NoOp(req)
    /\ revision < MaxRevision /\ revision' = revision + 1
    /\ operations' = [operations EXCEPT ![o] = Receipt(req, expected, "noop", h)]
    /\ UNCHANGED <<declarations, previews, invalidations, source>>

\* mode "apply" of what is declared already: only the receipt is stored.
ApplyNoOp(o, req, expected, h) ==
    /\ Current(o, req, expected, h) /\ Reviewed(o, req, h) /\ NoOp(req)
    /\ operations' = [operations EXCEPT ![o] = Receipt(req, expected, "noop", h)]
    /\ UNCHANGED <<revision, declarations, previews, invalidations, source>>

\* mode "apply": the next revision, a new version of every affected row, the
\* invalidation of the amended entity and the receipt, in one transaction.
\* (A relation that names itself cannot be removed: its new version would be
\* inserted twice, and the transaction is rolled back.)
Apply(o, req, expected, h) ==
    /\ Current(o, req, expected, h) /\ Reviewed(o, req, h) /\ ~NoOp(req)
    /\ req.action = "remove" => req.key \notin Related(req.key, h)
    /\ revision < MaxRevision /\ revision' = revision + 1
    /\ declarations' = [k \in Keys |-> declarations[k] \o RowsOf(req, k, h)]
    /\ invalidations' = invalidations \cup {<<revision + 1, req.key>>}
    /\ operations' = [operations EXCEPT ![o] = Receipt(req, expected, "applied", h)]
    /\ UNCHANGED <<previews, source>>

\* The anchored source file is edited.
EditSource(d) ==
    /\ source' = d
    /\ UNCHANGED <<revision, declarations, operations, previews, invalidations>>

\* A call that expects another revision than the current one is refused by
\* Current, so the others need not be tried.
Next ==
    \/ \E o \in Ops, req \in Requests, expected \in {revision}, h \in Hosts :
          \/ Preview(o, req, expected, h)
          \/ ApplyNoOp(o, req, expected, h)
          \/ Apply(o, req, expected, h)
    \/ \E d \in Digests : EditSource(d)

Spec == Init /\ [][Next]_vars

-----------------------------------------------------------------------------
(* Properties *)

Applied(o) == operations[o].status = "applied"

RowType(k) == [payload : Payloads(k), retired : BOOLEAN, revision : 1..MaxRevision]
Versions   == SUBSET (Keys \X Nat)
Reviews    == [affected : Versions, anchor : Digests, trust : SUBSET Trusts]
Receipts   == [status : {"noop", "applied"}, request : Requests, expected : 0..MaxRevision,
               revision : 0..MaxRevision, affected : Versions, review : Reviews]
KeptPreviews ==
    [kept : {TRUE}, request : Requests, expected : 0..MaxRevision, review : Reviews]

\* Types: the tables of the store.
TypeOK ==
    /\ revision \in 0..MaxRevision /\ source \in Digests
    /\ \A k \in Keys : declarations[k] \in Seq(RowType(k))
    /\ operations \in [Ops -> {NoOperation} \cup Receipts]
    /\ previews \in [Ops -> {NoPreview} \cup KeptPreviews]
    /\ invalidations \subseteq (1..MaxRevision) \X Keys

\* The log explains the tables: every revision belongs to exactly one applied
\* operation, and the rows stamped with it are the ones the receipt of that
\* operation names (with the registered key), each once.
RowsStamped(n) == {k \in Keys : \E i \in 1..Len(declarations[k]) : declarations[k][i].revision = n}
Receipted(o) == {operations[o].request.key} \cup {a[1] : a \in operations[o].affected}
LogExplainsRows ==
    \A n \in 1..revision :
        /\ Cardinality({o \in Ops : Applied(o) /\ operations[o].revision = n}) = 1
        /\ \A o \in Ops : Applied(o) /\ operations[o].revision = n =>
              RowsStamped(n) = Receipted(o) /\ <<n, operations[o].request.key>> \in invalidations

\* A removal leaves no relation behind, in whichever host it is carried out:
\* an active relation that names a removed registration, in its repository
\* and under a name of the workspace that every host knows, was registered
\* after the removal.  (A relation under a native name stays active when the
\* removing host does not know that name, and a relation at a relation that
\* is retired with its own endpoint is not followed.)
CommonNames == {n \in Names : \A S \in HostNames : n \in S}
NoDanglingRelation ==
    \A k \in Keys \ Relations, r \in Relations :
        Declared(k) /\ Latest(k).retired /\ ActiveRow(r) /\ NamesKey(r, k, CommonNames)
        => Latest(r).revision > Latest(k).revision

\* The log accounts for every row, and removals leave nothing dangling.
MetadataInv == TypeOK /\ LogExplainsRows /\ NoDanglingRelation

\* An operation that was previewed and then carried out was carried out at
\* the reviewed revision, on the declarations, sources and trust reviewed.
CarriedOutAsReviewed ==
    \A o \in Ops : operations[o] # NoOperation /\ previews[o].kept =>
        /\ operations[o].request = previews[o].request
        /\ operations[o].expected = previews[o].expected
        /\ operations[o].review = previews[o].review

\* Receipts, reviews and versions are never rewritten.
AppendOnly ==
    [][/\ \A o \in Ops : operations[o] # NoOperation => operations'[o] = operations[o]
       /\ \A o \in Ops : previews[o].kept => previews'[o] = previews[o]
       /\ \A k \in Keys : Len(declarations'[k]) >= Len(declarations[k]) /\
             SubSeq(declarations'[k], 1, Len(declarations[k])) = declarations[k]]_vars

\* Every applied operation has a revision of its own, every revision has an
\* operation and explains its rows, and no row is ahead of the store.
RevisionsOwned ==
    /\ \A k \in Keys : \A i \in 1..Len(declarations[k]) : declarations[k][i].revision <= revision
    /\ \A n \in 1..revision : \E o \in Ops : Applied(o) /\ operations[o].revision = n
    /\ \A o, x \in Ops : Applied(o) /\ Applied(x) /\ operations[o].revision = operations[x].revision => o = x
    /\ \A o \in Ops : Applied(o) =>
          /\ operations[o].revision \in 1..revision
          /\ RowsStamped(operations[o].revision) = Receipted(o)
          /\ <<operations[o].revision, operations[o].request.key>> \in invalidations

\* The inductive invariant.
IInv == TypeOK /\ RevisionsOwned /\ NoDanglingRelation /\ CarriedOutAsReviewed
=============================================================================
