---------------------------- MODULE MCComponents ----------------------------
(***************************************************************************)
(* Four components that share no state: the packet store, the metadata     *)
(* store, the routing migration and the resource authorities.  A step of   *)
(* one says nothing about the others, so it is enough to explore each of   *)
(* them while the others rest.                                             *)
(***************************************************************************)
EXTENDS Naturals, Sequences, FiniteSets, TLC

CONSTANTS
    Packets, Hashes, Facts, Owners, Notes, recent_terminal_limit, MaxNotes,
    Idents, Relations, Providers, Repos, NoRepo, Names, Ends, Digests, Trusts, HostNames, Ops,
    MaxRevision,
    FrontDoors, MaxRuns, MaxCrashes,
    Attempts, GPUs, Wants, NoOwner, NoGpu, NoWant, MaxSent, MaxRestarts, MaxSwitches

VARIABLES
    rows, lapsed, bodies, pins, retention, updated, notes,
    revision, declarations, operations, previews, invalidations, source,
    disk, before, run, lost, runs, crashes,
    selector, switches, operator, local, sent, lease, proc

pvars == <<rows, lapsed, bodies, pins, retention, updated, notes>>
dvars == <<revision, declarations, operations, previews, invalidations, source>>
mvars == <<disk, before, run, lost, runs, crashes>>
avars == <<selector, switches, operator, local, sent, lease, proc>>

P == INSTANCE PacketStore
D == INSTANCE MetadataStore
M == INSTANCE Migration
A == INSTANCE ResourceAuthority

\* A relation at an identity under the name that every host knows; one under
\* a name only some know, and at a provider of another workspace; one that
\* names a provider and itself.
End(k, name, repo) == [key |-> k, name |-> name, repo |-> repo]
MCEnds ==
    {{End(i, "workspace", "a")} : i \in Idents}
    \cup {{End(i, "native", "a"), End(v, "foreign", "a")} : i \in Idents, v \in Providers}
    \cup {{End(v, "workspace", "b"), End(r, "workspace", "b")} : v \in Providers, r \in Relations}

ASSUME ComponentAssumptions ==
    /\ P!PacketAssumption /\ D!MetadataAssumption /\ M!MigrationAssumption /\ A!AuthorityAssumption

Init == P!Init /\ D!Init /\ M!Init /\ A!Init

\* A component at rest; where there are several initial states, in one of them.
DRest == D!Init /\ source = CHOOSE d \in Digests : TRUE
MRest == M!Init /\ disk.agents = "none" /\ disk.project = M!NoProject

Next ==
    \/ DRest /\ MRest /\ A!Init /\ P!Next /\ UNCHANGED <<dvars, mvars, avars>>
    \/ P!Init /\ MRest /\ A!Init /\ D!Next /\ UNCHANGED <<pvars, mvars, avars>>
    \/ P!Init /\ DRest /\ A!Init /\ M!Next /\ UNCHANGED <<pvars, dvars, avars>>
    \/ P!Init /\ DRest /\ MRest /\ A!Next /\ UNCHANGED <<pvars, dvars, mvars>>

vars == <<pvars, dvars, mvars, avars>>

Spec == Init /\ [][Next]_vars

\* Packets, owners and operation ids are interchangeable; so are allowlists
\* and what an attempt wants, which take the values of packets, and GPUs, which
\* take those of owners.
Symmetry == Permutations(Packets) \cup Permutations(Owners) \cup Permutations(Ops)

-----------------------------------------------------------------------------
(* The properties of the components *)

\* Collection leaves the bodies, the ancestors and the evidence of everything
\* alive, and retention no more finished jobs than its limit (gc, retain_job).
PacketInv == P!PacketInv

\* Provenance never leads the reader of a packet to a missing or a forbidden
\* one (lookup, _put).
ParentsResolve == P!ParentsResolve

\* Every metadata revision belongs to one applied operation whose receipt
\* names the rows stamped with it, and a removal leaves no relation behind
\* that names what is removed as every host knows it (amend).
MetadataInv == D!MetadataInv

\* A previewed amendment is carried out on what was reviewed (amend).
CarriedOutAsReviewed == D!CarriedOutAsReviewed

\* A migration that was rolled back left the three files as it found them, an
\* apply that returned repaired what was left torn, and a removal gives back
\* the front door of before unless a call ended between the new front door
\* and its first record (migrate, _apply_all).
MigrationInv == M!MigrationInv

\* A reservation is of the process that asked for it, and a release that
\* returned has seen every lease of its owner reclaimed, whatever was lost,
\* late or repeated before (reserve_background, release, _current_lease).
AuthorityInv == A!AuthorityInv

\* Packet identities are never bound again, and receipts, reviews and
\* versions of the metadata are never rewritten.
HistoryKept == P!Immutable /\ D!AppendOnly
=============================================================================
