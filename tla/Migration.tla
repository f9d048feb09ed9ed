------------------------------ MODULE Migration ------------------------------
(***************************************************************************)
(* The routing migration of a repository: it rewrites the owned block of   *)
(* AGENTS.md, the workflow front door of project.json and a record of what *)
(* it replaced.  The three files are planned from one reading and written  *)
(* one after the other; a failed write is rolled back from the originals,  *)
(* and the rollback may fail as well.  A crash, or a restoring write that  *)
(* fails, leaves what was written.                                         *)
(***************************************************************************)
EXTENDS Naturals

CONSTANTS
    FrontDoors,   \* the front doors a repository may have had before
    MaxRuns,      \* bound: calls of migrate with apply
    MaxCrashes    \* bound: crashes of the process between two writes

Installed == "project-control"
NoDoor    == "none"        \* configuration without workflow_front_door
NoProject == "no project"  \* no project.json
Doors     == FrontDoors \cup {Installed, NoDoor, NoProject}

MigrationAssumption ==
    /\ {Installed, NoDoor, NoProject} \cap FrontDoors = {}
    /\ MaxRuns \in Nat /\ MaxCrashes \in Nat

VARIABLES
    disk,     \* the three files
    before,   \* the front door before the first migration
    run,      \* the call under way
    lost,     \* history: a call ended between the front door and its record
    runs, crashes

vars == <<disk, before, run, lost, runs, crashes>>

Files    == {"agents", "project", "record"}
NoRecord == [kept |-> FALSE, previous |-> NoDoor]
Markers  == {"none", "legacy", "current"}
Disks    == [agents : Markers, project : Doors, record : [kept : BOOLEAN, previous : Doors]]
Idle     == [pc |-> "idle", remove |-> FALSE]

Init ==
    /\ disk \in [agents : Markers, project : Doors, record : {NoRecord}]
    /\ before = disk.project
    /\ run = Idle /\ lost = FALSE /\ runs = 0 /\ crashes = 0

\* _updated_agents: the owned block is taken out and, unless the migration
\* is removed, the current one put in.
updated_agents(remove) == IF remove THEN "none" ELSE "current"

\* The front door that the record keeps: the one of the first apply.
RecordedPrevious(d) ==
    IF d.record.kept THEN d.record.previous
    ELSE IF d.project = NoProject THEN NoDoor ELSE d.project

\* The front door after the migration: removing it restores the recorded one
\* when the installed one is still there.
PlannedDoor(d, remove) ==
    IF d.project = NoProject THEN NoProject
    ELSE IF ~remove THEN Installed
    ELSE IF d.record.kept /\ d.project = Installed THEN d.record.previous
    ELSE d.project

\* What the files are to be, planned from the files d that were read.
Planned(d, remove) ==
    [agents  |-> updated_agents(remove),
     project |-> PlannedDoor(d, remove),
     record  |-> IF remove THEN NoRecord ELSE [kept |-> TRUE, previous |-> RecordedPrevious(d)]]

(* Mutant: no record is written where the front door is already installed. *)
ChangesWithoutRecord(plan, reformat) ==
    {f \in Files : plan[f] # disk[f] /\ (f = "record" => disk.project # Installed)}

\* The files whose text changes.  project.json is written in a normal form,
\* so one that is laid out in another way changes with the same front door.
Changes(plan, reformat) ==
    {f \in Files : plan[f] # disk[f] \/ (f = "project" /\ reformat /\ disk.project # NoProject)}

\* The order of the writes.
First(files) == IF "agents" \in files THEN "agents"
                ELSE IF "project" \in files THEN "project" ELSE "record"

\* migrate: everything is read and planned, then the originals are read.
Migrate(remove, reformat) ==
    LET plan == Planned(disk, remove)
        todo == Changes(plan, reformat)
    IN  /\ run.pc = "idle" /\ runs < MaxRuns
        /\ todo # {}
        /\ run' = [pc |-> "write", remove |-> remove, plan |-> plan, todo |-> todo,
                   originals |-> disk, undo |-> todo]
        /\ runs' = runs + 1
        /\ UNCHANGED <<disk, before, lost, crashes>>

\* _apply_all: one file is replaced atomically or removed.
WriteNext ==
    /\ run.pc = "write" /\ run.todo # {}
    /\ disk' = [disk EXCEPT ![First(run.todo)] = run.plan[First(run.todo)]]
    /\ run' = [run EXCEPT !.todo = @ \ {First(@)}]
    /\ UNCHANGED <<before, lost, runs, crashes>>

\* A write raises: the originals are written again, all of them.
WriteFails ==
    /\ run.pc = "write" /\ run.todo # {}
    /\ run' = [run EXCEPT !.pc = "undo"]
    /\ UNCHANGED <<disk, before, lost, runs, crashes>>

\* One original is written again, or a file that did not exist is removed.
RestoreNext ==
    LET left == run.undo \ {First(run.undo)}
    IN  /\ run.pc = "undo"
        /\ disk' = [disk EXCEPT ![First(run.undo)] = run.originals[First(run.undo)]]
        /\ run' = [run EXCEPT !.undo = left, !.pc = IF left = {} THEN "failed" ELSE "undo"]
        /\ UNCHANGED <<before, lost, runs, crashes>>

\* The call returns, or raises after the rollback.
Return ==
    /\ \/ run.pc = "write" /\ run.todo = {}
       \/ run.pc = "failed"
    /\ run' = [Idle EXCEPT !.remove = run.remove]
    /\ UNCHANGED <<disk, before, lost, runs, crashes>>

\* The call ends with the files as they are; the old front door is lost when
\* it has been replaced and no record names it.
Abandon ==
    /\ run' = Idle
    /\ lost' = (lost \/ (disk.project # before /\ ~disk.record.kept))
    /\ UNCHANGED <<disk, before, runs>>

\* A restoring write raises as well: the remaining originals are not restored
\* and the error leaves _apply_all.
RestoreFails == run.pc = "undo" /\ Abandon /\ UNCHANGED crashes

\* The process ends between two writes.
Crash ==
    /\ run.pc \in {"write", "undo"} /\ crashes < MaxCrashes
    /\ Abandon /\ crashes' = crashes + 1

Next ==
    \/ \E remove, reformat \in BOOLEAN : Migrate(remove, reformat)
    \/ WriteNext \/ WriteFails \/ RestoreNext \/ RestoreFails \/ Return \/ Crash

Spec == Init /\ [][Next]_vars

-----------------------------------------------------------------------------
(* Properties *)

\* Types: the files and the call.
Calls ==
    [pc : {"idle"}, remove : BOOLEAN]
    \cup [pc : {"write", "undo", "failed"}, remove : BOOLEAN, plan : Disks, originals : Disks,
          todo : SUBSET Files, undo : SUBSET Files]
TypeOK ==
    /\ disk \in Disks /\ before \in Doors /\ run \in Calls /\ lost \in BOOLEAN
    /\ runs \in 0..MaxRuns /\ crashes \in 0..MaxCrashes

Completed(remove) == run.pc = "write" /\ run.todo = {} /\ run.remove = remove

\* A call whose rollback went through left the three files as it found them,
\* whichever write failed.
RolledBack == run.pc = "failed" => disk = run.originals

\* After an apply that returned, whatever crashed or failed before it,
\* guidance, front door and record are all in place: a repeated apply repairs
\* a torn one.
ApplyCompletes ==
    Completed(FALSE) => disk.agents = "current" /\ disk.project \in {Installed, NoProject}
                        /\ disk.record.kept

\* The migration is reversible: after a removal that returned, the front door
\* is the one before the first apply and the record is gone, over any failed
\* writes, failed rollbacks and crashes but those that end a call between the
\* new front door and its first record.  (After one of those it is not: the
\* next apply records the installed front door as the previous one.)
RemoveRestores ==
    Completed(TRUE) /\ ~lost => disk.agents = "none" /\ disk.project = before /\ disk.record = NoRecord

\* All or nothing, repaired by repetition and reversible.
MigrationInv == TypeOK /\ RolledBack /\ ApplyCompletes /\ RemoveRestores

\* How far a call has come: what is written is the plan, what is restored
\* is the original, nothing else differs from the originals, and the record
\* is the last file to be written.
Progress ==
    /\ run.pc # "idle" => run.plan = Planned(run.originals, run.remove)
    /\ run.pc = "write" =>
          /\ \A f \in Files : disk[f] = (IF f \in run.todo THEN run.originals ELSE run.plan)[f]
          /\ run.todo \subseteq run.undo
          /\ \A f \in Files : run.plan[f] # run.originals[f] => f \in run.undo
          /\ run.todo # {} /\ "record" \notin run.todo => run.plan.record = run.originals.record
    /\ run.pc = "undo" =>
          /\ run.undo # {} /\ \A f \in Files \ run.undo : disk[f] = run.originals[f]
          /\ disk.project \in {run.originals.project, run.plan.project}
          /\ disk.record = run.originals.record
    /\ run.pc = "failed" => disk = run.originals

\* The files between two calls, as long as the old front door is not lost: as
\* before, or with the record of what was there and any of the two doors.
Consistent(d) ==
    \/ d.record = NoRecord /\ d.project = before
    \/ /\ d.record = [kept |-> TRUE, previous |-> IF before = NoProject THEN NoDoor ELSE before]
       /\ d.project \in {before, IF before = NoProject THEN NoProject ELSE Installed}

\* The inductive invariant.
IInv ==
    /\ TypeOK /\ Progress
    /\ ~lost => Consistent(IF run.pc = "idle" THEN disk ELSE run.originals)
=============================================================================
