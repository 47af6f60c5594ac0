---------------------------- MODULE Maintenance ----------------------------
(***************************************************************************)
(* What replaces the program and the form of its database:                 *)
(*                                                                         *)
(*   apps/desktop/src/main/updater/UpdateService.ts, update-policy.ts      *)
(*   packages/storage/src/migrations/migration-runner.ts                   *)
(*   packages/storage/src/backup/workspace-backup.ts                       *)
(*                                                                         *)
(* An update is checked, downloaded and, when the user quits, installed    *)
(* after a copy of the database is made; the new program brings the        *)
(* database to its schema version, after another copy.  A folder backup is *)
(* a third copy, with a manifest.  The calls of one kind come one at a     *)
(* time, those of different kinds in any order, and the process may die    *)
(* between any two steps.                                                  *)
(***************************************************************************)
EXTENDS Integers

CONSTANTS
    LastVersion,   \* bound: programs are numbered by the schema version they bring
    MaxRows,       \* bound: rows committed
    Checkpoints,   \* the names a checkpoint may get, each random or the time of day
    Nil

ASSUME LastVersionAssumption == LastVersion \in Nat
ASSUME MaxRowsAssumption == MaxRows \in Nat

VARIABLES
    status,        \* UpdateService.current
    checking,      \* what a check is waiting for
    fetching,      \* the version a download is waiting for
    staged,        \* the version the updater of the platform holds
    quitting,      \* what an installation is waiting for
    handed,        \* what the updater was told to install
    program,       \* the version that is running
    data,          \* the committed database
    transaction,   \* the open transaction's database
    run,           \* the running migrations
    checkpoint,    \* the checkpoint files
    partial, folder, named, making,   \* a folder backup's files, and its stage
    recovered, recovery,              \* a restored database, and the stage of its restore
    judged,        \* history: the versions a check found installable
    left           \* history: the databases that migrations have replaced

updater == <<status, checking, fetching, staged, judged>>
installation == <<quitting, handed, program>>
migration == <<transaction, run, left>>
folderBackup == <<partial, folder, named, making>>
folderRestore == <<recovered, recovery>>
versions == <<updater, installation>>
storage == <<migration, data, checkpoint>>
folders == <<folderBackup, folderRestore>>
maintenanceVars == <<versions, storage, folders>>

Versions == 1..LastVersion

\* A database: its schema version, the migrations that made it, the rows committed
Databases == [version : Nat, applied : SUBSET Nat, rows : Nat]
Copies == [stage : {"writing", "cut", "whole"}, content : Databases, torn : BOOLEAN]

ASSUME NilAssumption == Nil \notin Nat /\ Nil \notin Copies

State(name) == [state |-> name, version |-> Nil]

\* A copy of the database under way, cut off, or whole
NewCopy == [stage |-> "writing", content |-> data, torn |-> FALSE]
Whole(file) == [file EXCEPT !.stage = "whole"]
Cut(file) == IF file # Nil /\ file.stage = "writing" THEN [file EXCEPT !.stage = "cut"] ELSE file

\* What a commit may do to a copy under way: nothing, be in it, or tear it.
Rewrites(file, after) ==
    IF file = Nil \/ file.stage # "writing" THEN {file}
    ELSE {file, [file EXCEPT !.content = after], [file EXCEPT !.torn = TRUE]}

Committed(after) ==
    /\ data' = after
    /\ partial' \in Rewrites(partial, after)
    /\ \E f \in [Checkpoints -> UNION {Rewrites(checkpoint[n], after) : n \in Checkpoints}] :
          /\ \A n \in Checkpoints : f[n] \in Rewrites(checkpoint[n], after)
          /\ checkpoint' = f

-----------------------------------------------------------------------------
(* UpdateService *)

\* evaluateUpdate
Evaluate(release, canProceed) ==
    IF ~release.trusted \/ ~canProceed THEN State("blocked")
    ELSE [state |-> "available", version |-> release.version]

\* check asks the platform for a release ...
Check ==
    /\ checking = Nil
    /\ status' = State("checking")
    /\ checking' = [at |-> "release"]
    /\ UNCHANGED <<fetching, staged, judged, installation, storage, folders>>

\* ... for whose schema version it asks whether the database can follow ...
Answered(release) ==
    /\ checking # Nil /\ checking.at = "release"
    /\ checking' = [at |-> "preflight", release |-> release]
    /\ UNCHANGED <<status, fetching, staged, judged, installation, storage, folders>>

Judge(canProceed) ==
    /\ checking # Nil /\ checking.at = "preflight"
    /\ status' = Evaluate(checking.release, canProceed)
    /\ judged' = judged \cup ({status'.version} \ {Nil})
    /\ checking' = Nil
    /\ UNCHANGED <<fetching, staged, installation, storage, folders>>

\* ... but there may be none, or one of the two fails.
CheckFails ==
    /\ checking # Nil
    /\ status' = State("unavailable")
    /\ checking' = Nil
    /\ UNCHANGED <<fetching, staged, judged, installation, storage, folders>>

\* A bug to check against: the version is not compared with the one found installable.
DownloadAny(v) ==
    /\ fetching = Nil
    /\ IF status.state = "available"
       THEN fetching' = v /\ UNCHANGED status
       ELSE status' = State("blocked") /\ UNCHANGED fetching
    /\ UNCHANGED <<checking, staged, judged, installation, storage, folders>>

Download(v) ==
    /\ fetching = Nil
    /\ IF status = [state |-> "available", version |-> v]
       THEN fetching' = v /\ UNCHANGED status
       ELSE status' = State("blocked") /\ UNCHANGED fetching
    /\ UNCHANGED <<checking, staged, judged, installation, storage, folders>>

\* Whatever a check has found meanwhile, the download ends in "downloaded".
Downloaded ==
    /\ fetching # Nil
    /\ staged' = fetching
    /\ status' = [state |-> "downloaded", version |-> fetching]
    /\ fetching' = Nil
    /\ UNCHANGED <<checking, judged, installation, storage, folders>>

DownloadFails ==
    /\ fetching # Nil
    /\ fetching' = Nil
    /\ UNCHANGED <<status, checking, staged, judged, installation, storage, folders>>

\* installOnQuit asks whether a task is under way that could not be resumed ...
InstallOnQuit ==
    /\ status.state = "downloaded" /\ quitting = Nil
    /\ quitting' = [at |-> "tasks", name |-> Nil, rows |-> data.rows]
    /\ UNCHANGED <<updater, handed, program, storage, folders>>

\* ... has the database copied.  What copies it is given to the service, and the repository
\* holds no implementation; a migration run's copy is taken as its model ...
CopyForInstall(name) ==
    /\ quitting # Nil /\ quitting.at = "tasks"
    /\ checkpoint[name] = Nil
    /\ checkpoint' = [checkpoint EXCEPT ![name] = NewCopy]
    /\ quitting' = [quitting EXCEPT !.at = "copying", !.name = name]
    /\ UNCHANGED <<updater, handed, program, migration, folders, data>>

\* ... and tells the platform's updater to install what it holds.
HandOver ==
    /\ quitting # Nil /\ quitting.at = "copying"
    /\ checkpoint' = [checkpoint EXCEPT ![quitting.name] = Whole(@)]
    /\ handed' = [version |-> staged, name |-> quitting.name, rows |-> quitting.rows]
    /\ quitting' = Nil
    /\ UNCHANGED <<updater, program, migration, folders, data>>

\* A task is under way, or the copy fails.
InstallFails ==
    /\ quitting # Nil
    /\ quitting' = Nil
    /\ checkpoint' = [name \in Checkpoints |->
                        IF quitting.name = name THEN Cut(checkpoint[name]) ELSE checkpoint[name]]
    /\ UNCHANGED <<updater, handed, program, migration, folders, data>>

-----------------------------------------------------------------------------
(* runMigrations, before the database is used *)

\* A bug to check against: no checkpoint is made when there is one.
BeginMigrationsOnce(name) ==
    /\ run = Nil /\ data.version < program
    /\ checkpoint[name] = Nil
    /\ IF \A n \in Checkpoints : checkpoint[n] = Nil
       THEN /\ checkpoint' = [checkpoint EXCEPT ![name] = NewCopy]
            /\ run' = [stage |-> "checkpoint", name |-> name, from |-> data]
       ELSE /\ run' = [stage |-> "migrating", name |-> name, from |-> data]
            /\ UNCHANGED checkpoint
    /\ UNCHANGED <<versions, transaction, left, folders, data>>

\* assertContiguous: the migrations are those from the database's version to the program's.
\* A checkpoint of the database is begun ...
BeginMigrations(name) ==
    /\ run = Nil /\ data.version < program
    /\ checkpoint[name] = Nil
    /\ checkpoint' = [checkpoint EXCEPT ![name] = NewCopy]
    /\ run' = [stage |-> "checkpoint", name |-> name, from |-> data]
    /\ UNCHANGED <<versions, transaction, left, folders, data>>

\* ... and completed, before the first migration.
CheckpointTaken ==
    /\ run # Nil /\ run.stage = "checkpoint"
    /\ checkpoint' = [checkpoint EXCEPT ![run.name] = Whole(@)]
    /\ run' = [run EXCEPT !.stage = "migrating"]
    /\ UNCHANGED <<versions, transaction, left, folders, data>>

\* A migration's up and verify, and the version it brings, in one transaction ...
Up ==
    /\ run # Nil /\ run.stage = "migrating" /\ transaction = Nil
    /\ data.version < program
    /\ transaction' = [data EXCEPT !.applied = @ \cup {data.version + 1},
                                       !.version = @ + 1]
    /\ UNCHANGED <<versions, run, left, folders, data, checkpoint>>

\* ... that commits ...
CommitMigration ==
    /\ transaction # Nil
    /\ Committed(transaction)
    /\ left' = left \cup {run.from}
    /\ transaction' = Nil
    /\ UNCHANGED <<versions, run, folder, named, making, folderRestore>>

\* ... or is rolled back, as the checkpoint, up or verify throws; the migrations before stay.
MigrationFails ==
    /\ run # Nil
    /\ transaction' = Nil /\ run' = Nil
    /\ checkpoint' = [checkpoint EXCEPT ![run.name] = Cut(@)]
    /\ UNCHANGED <<versions, left, folders, data>>

MigrationsDone ==
    /\ run # Nil /\ run.stage = "migrating" /\ transaction = Nil
    /\ data.version = program
    /\ run' = Nil
    /\ UNCHANGED <<versions, transaction, left, folders, data, checkpoint>>

\* A request commits to the database, once it has the program's version.
CommitRow ==
    /\ run = Nil /\ data.version = program /\ data.rows < MaxRows
    /\ Committed([data EXCEPT !.rows = @ + 1])
    /\ UNCHANGED <<versions, migration, folder, named, making, folderRestore>>

-----------------------------------------------------------------------------
(* Folder backups *)

\* A bug to check against: it copies over the folder's.
CopyOverFolder ==
    /\ making = Nil
    /\ partial' = NewCopy /\ folder' = NewCopy
    /\ making' = [stage |-> "copying"]
    /\ UNCHANGED <<versions, storage, named, folderRestore>>

\* createWorkspaceBackup copies the database beside the folder's ...
CopyToFolder ==
    /\ making = Nil
    /\ partial' = NewCopy
    /\ making' = [stage |-> "copying"]
    /\ UNCHANGED <<versions, storage, folder, named, folderRestore>>

CopiedToFolder ==
    /\ making # Nil /\ making.stage = "copying"
    /\ partial' = Whole(partial)
    /\ making' = [stage |-> "copied"]
    /\ UNCHANGED <<versions, storage, folder, named, folderRestore>>

\* ... hashes the copy, gives it the name of the folder's ...
RenameInFolder ==
    /\ making # Nil /\ making.stage = "copied"
    /\ folder' = partial /\ partial' = Nil
    /\ making' = [stage |-> "renamed", hash |-> partial]
    /\ UNCHANGED <<versions, storage, named, folderRestore>>

\* ... and writes the manifest with the hash.
WriteManifest ==
    /\ making # Nil /\ making.stage = "renamed"
    /\ named' = making.hash
    /\ making' = Nil
    /\ UNCHANGED <<versions, storage, partial, folder, folderRestore>>

\* A file operation throws; what was written stays.
FolderBackupFails ==
    /\ making # Nil
    /\ making' = Nil
    /\ partial' = Cut(partial)
    /\ UNCHANGED <<versions, storage, folder, named, folderRestore>>

\* verifyWorkspaceBackup compares the folder's database with the manifest; if it has that
\* hash, restoreWorkspaceBackup goes on.
Verify ==
    /\ recovery = Nil
    /\ named # Nil /\ folder = named
    /\ recovery' = [stage |-> "verified"]
    /\ UNCHANGED <<versions, storage, folderBackup, recovered>>

\* It copies what is in the folder by then beside the target ...
CopyFromFolder ==
    /\ recovery # Nil /\ recovery.stage = "verified"
    /\ recovery' = [stage |-> "copied", file |-> folder]
    /\ UNCHANGED <<versions, storage, folderBackup, recovered>>

\* ... and gives it the target's name.
RenameRestored ==
    /\ recovery # Nil /\ recovery.stage = "copied"
    /\ recovered' = recovery.file
    /\ recovery' = Nil
    /\ UNCHANGED <<versions, storage, folderBackup>>

FolderRestoreFails ==
    /\ recovery # Nil
    /\ recovery' = Nil
    /\ UNCHANGED <<versions, storage, folderBackup, recovered>>

-----------------------------------------------------------------------------

\* The process ends, by itself or not.  An update that was handed over is installed.
Restart ==
    /\ program' = IF handed = Nil THEN program ELSE handed.version
    /\ status' = State("idle")
    /\ checking' = Nil /\ fetching' = Nil /\ quitting' = Nil /\ handed' = Nil
    /\ transaction' = Nil /\ run' = Nil /\ making' = Nil /\ recovery' = Nil
    /\ checkpoint' = [name \in Checkpoints |-> Cut(checkpoint[name])]
    /\ partial' = Cut(partial)
    /\ UNCHANGED <<staged, judged, left, folder, named, recovered, data>>

MaintenanceInit ==
    /\ status = State("idle")
    /\ checking = Nil /\ fetching = Nil /\ staged = Nil /\ judged = {}
    /\ quitting = Nil /\ handed = Nil /\ program = 1
    /\ data = [version |-> 0, applied |-> {}, rows |-> 0]
    /\ transaction = Nil /\ run = Nil /\ left = {}
    /\ checkpoint = [name \in Checkpoints |-> Nil]
    /\ partial = Nil /\ folder = Nil /\ named = Nil /\ making = Nil
    /\ recovered = Nil /\ recovery = Nil

UpdaterNext ==
    \/ Check \/ CheckFails
    \/ \E v \in Versions, trusted \in BOOLEAN :
          v > program /\ Answered([version |-> v, trusted |-> trusted])
    \/ \E canProceed \in BOOLEAN : Judge(canProceed)
    \/ \E v \in Versions : Download(v)
    \/ Downloaded \/ DownloadFails
    \/ InstallOnQuit \/ HandOver \/ InstallFails
    \/ \E name \in Checkpoints : CopyForInstall(name)

DatabaseNext ==
    \/ \E name \in Checkpoints : BeginMigrations(name)
    \/ CheckpointTaken \/ Up \/ CommitMigration \/ MigrationFails \/ MigrationsDone \/ CommitRow
    \/ Restart

FolderNext ==
    \/ CopyToFolder \/ CopiedToFolder \/ RenameInFolder \/ WriteManifest \/ FolderBackupFails
    \/ Verify \/ CopyFromFolder \/ RenameRestored \/ FolderRestoreFails

MaintenanceNext == UpdaterNext \/ DatabaseNext \/ FolderNext

MaintenanceSpec == MaintenanceInit /\ [][MaintenanceNext]_maintenanceVars

-----------------------------------------------------------------------------
(* Properties *)

\* At every moment the database has the migrations up to its version and no other, and every
\* database that migrations have replaced is in a whole checkpoint, for ever: neither a
\* migration that fails half-way nor a later run loses it.
MigrationsRecoverable ==
    /\ data.applied = 1..data.version
    /\ \A d \in left : \E n \in Checkpoints :
          /\ checkpoint[n] # Nil /\ checkpoint[n].stage = "whole"
          /\ checkpoint[n].content = d /\ ~checkpoint[n].torn

\* What the updater is told to install is a version that a check found trusted and able to
\* take the database along, and a copy of the database exists with all that was committed
\* when the user quit, unless commits since then have torn it.
InstalledWasJudged ==
    handed # Nil =>
       /\ handed.version \in judged
       /\ checkpoint[handed.name].stage = "whole"
       /\ checkpoint[handed.name].torn \/ checkpoint[handed.name].content.rows >= handed.rows

\* A restored database is never a part of one, even when a backup into the same folder goes
\* on between the verification and the copy.
RestoredFolderWhole == recovered # Nil => recovered.stage = "whole"

=============================================================================
