---------------------------- MODULE FilesProofs -----------------------------
(***************************************************************************)
(* Proofs about the files that outlive the program.  Of Backup: what a     *)
(* finished backup holds, and what a restore leaves, for every set of      *)
(* statements and any number of entries.  Of Maintenance: migrations can   *)
(* be gone back on, what is installed was judged, and a restored folder    *)
(* is whole, for every number of versions, rows and checkpoints.           *)
(***************************************************************************)
EXTENDS Backup, Maintenance, TLAPS

-----------------------------------------------------------------------------
(* Backups and restores *)

Snapshots == [entries : Nat, drafts : SUBSET Statements, space : {"source"}, torn : BOOLEAN]

\* What a running backup has before and after it is sealed
Readings == [stage : {"listing", "reading", "sealing"}, zeroed : BOOLEAN,
             names : SUBSET Statements, copy : Snapshots, hadEntries : Nat,
             hadDrafts : SUBSET Statements]
Packages == [whole : {TRUE}, dek : {"source", "zeros"}, zeroed : BOOLEAN, copy : Snapshots,
             names : SUBSET Statements, hadEntries : Nat, hadDrafts : SUBSET Statements]
Writings == [stage : {"writing", "renaming"}, zeroed : BOOLEAN, package : Packages]

Restores == [stage : {"layout", "entries", "rekeyed"}, copy : Snapshots, dek : {"source", "zeros"}]

WorkspaceTyped ==
    /\ {live, untidy} \subseteq BOOLEAN
    /\ entries \in Nat
    /\ drafts \subseteq objects /\ objects \subseteq Statements

\* A copy has what was committed when the backup was asked for.
Contains(c, hadEntries, hadDrafts) ==
    ~c.torn => c.entries >= hadEntries /\ hadDrafts \subseteq c.drafts

\* A sealed package holds what it should.
Sound(p) ==
    /\ p \in Packages
    /\ Contains(p.copy, p.hadEntries, p.hadDrafts)
    /\ p.hadDrafts \subseteq p.names
    /\ ~p.zeroed => p.dek = "source"

ReadingSound ==
    backup \in Readings =>
       /\ backup.hadEntries <= entries /\ backup.hadDrafts \subseteq drafts
       /\ Contains(backup.copy, backup.hadEntries, backup.hadDrafts)
       /\ backup.stage # "listing" => backup.hadDrafts \subseteq backup.names

BackupInv ==
    /\ WorkspaceTyped
    /\ backup \in {Waiting} \cup Readings \cup Writings
    /\ ReadingSound
    /\ backup \in Writings => Sound(backup.package)
    /\ destination = NoFile \/ Sound(destination)

RestoreInv ==
    /\ restoring \in {Waiting} \cup Restores
    /\ RestoredWholeOrNot

BackupsInv == BackupInv /\ RestoreInv

-----------------------------------------------------------------------------
(* Stages *)

\* A running backup is told by its stage.
LEMMA Stages ==
    ASSUME backup \in {Waiting} \cup Readings \cup Writings
    PROVE  /\ backup # Waiting <=> backup.stage # "idle"
           /\ backup \in Readings <=> backup.stage \in {"listing", "reading", "sealing"}
           /\ backup \in Writings <=> backup.stage \in {"writing", "renaming"}
BY DEF Waiting, Readings, Writings

LEMMA InitialBackups == BackupInit => BackupsInv
<1> SUFFICES ASSUME BackupInit PROVE BackupsInv
    OBVIOUS
<1>1. backup = Waiting /\ backup \notin Readings /\ backup \notin Writings
    BY DEF BackupInit, Waiting, Readings, Writings
<1>2. BackupInv
    BY <1>1 DEF BackupInit, BackupInv, WorkspaceTyped, ReadingSound
<1>3. RestoreInv
    BY DEF BackupInit, RestoreInv, RestoredWholeOrNot
<1> QED BY <1>2, <1>3 DEF BackupsInv

-----------------------------------------------------------------------------
(* The workspace in use *)

\* A commit keeps the rows of before, so that a copy under way keeps what it should have.
LEMMA CommitKeeps ==
    ASSUME BackupInv, NEW after \in Snapshots, CommitUnder(after),
           entries' \in Nat, entries' >= entries, drafts \subseteq drafts',
           ~after.torn, after.entries >= entries, drafts \subseteq after.drafts,
           drafts' \subseteq objects', objects' \subseteq Statements,
           UNCHANGED <<live, untidy, destination>>
    PROVE  BackupInv'
<1>1. CASE backup.stage # "reading"
    <2>1. backup' = backup
        BY <1>1 DEF CommitUnder
    <2>2. WorkspaceTyped'
        BY DEF BackupInv, WorkspaceTyped
    <2>3. ReadingSound'
        BY <2>1 DEF BackupInv, ReadingSound, WorkspaceTyped, Readings, Contains
    <2> QED BY <2>1, <2>2, <2>3 DEF BackupInv, Sound
<1>2. CASE backup.stage = "reading"
    <2>1. backup \in Readings
        BY <1>2, Stages DEF BackupInv
    <2>2. PICK c \in {backup.copy, after, With(backup.copy, "torn", TRUE)} :
             backup' = With(backup, "copy", c)
        BY <1>2 DEF CommitUnder
    <2>3. c \in Snapshots /\ Contains(c, backup.hadEntries, backup.hadDrafts)
        <3>1. CASE c = backup.copy
            BY <2>1, <3>1 DEF BackupInv, ReadingSound, Readings
        <3>2. CASE c = after
            BY <2>1, <3>2 DEF BackupInv, ReadingSound, Readings, Contains, Snapshots, WorkspaceTyped
        <3>3. CASE c = With(backup.copy, "torn", TRUE)
            <4>1. c \in Snapshots /\ c.torn
                BY <2>1, <3>3 DEF With, Readings, Snapshots
            <4> QED BY <4>1 DEF Contains
        <3> QED BY <2>2, <3>1, <3>2, <3>3
    <2>4. /\ backup' \in Readings /\ backup'.copy = c /\ backup'.stage = "reading"
          /\ backup'.hadEntries = backup.hadEntries /\ backup'.hadDrafts = backup.hadDrafts
          /\ backup'.names = backup.names
        BY <1>2, <2>1, <2>2, <2>3 DEF With, Readings
    <2>5. ReadingSound'
        <3>1. backup'.hadEntries <= entries'
            BY <2>1, <2>4 DEF BackupInv, ReadingSound, WorkspaceTyped, Readings
        <3>2. backup'.hadDrafts \subseteq drafts' \cap backup'.names
            BY <1>2, <2>1, <2>4 DEF BackupInv, ReadingSound
        <3> QED BY <2>3, <2>4, <3>1, <3>2 DEF ReadingSound
    <2>6. backup' \notin Writings
        BY <2>4 DEF Writings
    <2>7. WorkspaceTyped'
        BY DEF BackupInv, WorkspaceTyped
    <2> QED BY <2>4, <2>5, <2>6, <2>7 DEF BackupInv, Sound
<1> QED BY <1>1, <1>2

LEMMA ContentIsCopy ==
    ASSUME BackupInv
    PROVE  /\ Content \in Snapshots /\ ~Content.torn
           /\ Content.entries = entries /\ Content.drafts = drafts
BY DEF BackupInv, WorkspaceTyped, Content, Snapshots

LEMMA UseKeeps ==
    ASSUME BackupInv, NEW s \in Statements,
           StoreObject(s) \/ SaveDraft(s)
    PROVE  BackupInv'
<1>1. CASE StoreObject(s)
    BY <1>1 DEF StoreObject, files, restoration, BackupInv, WorkspaceTyped, ReadingSound, Sound
<1>2. CASE SaveDraft(s)
    <2> DEFINE after == [Content EXCEPT !.drafts = drafts']
    <2>1. drafts' = drafts \cup {s} /\ s \in objects
        BY <1>2 DEF SaveDraft
    <2>2. after \in Snapshots /\ ~after.torn /\ after.entries = entries /\ after.drafts = drafts'
        BY <2>1, ContentIsCopy DEF Snapshots, BackupInv, WorkspaceTyped
    <2>3. CommitUnder(after)
        BY <1>2 DEF SaveDraft
    <2> HIDE DEF after
    <2> QED
        BY <1>2, <2>1, <2>2, <2>3, CommitKeeps
        DEF SaveDraft, files, restoration, BackupInv, WorkspaceTyped
<1> QED BY <1>1, <1>2

LEMMA CommitEntryKeeps ==
    ASSUME BackupInv, CommitEntry
    PROVE  BackupInv'
<1> DEFINE after == [Content EXCEPT !.entries = entries']
<1>1. entries' = entries + 1
    BY DEF CommitEntry
<1>2. after \in Snapshots /\ ~after.torn /\ after.entries = entries' /\ after.drafts = drafts
    BY <1>1, ContentIsCopy DEF Snapshots, BackupInv, WorkspaceTyped
<1>3. CommitUnder(after)
    BY DEF CommitEntry
<1> HIDE DEF after
<1> QED
    BY <1>1, <1>2, <1>3, CommitKeeps
    DEF CommitEntry, files, restoration, BackupInv, WorkspaceTyped

LEMMA SessionKeeps ==
    ASSUME BackupInv, CloseWorkspace \/ OpenWorkspace
    PROVE  BackupInv'
<1>1. CASE OpenWorkspace
    BY <1>1 DEF OpenWorkspace, files, restoration, BackupInv, WorkspaceTyped, ReadingSound, Sound
<1>2. CASE CloseWorkspace
    <2>1. CASE backup = Waiting
        BY <1>2, <2>1
        DEF CloseWorkspace, files, restoration, BackupInv, WorkspaceTyped, ReadingSound, Sound
    <2>2. CASE backup \in Readings
        <3>1. backup' = [backup EXCEPT !.zeroed = TRUE]
            BY <1>2, <2>2, Stages DEF CloseWorkspace, With, Readings, BackupInv
        <3>2. /\ backup' \in Readings /\ backup' \notin Writings
              /\ backup'.copy = backup.copy /\ backup'.names = backup.names
              /\ backup'.stage = backup.stage /\ backup'.hadEntries = backup.hadEntries
              /\ backup'.hadDrafts = backup.hadDrafts
            BY <2>2, <3>1 DEF Readings, Writings
        <3> QED
            BY <1>2, <2>2, <3>2
            DEF CloseWorkspace, files, restoration, BackupInv, WorkspaceTyped, ReadingSound, Sound
    <2>3. CASE backup \in Writings
        <3>1. backup' = [backup EXCEPT !.zeroed = TRUE]
            BY <1>2, <2>3, Stages DEF CloseWorkspace, With, Writings, BackupInv
        <3>2. backup' \in Writings /\ backup' \notin Readings /\ backup'.package = backup.package
            BY <2>3, <3>1 DEF Readings, Writings
        <3> QED
            BY <1>2, <2>3, <3>2
            DEF CloseWorkspace, files, restoration, BackupInv, WorkspaceTyped, ReadingSound, Sound
    <2> QED BY <2>1, <2>2, <2>3 DEF BackupInv
<1> QED BY <1>1, <1>2

-----------------------------------------------------------------------------
(* Making a backup *)

LEMMA BeginKeeps ==
    ASSUME BackupInv, BeginBackup
    PROVE  BackupInv'
<1> DEFINE b == [stage |-> "listing", zeroed |-> FALSE, names |-> {}, copy |-> Content,
                 hadEntries |-> entries, hadDrafts |-> drafts]
<1>1. b \in Readings /\ b \notin Writings
    BY ContentIsCopy DEF Readings, Writings, BackupInv, WorkspaceTyped
<1>2. Contains(b.copy, b.hadEntries, b.hadDrafts)
    BY ContentIsCopy DEF Contains, BackupInv, WorkspaceTyped
<1>3. /\ b.hadEntries = entries /\ b.hadDrafts = drafts /\ b.stage = "listing"
    OBVIOUS
<1>4. backup' = b
    BY DEF BeginBackup
<1> HIDE DEF b
<1>5. ReadingSound'
    BY <1>2, <1>3, <1>4 DEF BeginBackup, ReadingSound, WorkspaceTyped, BackupInv, workspace
<1> QED
    BY <1>1, <1>4, <1>5
    DEF BeginBackup, BackupInv, WorkspaceTyped, Sound, workspace, files, restoration

LEMMA ListKeeps ==
    ASSUME BackupInv, ListObjects
    PROVE  BackupInv'
<1>1. backup \in Readings /\ backup.stage = "listing"
    BY Stages DEF ListObjects, BackupInv
<1>2. backup' = [backup EXCEPT !.stage = "reading", !.names = objects, !.copy = Content]
    BY DEF ListObjects
<1>3. /\ backup' \in Readings /\ backup' \notin Writings
      /\ backup'.names = objects /\ backup'.copy = Content
      /\ backup'.hadEntries = backup.hadEntries /\ backup'.hadDrafts = backup.hadDrafts
    BY <1>1, <1>2, ContentIsCopy DEF Readings, Writings, BackupInv, WorkspaceTyped
<1>4. ReadingSound'
    BY <1>1, <1>3, ContentIsCopy
    DEF ListObjects, ReadingSound, Contains, WorkspaceTyped, BackupInv, workspace
<1> QED
    BY <1>3, <1>4
    DEF ListObjects, BackupInv, WorkspaceTyped, Sound, workspace, files, restoration

LEMMA ReadKeeps ==
    ASSUME BackupInv, ReadDatabase
    PROVE  BackupInv'
<1>1. backup \in Readings /\ backup.stage = "reading"
    BY Stages DEF ReadDatabase, BackupInv
<1>2. /\ backup' \in Readings /\ backup' \notin Writings
      /\ backup'.names = backup.names /\ backup'.copy = backup.copy
      /\ backup'.hadEntries = backup.hadEntries /\ backup'.hadDrafts = backup.hadDrafts
    BY <1>1 DEF ReadDatabase, Readings, Writings
<1>3. ReadingSound'
    BY <1>1, <1>2 DEF ReadDatabase, ReadingSound, BackupInv, workspace
<1> QED
    BY <1>2, <1>3
    DEF ReadDatabase, BackupInv, WorkspaceTyped, Sound, workspace, files, restoration

LEMMA SealKeeps ==
    ASSUME BackupInv, Seal
    PROVE  BackupInv'
<1>1. backup \in Readings /\ backup.stage = "sealing"
    BY Stages DEF Seal, BackupInv
<1>2. Package \in Packages
    BY <1>1 DEF Package, Packages, Readings
<1>3. Sound(Package)
    <2>1. /\ Package.copy = backup.copy /\ Package.names = backup.names
          /\ Package.hadEntries = backup.hadEntries /\ Package.hadDrafts = backup.hadDrafts
          /\ Package.zeroed = backup.zeroed
          /\ Package.dek = IF backup.zeroed THEN "zeros" ELSE "source"
        BY DEF Package
    <2> QED
        BY <1>1, <1>2, <2>1 DEF Sound, BackupInv, ReadingSound
<1>4. /\ backup' \in Writings /\ backup' \notin Readings /\ backup'.package = Package
    BY <1>2 DEF Seal, Writings, Readings
<1> QED
    BY <1>3, <1>4
    DEF Seal, BackupInv, WorkspaceTyped, ReadingSound, Sound, workspace, files, restoration

LEMMA WriteKeeps ==
    ASSUME BackupInv, WritePart \/ PartWritten \/ RenamePart \/ BackupFails
    PROVE  BackupInv'
<1>1. CASE WritePart
    BY <1>1 DEF WritePart, BackupInv, WorkspaceTyped, ReadingSound, Sound, workspace, restoration
<1>2. CASE PartWritten
    <2>1. backup \in Writings
        BY <1>2, Stages DEF PartWritten, BackupInv
    <2>2. backup' \in Writings /\ backup' \notin Readings /\ backup'.package = backup.package
        BY <1>2, <2>1 DEF PartWritten, Writings, Readings
    <2> QED
        BY <1>2, <2>1, <2>2
        DEF PartWritten, BackupInv, WorkspaceTyped, ReadingSound, Sound, workspace, restoration
<1>3. CASE RenamePart \/ BackupFails
    <2>1. backup' = Waiting /\ backup' \notin Readings /\ backup' \notin Writings
        BY <1>3 DEF RenamePart, BackupFails, Waiting, Readings, Writings
    <2>2. destination' = NoFile \/ Sound(destination)'
        <3>1. CASE RenamePart
            <4>1. backup \in Writings /\ destination' = backup.package
                BY <3>1, Stages DEF RenamePart, BackupInv
            <4> QED BY <4>1 DEF BackupInv, Sound
        <3>2. CASE BackupFails
            BY <3>2 DEF BackupFails, files, BackupInv, Sound
        <3> QED BY <1>3, <3>1, <3>2
    <2> QED
        BY <1>3, <2>1, <2>2
        DEF RenamePart, BackupFails, BackupInv, WorkspaceTyped, ReadingSound, workspace,
            restoration
<1> QED BY <1>1, <1>2, <1>3

LEMMA CrashKeeps ==
    ASSUME BackupInv, BackupCrash
    PROVE  BackupInv'
<1>1. backup' = Waiting /\ backup' \notin Readings /\ backup' \notin Writings
    BY DEF BackupCrash, Waiting, Readings, Writings
<1> QED
    BY <1>1 DEF BackupCrash, BackupInv, WorkspaceTyped, ReadingSound, Sound, files

-----------------------------------------------------------------------------
(* Restoring *)

LEMMA RestoreStages ==
    ASSUME restoring \in {Waiting} \cup Restores
    PROVE  /\ restoring # Waiting <=> restoring.stage # "idle"
           /\ restoring \in Restores <=> restoring.stage \in {"layout", "entries", "rekeyed"}
BY DEF Waiting, Restores

LEMMA RestoreStep ==
    ASSUME BackupInv, RestoreInv,
           RestoreLayout \/ WriteEntries \/ Rekey \/ FinishRestore \/ RestoreGivesUp
    PROVE  BackupsInv'
<1>1. BackupInv'
    <2>1. UNCHANGED <<live, entries, drafts, objects, backup, destination>> /\ untidy' \in BOOLEAN
        BY DEF RestoreLayout, WriteEntries, Rekey, FinishRestore, RestoreGivesUp, workspace,
               files, BackupInv, WorkspaceTyped
    <2> QED
        BY <2>1 DEF BackupInv, WorkspaceTyped, ReadingSound, Sound
<1>2. RestoreInv'
    <2>1. CASE RestoreLayout
        <3>1. destination \in Packages
            BY <2>1 DEF RestoreLayout, BackupInv, Sound, NoFile
        <3>2. restoring' \in Restores /\ restoring' # Waiting
            BY <2>1, <3>1 DEF RestoreLayout, Restores, Packages, Waiting
        <3> QED BY <3>2 DEF RestoreInv, RestoredWholeOrNot
    <2>2. CASE WriteEntries \/ Rekey
        <3>1. restoring \in Restores
            BY <2>2, RestoreStages DEF WriteEntries, Rekey, RestoreInv
        <3>2. restoring' \in Restores /\ restoring' # Waiting
            BY <2>2, <3>1 DEF WriteEntries, Rekey, Restores, Waiting
        <3> QED BY <3>2 DEF RestoreInv, RestoredWholeOrNot
    <2>3. CASE FinishRestore
        <3>1. restoring' = Waiting /\ target'.stage = "restored" /\ target'.key = "target"
            BY <2>3 DEF FinishRestore
        <3> QED BY <3>1 DEF RestoreInv, RestoredWholeOrNot
    <2>4. CASE RestoreGivesUp
        BY <2>4 DEF RestoreGivesUp, RestoreInv, RestoredWholeOrNot, BackupInv, WorkspaceTyped
    <2> QED BY <2>1, <2>2, <2>3, <2>4
<1> QED BY <1>1, <1>2 DEF BackupsInv

LEMMA CrashLeavesTarget ==
    ASSUME BackupInv, RestoreInv, BackupCrash
    PROVE  RestoreInv'
BY DEF BackupCrash, BackupInv, WorkspaceTyped, RestoreInv, RestoredWholeOrNot

-----------------------------------------------------------------------------

LEMMA BackupStep == BackupsInv /\ [BackupNext]_backupVars => BackupsInv'
<1> SUFFICES ASSUME BackupsInv, [BackupNext]_backupVars PROVE BackupsInv'
    OBVIOUS
<1> USE DEF BackupsInv
<1>1. ASSUME UNCHANGED <<target, restoring, untidy>> PROVE RestoreInv'
    BY <1>1 DEF RestoreInv, RestoredWholeOrNot
<1>2. ASSUME NEW s \in Statements, StoreObject(s) \/ SaveDraft(s) PROVE BackupsInv'
    BY <1>1, <1>2, UseKeeps DEF StoreObject, SaveDraft, restoration
<1>3. CASE CommitEntry
    BY <1>1, <1>3, CommitEntryKeeps DEF CommitEntry, restoration
<1>4. CASE CloseWorkspace \/ OpenWorkspace
    BY <1>1, <1>4, SessionKeeps DEF CloseWorkspace, OpenWorkspace, restoration
<1>5. CASE BeginBackup \/ ListObjects \/ ReadDatabase \/ Seal
    BY <1>1, <1>5, BeginKeeps, ListKeeps, ReadKeeps, SealKeeps
    DEF BeginBackup, ListObjects, ReadDatabase, Seal, restoration
<1>6. CASE WritePart \/ PartWritten \/ RenamePart \/ BackupFails
    BY <1>1, <1>6, WriteKeeps DEF WritePart, PartWritten, RenamePart, BackupFails, restoration
<1>7. CASE RestoreLayout \/ WriteEntries \/ Rekey \/ FinishRestore \/ RestoreGivesUp
    BY <1>7, RestoreStep
<1>8. CASE BackupCrash
    BY <1>8, CrashKeeps, CrashLeavesTarget
<1>9. CASE UNCHANGED backupVars
    BY <1>9 DEF backupVars, BackupInv, RestoreInv, RestoredWholeOrNot, WorkspaceTyped,
                ReadingSound, Sound
<1> QED
    BY <1>2, <1>3, <1>4, <1>5, <1>6, <1>7, <1>8, <1>9 DEF BackupNext

-----------------------------------------------------------------------------
(* Theorems *)

\* The invariant that carries the others: a backup under way has all that was committed when
\* create of backup-service.ts was called.
THEOREM BackupInvariant == BackupSpec => []BackupsInv
BY InitialBackups, BackupStep, PTL DEF BackupSpec

\* The file at the destination is none or a whole package with what was committed before, and
\* with each draft its statement, whatever requests, closings and crashes cross create.
THEOREM BackupsKeep == BackupSpec => []BackupKeeps
<1>1. BackupsInv => BackupKeeps
    BY DEF BackupsInv, BackupInv, BackupKeeps, Sound, Contains, Packages
<1> QED BY <1>1, BackupInvariant, PTL

\* A restore that is over has made the whole of the new workspace or nothing, unless it was
\* cut off or its removal failed.
THEOREM RestoresAreWhole == BackupSpec => []RestoredWholeOrNot
<1>1. BackupsInv => RestoredWholeOrNot
    BY DEF BackupsInv, RestoreInv
<1> QED BY <1>1, BackupInvariant, PTL

-----------------------------------------------------------------------------
(* Migrations, updates and folder backups *)

Optional(S) == S \cup {Nil}

MigrationRuns == [stage : {"checkpoint", "migrating"}, name : Checkpoints, from : Databases]

\* A database that a whole checkpoint holds
Kept(d) ==
    \E n \in Checkpoints :
       /\ checkpoint[n] # Nil /\ checkpoint[n].stage = "whole"
       /\ checkpoint[n].content = d /\ ~checkpoint[n].torn

\* A copy has at least the given rows, if no commit has torn it.
Covers(file, rows) == file.torn \/ file.content.rows >= rows

DatabaseInv ==
    /\ data \in Databases /\ data.applied = 1..data.version
    /\ checkpoint \in [Checkpoints -> Optional(Copies)]
    /\ run \in Optional(MigrationRuns)
    /\ transaction # Nil =>
          /\ run # Nil /\ run.stage = "migrating"
          /\ transaction \in Databases /\ transaction.applied = 1..transaction.version
          /\ transaction.rows = data.rows
    /\ run # Nil /\ run.stage = "checkpoint" =>
          /\ checkpoint[run.name] \in Copies /\ ~checkpoint[run.name].torn
          /\ checkpoint[run.name].content = run.from
    /\ run # Nil /\ run.stage = "migrating" => Kept(run.from)
    /\ \A d \in left : Kept(d)

JudgedInv ==
    /\ status.state \in {"available", "downloaded"} => status.version \in judged
    /\ status.state = "downloaded" => staged # Nil
    /\ checking # Nil /\ checking.at = "preflight" => checking.release.version \in Nat
    /\ fetching # Nil => fetching \in judged
    /\ staged # Nil => staged \in judged
    /\ quitting # Nil => staged # Nil
    /\ handed # Nil => handed.version \in judged

CopiedInv ==
    /\ quitting # Nil =>
          /\ quitting \in [at : {"tasks", "copying"}, name : Optional(Checkpoints), rows : Nat]
          /\ quitting.rows <= data.rows
    /\ quitting # Nil /\ quitting.at = "copying" =>
          /\ quitting.name \in Checkpoints /\ checkpoint[quitting.name] \in Copies
          /\ Covers(checkpoint[quitting.name], quitting.rows)
    /\ handed # Nil =>
          /\ handed.name \in Checkpoints /\ handed.rows \in Nat
          /\ checkpoint[handed.name] \in Copies /\ checkpoint[handed.name].stage = "whole"
          /\ Covers(checkpoint[handed.name], handed.rows)

FolderInv ==
    /\ partial \in Optional(Copies)
    /\ making # Nil /\ making.stage = "copying" => partial \in Copies
    /\ making # Nil /\ making.stage = "copied" => partial \in Copies /\ partial.stage = "whole"
    /\ folder # Nil => folder.stage = "whole"
    /\ recovery # Nil => folder # Nil
    /\ recovery # Nil /\ recovery.stage = "copied" => recovery.file.stage = "whole"
    /\ recovered # Nil => recovered.stage = "whole"

MaintenanceInv == DatabaseInv /\ JudgedInv /\ CopiedInv /\ FolderInv

-----------------------------------------------------------------------------
(* Copies *)

\* What every step but a commit does to the checkpoints
CopiesStay ==
    /\ checkpoint' \in [Checkpoints -> Optional(Copies)]
    /\ \A n \in Checkpoints : checkpoint[n] \in Copies =>
          /\ checkpoint'[n] \in Copies
          /\ checkpoint'[n].content = checkpoint[n].content
          /\ checkpoint'[n].torn = checkpoint[n].torn
          /\ checkpoint[n].stage = "whole" => checkpoint'[n].stage = "whole"

\* What a commit does to them
CopiesRewritten(after) ==
    /\ checkpoint' \in [Checkpoints -> Optional(Copies)]
    /\ \A n \in Checkpoints : checkpoint[n] \in Copies =>
          /\ checkpoint'[n] \in Copies /\ checkpoint'[n].stage = checkpoint[n].stage
          /\ checkpoint[n].stage = "whole" => checkpoint'[n] = checkpoint[n]
          /\ \A rows \in Nat : Covers(checkpoint[n], rows) /\ rows <= after.rows =>
                Covers(checkpoint'[n], rows)

LEMMA NewCopyIsCopy ==
    ASSUME data \in Databases
    PROVE  /\ NewCopy \in Copies /\ NewCopy # Nil
           /\ NewCopy.content = data /\ ~NewCopy.torn
<1>1. NewCopy \in Copies
    BY DEF NewCopy, Copies
<1> QED BY <1>1, NilAssumption DEF NewCopy

LEMMA WholeCopy ==
    ASSUME NEW file \in Copies
    PROVE  /\ Whole(file) \in Copies /\ Whole(file).stage = "whole"
           /\ Whole(file).content = file.content /\ Whole(file).torn = file.torn
BY DEF Whole, Copies

LEMMA CutCopy ==
    ASSUME NEW file \in Optional(Copies)
    PROVE  /\ Cut(file) \in Optional(Copies)
           /\ file \in Copies =>
                 /\ Cut(file) \in Copies
                 /\ Cut(file).content = file.content /\ Cut(file).torn = file.torn
                 /\ file.stage = "whole" => Cut(file).stage = "whole"
<1>1. CASE file # Nil /\ file.stage = "writing"
    <2>1. file \in Copies /\ Cut(file) = [file EXCEPT !.stage = "cut"]
        BY <1>1 DEF Cut, Optional
    <2> QED BY <1>1, <2>1 DEF Copies, Optional
<1>2. CASE ~(file # Nil /\ file.stage = "writing")
    BY <1>2 DEF Cut
<1> QED BY <1>1, <1>2

LEMMA RewrittenCopy ==
    ASSUME NEW file \in Optional(Copies), NEW after \in Databases, NEW g \in Rewrites(file, after)
    PROVE  /\ g \in Optional(Copies)
           /\ file \in Copies =>
                 /\ g \in Copies /\ g.stage = file.stage
                 /\ file.stage = "whole" => g = file
                 /\ \A rows \in Nat : Covers(file, rows) /\ rows <= after.rows => Covers(g, rows)
<1>1. CASE g = file
    BY <1>1 DEF Covers
<1>2. CASE g # file
    <2>1. file \in Copies /\ file.stage = "writing"
        BY <1>2 DEF Rewrites, Optional
    <2>2. CASE g = [file EXCEPT !.content = after]
        BY <2>1, <2>2 DEF Copies, Covers, Optional
    <2>3. CASE g = [file EXCEPT !.torn = TRUE]
        BY <2>1, <2>3 DEF Copies, Covers, Optional
    <2> QED BY <1>2, <2>2, <2>3 DEF Rewrites
<1> QED BY <1>1, <1>2

LEMMA CommittedCopies ==
    ASSUME DatabaseInv, FolderInv, NEW after \in Databases, Committed(after)
    PROVE  /\ data' = after /\ CopiesRewritten(after)
           /\ partial' \in Optional(Copies)
           /\ partial \in Copies => partial' \in Copies /\ partial'.stage = partial.stage
<1>1. PICK f \in [Checkpoints -> UNION {Rewrites(checkpoint[n], after) : n \in Checkpoints}] :
         /\ \A n \in Checkpoints : f[n] \in Rewrites(checkpoint[n], after)
         /\ checkpoint' = f
    BY DEF Committed
<1>2. \A n \in Checkpoints : checkpoint[n] \in Optional(Copies)
    BY DEF DatabaseInv
<1>3. CopiesRewritten(after)
    BY <1>1, <1>2, RewrittenCopy DEF CopiesRewritten
<1>4. partial \in Optional(Copies) /\ partial' \in Rewrites(partial, after)
    BY DEF Committed, FolderInv
<1> QED BY <1>3, <1>4, RewrittenCopy DEF Committed

LEMMA KeptStays ==
    ASSUME checkpoint \in [Checkpoints -> Optional(Copies)],
           CopiesStay \/ \E after \in Databases : CopiesRewritten(after),
           NEW d, Kept(d)
    PROVE  Kept(d)'
<1>1. PICK n \in Checkpoints :
         /\ checkpoint[n] # Nil /\ checkpoint[n].stage = "whole"
         /\ checkpoint[n].content = d /\ ~checkpoint[n].torn
    BY DEF Kept
<1>2. checkpoint[n] \in Copies
    BY <1>1 DEF Optional
<1>3. /\ checkpoint'[n] \in Copies /\ checkpoint'[n].stage = "whole"
      /\ checkpoint'[n].content = d /\ ~checkpoint'[n].torn
    BY <1>1, <1>2 DEF CopiesStay, CopiesRewritten
<1>4. checkpoint'[n] # Nil
    BY <1>3, NilAssumption
<1> QED BY <1>3, <1>4 DEF Kept

-----------------------------------------------------------------------------
(* Steps that leave a part alone *)

LEMMA DatabaseStays ==
    ASSUME DatabaseInv, CopiesStay, UNCHANGED <<migration, data>>
    PROVE  DatabaseInv'
<1>1. \A d : Kept(d) => Kept(d)'
    BY KeptStays DEF DatabaseInv
<1>2. UNCHANGED <<transaction, run, left, data>>
    BY DEF migration
<1>3. run # Nil => run.name \in Checkpoints
    BY DEF DatabaseInv, Optional, MigrationRuns
<1> QED BY <1>1, <1>2, <1>3 DEF DatabaseInv, CopiesStay

LEMMA CopiedStays ==
    ASSUME CopiedInv, DatabaseInv, CopiesStay, UNCHANGED <<quitting, handed, data>>
    PROVE  CopiedInv'
<1>1. \A n \in Checkpoints, rows \in Nat :
         checkpoint[n] \in Copies /\ Covers(checkpoint[n], rows) => Covers(checkpoint'[n], rows)
    BY DEF CopiesStay, Covers
<1> QED BY <1>1 DEF CopiedInv, CopiesStay

LEMMA CopiedCommitted ==
    ASSUME CopiedInv, DatabaseInv, NEW after \in Databases, data' = after,
           after.rows >= data.rows, CopiesRewritten(after), UNCHANGED <<quitting, handed>>
    PROVE  CopiedInv'
<1>1. data.rows \in Nat /\ after.rows \in Nat
    BY DEF DatabaseInv, Databases
<1>2. quitting # Nil => quitting.rows \in Nat /\ quitting.rows <= after.rows
    BY <1>1 DEF CopiedInv
<1>3. quitting # Nil /\ quitting.at = "copying" =>
         /\ checkpoint'[quitting.name] \in Copies
         /\ Covers(checkpoint'[quitting.name], quitting.rows)
    BY <1>2 DEF CopiedInv, CopiesRewritten
<1>4. handed # Nil => checkpoint'[handed.name] = checkpoint[handed.name]
    BY DEF CopiedInv, CopiesRewritten
<1> QED BY <1>2, <1>3, <1>4 DEF CopiedInv

LEMMA Unmoved ==
    ASSUME DatabaseInv, UNCHANGED checkpoint
    PROVE  CopiesStay
BY DEF DatabaseInv, CopiesStay

-----------------------------------------------------------------------------
(* Checking and downloading *)

LEMMA UpdaterKeeps ==
    ASSUME MaintenanceInv,
           \/ Check \/ CheckFails
           \/ \E v \in Versions, trusted \in BOOLEAN :
                 v > program /\ Answered([version |-> v, trusted |-> trusted])
           \/ \E canProceed \in BOOLEAN : Judge(canProceed)
           \/ \E v \in Versions : Download(v)
           \/ Downloaded \/ DownloadFails
    PROVE  MaintenanceInv'
<1>1. UNCHANGED <<installation, storage, folders>>
    BY DEF Check, CheckFails, Answered, Judge, Download, Downloaded, DownloadFails
<1>2. UNCHANGED <<quitting, handed, program, transaction, run, left, data, checkpoint>>
    BY <1>1 DEF installation, storage, migration
<1>3. UNCHANGED <<partial, folder, named, making, recovered, recovery>>
    BY <1>1 DEF folders, folderBackup, folderRestore
<1>4. DatabaseInv'
    BY <1>2 DEF MaintenanceInv, DatabaseInv, Kept
<1>5. CopiedInv'
    BY <1>2 DEF MaintenanceInv, CopiedInv, Covers
<1>6. FolderInv'
    BY <1>3 DEF MaintenanceInv, FolderInv
<1>7. JudgedInv'
    <2> USE DEF MaintenanceInv, JudgedInv
    <2>1. CASE Check \/ CheckFails
        <3>1. status' = State("checking") \/ status' = State("unavailable")
            BY <2>1 DEF Check, CheckFails
        <3>2. checking' = [at |-> "release"] \/ checking' = Nil
            BY <2>1 DEF Check, CheckFails
        <3> QED BY <1>2, <2>1, <3>1, <3>2 DEF Check, CheckFails, State
    <2>2. ASSUME NEW v \in Versions, NEW trusted \in BOOLEAN,
                 Answered([version |-> v, trusted |-> trusted])
          PROVE JudgedInv'
        <3>1. checking'.release.version = v /\ v \in Nat
            BY <2>2, LastVersionAssumption DEF Answered, Versions
        <3> QED BY <1>2, <2>2, <3>1 DEF Answered
    <2>3. ASSUME NEW canProceed \in BOOLEAN, Judge(canProceed)
          PROVE JudgedInv'
        <3> DEFINE release == checking.release
        <3>1. release.version \in Nat
            BY <2>3 DEF Judge
        <3>2. \/ status' = State("blocked")
              \/ status' = [state |-> "available", version |-> release.version]
            BY <2>3 DEF Judge, Evaluate
        <3> HIDE DEF release
        <3>3. judged' = judged \cup ({status'.version} \ {Nil})
            BY <2>3 DEF Judge
        <3>4. status'.state \in {"available", "downloaded"} => status'.version \in judged'
            BY <3>1, <3>2, <3>3, NilAssumption DEF State
        <3>5. status'.state # "downloaded"
            BY <3>2 DEF State
        <3>6. judged \subseteq judged'
            BY <3>3
        <3> QED BY <1>2, <2>3, <3>4, <3>5, <3>6 DEF Judge
    <2>4. ASSUME NEW v \in Versions, Download(v)
          PROVE JudgedInv'
        <3>1. CASE status = [state |-> "available", version |-> v]
            <4>1. v \in judged /\ fetching' = v /\ UNCHANGED <<status, checking, staged, judged>>
                BY <2>4, <3>1 DEF Download
            <4> QED BY <1>2, <4>1
        <3>2. CASE status # [state |-> "available", version |-> v]
            <4>1. status' = State("blocked") /\ UNCHANGED <<fetching, checking, staged, judged>>
                BY <2>4, <3>2 DEF Download
            <4>2. status'.state = "blocked"
                BY <4>1 DEF State
            <4> QED BY <1>2, <4>1, <4>2
        <3> QED BY <3>1, <3>2
    <2>5. CASE Downloaded
        <3>1. fetching # Nil /\ staged' = fetching /\ fetching' = Nil /\ UNCHANGED <<checking, judged>>
            BY <2>5 DEF Downloaded
        <3>2. status'.version = fetching /\ status'.state = "downloaded"
            BY <2>5 DEF Downloaded
        <3> QED BY <1>2, <3>1, <3>2
    <2>6. CASE DownloadFails
        BY <1>2, <2>6 DEF DownloadFails
    <2> QED BY <2>1, <2>2, <2>3, <2>4, <2>5, <2>6
<1> QED BY <1>4, <1>5, <1>6, <1>7 DEF MaintenanceInv

-----------------------------------------------------------------------------
(* Installing *)

LEMMA InstallKeeps ==
    ASSUME MaintenanceInv,
           \/ InstallOnQuit \/ HandOver \/ InstallFails
           \/ \E name \in Checkpoints : CopyForInstall(name)
    PROVE  MaintenanceInv'
<1>1. UNCHANGED <<updater, program, migration, folders, data>>
    BY DEF InstallOnQuit, HandOver, InstallFails, CopyForInstall, storage
<1>2. UNCHANGED <<status, checking, fetching, staged, judged, transaction, run, left, data>>
    BY <1>1 DEF updater, migration
<1>3. UNCHANGED <<partial, folder, named, making, recovered, recovery>>
    BY <1>1 DEF folders, folderBackup, folderRestore
<1>4. FolderInv'
    BY <1>3 DEF MaintenanceInv, FolderInv
<1>5. data \in Databases /\ checkpoint \in [Checkpoints -> Optional(Copies)]
    BY DEF MaintenanceInv, DatabaseInv
<1>6. CASE InstallOnQuit
    <2>1. UNCHANGED <<checkpoint, handed>>
        BY <1>6 DEF InstallOnQuit, storage
    <2>2. quitting' = [at |-> "tasks", name |-> Nil, rows |-> data.rows]
        BY <1>6 DEF InstallOnQuit
    <2>3. status.state = "downloaded"
        BY <1>6 DEF InstallOnQuit
    <2>4. DatabaseInv'
        BY <1>1, <2>1, Unmoved, DatabaseStays DEF MaintenanceInv
    <2>5. JudgedInv'
        BY <1>2, <2>1, <2>3 DEF MaintenanceInv, JudgedInv
    <2>6. CopiedInv'
        BY <1>2, <1>5, <2>1, <2>2 DEF MaintenanceInv, CopiedInv, Covers, Databases, Optional
    <2> QED BY <1>4, <2>4, <2>5, <2>6 DEF MaintenanceInv
<1>7. ASSUME NEW name \in Checkpoints, CopyForInstall(name)
      PROVE MaintenanceInv'
    <2>1. /\ quitting # Nil /\ quitting.at = "tasks" /\ checkpoint[name] = Nil
          /\ checkpoint' = [checkpoint EXCEPT ![name] = NewCopy]
          /\ quitting' = [quitting EXCEPT !.at = "copying", !.name = name]
          /\ UNCHANGED handed
        BY <1>7 DEF CopyForInstall
    <2>2. CopiesStay
        BY <1>5, <2>1, NewCopyIsCopy, NilAssumption DEF CopiesStay, Optional
    <2>3. DatabaseInv'
        BY <1>1, <2>2, DatabaseStays DEF MaintenanceInv
    <2>4. JudgedInv'
        BY <1>2, <2>1 DEF MaintenanceInv, JudgedInv
    <2>5. /\ quitting' \in [at : {"tasks", "copying"}, name : Optional(Checkpoints), rows : Nat]
          /\ quitting'.name = name /\ quitting'.rows = quitting.rows
          /\ quitting.rows <= data.rows
        BY <2>1 DEF MaintenanceInv, CopiedInv, Optional
    <2>6. checkpoint'[name] \in Copies /\ Covers(checkpoint'[name], quitting.rows)
        BY <1>5, <2>1, <2>5, NewCopyIsCopy DEF Covers
    <2>7. \A n \in Checkpoints, rows \in Nat :
             checkpoint[n] \in Copies /\ Covers(checkpoint[n], rows) => Covers(checkpoint'[n], rows)
        BY <2>2 DEF CopiesStay, Covers
    <2>8. CopiedInv'
        BY <1>2, <2>1, <2>2, <2>5, <2>6, <2>7 DEF MaintenanceInv, CopiedInv, CopiesStay
    <2> QED BY <1>4, <2>3, <2>4, <2>8 DEF MaintenanceInv
<1>8. CASE HandOver
    <2>1. /\ quitting # Nil /\ quitting.at = "copying"
          /\ checkpoint' = [checkpoint EXCEPT ![quitting.name] = Whole(@)]
          /\ handed' = [version |-> staged, name |-> quitting.name, rows |-> quitting.rows]
          /\ quitting' = Nil
        BY <1>8 DEF HandOver
    <2>2. /\ quitting.name \in Checkpoints /\ quitting.rows \in Nat
          /\ checkpoint[quitting.name] \in Copies
          /\ Covers(checkpoint[quitting.name], quitting.rows)
        BY <2>1 DEF MaintenanceInv, CopiedInv
    <2>3. /\ checkpoint'[quitting.name] \in Copies /\ checkpoint'[quitting.name].stage = "whole"
          /\ Covers(checkpoint'[quitting.name], quitting.rows)
        BY <1>5, <2>1, <2>2, WholeCopy DEF Covers
    <2>4. CopiesStay
        BY <1>5, <2>1, <2>2, WholeCopy DEF CopiesStay, Optional
    <2>5. DatabaseInv'
        BY <1>1, <2>4, DatabaseStays DEF MaintenanceInv
    <2>6. JudgedInv'
        BY <1>2, <2>1 DEF MaintenanceInv, JudgedInv
    <2>7. CopiedInv'
        BY <2>1, <2>2, <2>3 DEF CopiedInv
    <2> QED BY <1>4, <2>5, <2>6, <2>7 DEF MaintenanceInv
<1>9. CASE InstallFails
    <2>1. /\ quitting' = Nil /\ UNCHANGED handed
          /\ checkpoint' = [name \in Checkpoints |->
                IF quitting.name = name THEN Cut(checkpoint[name]) ELSE checkpoint[name]]
        BY <1>9 DEF InstallFails
    <2>2. CopiesStay
        BY <1>5, <2>1, CutCopy DEF CopiesStay
    <2>3. DatabaseInv'
        BY <1>1, <2>2, DatabaseStays DEF MaintenanceInv
    <2>4. JudgedInv'
        BY <1>2, <2>1 DEF MaintenanceInv, JudgedInv
    <2>5. CopiedInv'
        BY <2>1, <2>2 DEF MaintenanceInv, CopiedInv, CopiesStay, Covers
    <2> QED BY <1>4, <2>3, <2>4, <2>5 DEF MaintenanceInv
<1> QED BY <1>6, <1>7, <1>8, <1>9

-----------------------------------------------------------------------------
(* Migrations, and commits *)

LEMMA JudgedStays ==
    ASSUME JudgedInv, UNCHANGED versions
    PROVE  JudgedInv'
BY DEF JudgedInv, versions, updater, installation

LEMMA FolderStays ==
    ASSUME FolderInv, UNCHANGED folders
    PROVE  FolderInv'
BY DEF FolderInv, folders, folderBackup, folderRestore

LEMMA FolderCommitted ==
    ASSUME FolderInv, UNCHANGED <<folder, named, making, recovered, recovery>>,
           partial' \in Optional(Copies),
           partial \in Copies => partial' \in Copies /\ partial'.stage = partial.stage
    PROVE  FolderInv'
BY DEF FolderInv

LEMMA MigrationKeeps ==
    ASSUME MaintenanceInv,
           \/ \E name \in Checkpoints : BeginMigrations(name)
           \/ CheckpointTaken \/ Up \/ CommitMigration \/ MigrationFails \/ MigrationsDone
    PROVE  MaintenanceInv'
<1>1. UNCHANGED versions
    BY DEF BeginMigrations, CheckpointTaken, Up, CommitMigration, MigrationFails, MigrationsDone
<1>2. UNCHANGED <<quitting, handed>> /\ JudgedInv'
    BY <1>1, JudgedStays DEF MaintenanceInv, versions, installation
<1>3. /\ data \in Databases /\ data.applied = 1..data.version
      /\ checkpoint \in [Checkpoints -> Optional(Copies)] /\ run \in Optional(MigrationRuns)
    BY DEF MaintenanceInv, DatabaseInv
<1>4. ASSUME NEW name \in Checkpoints, BeginMigrations(name)
      PROVE MaintenanceInv'
    <2>1. /\ run = Nil /\ checkpoint[name] = Nil
          /\ checkpoint' = [checkpoint EXCEPT ![name] = NewCopy]
          /\ run' = [stage |-> "checkpoint", name |-> name, from |-> data]
          /\ UNCHANGED <<transaction, left, data>> /\ UNCHANGED folders
        BY <1>4 DEF BeginMigrations
    <2>2. CopiesStay
        BY <1>3, <2>1, NewCopyIsCopy, NilAssumption DEF CopiesStay, Optional
    <2>3. \A d : Kept(d) => Kept(d)'
        BY <1>3, <2>2, KeptStays
    <2>4. /\ run' \in MigrationRuns /\ run'.stage = "checkpoint" /\ run'.name = name
          /\ run'.from = data
        BY <1>3, <2>1 DEF MigrationRuns
    <2>5. checkpoint'[name] = NewCopy
        BY <1>3, <2>1
    <2>6. transaction' = Nil
        BY <2>1 DEF MaintenanceInv, DatabaseInv
    <2>7. DatabaseInv'
        BY <1>3, <2>1, <2>2, <2>3, <2>4, <2>5, <2>6, NewCopyIsCopy
        DEF MaintenanceInv, DatabaseInv, CopiesStay, Optional
    <2>8. CopiedInv'
        BY <1>2, <2>1, <2>2, CopiedStays DEF MaintenanceInv
    <2> QED BY <1>2, <2>1, <2>7, <2>8, FolderStays DEF MaintenanceInv
<1>5. CASE CheckpointTaken
    <2>1. /\ run # Nil /\ run.stage = "checkpoint"
          /\ checkpoint' = [checkpoint EXCEPT ![run.name] = Whole(@)]
          /\ run' = [run EXCEPT !.stage = "migrating"]
          /\ UNCHANGED <<transaction, left, data>> /\ UNCHANGED folders
        BY <1>5 DEF CheckpointTaken
    <2>2. /\ run \in MigrationRuns /\ run.name \in Checkpoints
          /\ checkpoint[run.name] \in Copies /\ ~checkpoint[run.name].torn
          /\ checkpoint[run.name].content = run.from
        BY <1>3, <2>1 DEF MaintenanceInv, DatabaseInv, Optional, MigrationRuns
    <2>3. CopiesStay
        BY <1>3, <2>1, <2>2, WholeCopy DEF CopiesStay, Optional
    <2>4. \A d : Kept(d) => Kept(d)'
        BY <1>3, <2>3, KeptStays
    <2>5. run' \in MigrationRuns /\ run'.stage = "migrating" /\ run'.from = run.from
        BY <2>1, <2>2 DEF MigrationRuns
    <2>6. checkpoint'[run.name] = Whole(checkpoint[run.name])
        BY <1>3, <2>1, <2>2
    <2>7. \A d : d = run.from => Kept(d)'
        <3> DEFINE n == run.name
        <3>1. /\ n \in Checkpoints /\ checkpoint'[n] # Nil /\ checkpoint'[n].stage = "whole"
              /\ checkpoint'[n].content = run.from /\ ~checkpoint'[n].torn
            BY <2>2, <2>6, WholeCopy, NilAssumption
        <3> HIDE DEF n
        <3> QED BY <3>1 DEF Kept
    <2>8. transaction' = Nil
        BY <2>1 DEF MaintenanceInv, DatabaseInv
    <2>9. DatabaseInv'
        <3>1. Kept(run.from)'
            BY <2>5, <2>7
        <3> QED
            BY <1>3, <2>1, <2>3, <2>4, <2>5, <2>8, <3>1 DEF MaintenanceInv, DatabaseInv, CopiesStay, Optional
    <2>10. CopiedInv'
        BY <1>2, <2>1, <2>3, CopiedStays DEF MaintenanceInv
    <2> QED BY <1>2, <2>1, <2>9, <2>10, FolderStays DEF MaintenanceInv
<1>6. CASE Up
    <2>1. /\ run # Nil /\ run.stage = "migrating"
          /\ transaction' = [data EXCEPT !.applied = @ \cup {data.version + 1},
                                             !.version = @ + 1]
          /\ UNCHANGED <<run, left, data, checkpoint>> /\ UNCHANGED folders
        BY <1>6 DEF Up
    <2>2. /\ transaction' \in Databases /\ transaction'.rows = data.rows
          /\ transaction'.version = data.version + 1
          /\ transaction'.applied = data.applied \cup {data.version + 1}
        <3>1. /\ data.version + 1 \in Nat /\ data.applied \cup {data.version + 1} \in SUBSET Nat
            BY <1>3 DEF Databases
        <3> DEFINE v == data.version + 1
                   a == data.applied \cup {data.version + 1}
        <3>2. transaction' = [data EXCEPT !.applied = a, !.version = v]
            BY <2>1
        <3>3. v \in Nat /\ a \in SUBSET Nat
            BY <3>1
        <3> HIDE DEF v, a
        <3>4. /\ transaction' \in Databases /\ transaction'.rows = data.rows
              /\ transaction'.version = v /\ transaction'.applied = a
            BY <1>3, <3>2, <3>3 DEF Databases
        <3> QED BY <3>4 DEF v, a
    <2>3. transaction'.applied = 1..transaction'.version
        BY <1>3, <2>2 DEF Databases
    <2>4. DatabaseInv'
        BY <2>1, <2>2, <2>3 DEF MaintenanceInv, DatabaseInv, Kept
    <2>5. CopiedInv'
        BY <1>2, <2>1 DEF MaintenanceInv, CopiedInv, Covers
    <2> QED BY <1>2, <2>1, <2>4, <2>5, FolderStays DEF MaintenanceInv
<1>7. CASE CommitMigration
    <2>1. /\ transaction # Nil /\ Committed(transaction)
          /\ left' = left \cup {run.from} /\ transaction' = Nil
          /\ UNCHANGED <<run, folder, named, making, recovered, recovery>>
        BY <1>7 DEF CommitMigration, folderRestore
    <2>2. /\ run # Nil /\ run.stage = "migrating"
          /\ transaction \in Databases /\ transaction.applied = 1..transaction.version
          /\ transaction.rows = data.rows
        BY <2>1 DEF MaintenanceInv, DatabaseInv
    <2>3. /\ data' = transaction /\ CopiesRewritten(transaction)
          /\ partial' \in Optional(Copies)
          /\ partial \in Copies => partial' \in Copies /\ partial'.stage = partial.stage
        BY <2>1, <2>2, CommittedCopies DEF MaintenanceInv
    <2>4. \A d : Kept(d) => Kept(d)'
        BY <1>3, <2>2, <2>3, KeptStays
    <2>5. Kept(run.from)
        BY <2>2 DEF MaintenanceInv, DatabaseInv
    <2>6. DatabaseInv'
        <3>1. Kept(run.from)'
            BY <2>1, <2>4, <2>5
        <3>2. \A d \in left' : Kept(d)'
            BY <2>1, <2>4, <2>5 DEF MaintenanceInv, DatabaseInv
        <3> QED
            BY <1>3, <2>1, <2>2, <2>3, <3>1, <3>2 DEF DatabaseInv, CopiesRewritten
    <2>7. CopiedInv'
        <3>1. transaction.rows >= data.rows
            BY <1>3, <2>2 DEF Databases
        <3> QED BY <1>2, <2>2, <2>3, <3>1, CopiedCommitted DEF MaintenanceInv
    <2>8. FolderInv'
        BY <2>1, <2>3, FolderCommitted DEF MaintenanceInv
    <2> QED BY <1>2, <2>6, <2>7, <2>8 DEF MaintenanceInv
<1>8. CASE MigrationFails
    <2>1. /\ run # Nil /\ transaction' = Nil /\ run' = Nil
          /\ checkpoint' = [checkpoint EXCEPT ![run.name] = Cut(@)]
          /\ UNCHANGED <<left, data>> /\ UNCHANGED folders
        BY <1>8 DEF MigrationFails
    <2>2. run.name \in Checkpoints
        BY <1>3, <2>1 DEF Optional, MigrationRuns
    <2>3. CopiesStay
        BY <1>3, <2>1, <2>2, CutCopy DEF CopiesStay
    <2>4. \A d : Kept(d) => Kept(d)'
        BY <1>3, <2>3, KeptStays
    <2>5. DatabaseInv'
        BY <1>3, <2>1, <2>3, <2>4 DEF MaintenanceInv, DatabaseInv, CopiesStay, Optional
    <2>6. CopiedInv'
        BY <1>2, <2>1, <2>3, CopiedStays DEF MaintenanceInv
    <2> QED BY <1>2, <2>1, <2>5, <2>6, FolderStays DEF MaintenanceInv
<1>9. CASE MigrationsDone
    <2>1. /\ transaction = Nil /\ run' = Nil
          /\ UNCHANGED <<transaction, left, data, checkpoint>> /\ UNCHANGED folders
        BY <1>9 DEF MigrationsDone
    <2>2. DatabaseInv'
        BY <2>1 DEF MaintenanceInv, DatabaseInv, Kept, Optional
    <2>3. CopiedInv'
        BY <1>2, <2>1 DEF MaintenanceInv, CopiedInv, Covers
    <2> QED BY <1>2, <2>1, <2>2, <2>3, FolderStays DEF MaintenanceInv
<1> QED BY <1>4, <1>5, <1>6, <1>7, <1>8, <1>9

LEMMA CommitRowKeeps ==
    ASSUME MaintenanceInv, CommitRow
    PROVE  MaintenanceInv'
<1> DEFINE after == [data EXCEPT !.rows = @ + 1]
<1>1. data \in Databases /\ data.applied = 1..data.version
    BY DEF MaintenanceInv, DatabaseInv
<1>2. /\ after \in Databases /\ after.rows = data.rows + 1 /\ after.rows >= data.rows
      /\ after.version = data.version /\ after.applied = data.applied
    BY <1>1 DEF Databases
<1>3. /\ run = Nil /\ Committed(after)
      /\ UNCHANGED <<versions, transaction, run, left, folder, named, making, recovered, recovery>>
    BY DEF CommitRow, migration, folderRestore
<1> HIDE DEF after
<1>4. /\ data' = after /\ CopiesRewritten(after)
      /\ partial' \in Optional(Copies)
      /\ partial \in Copies => partial' \in Copies /\ partial'.stage = partial.stage
    BY <1>2, <1>3, CommittedCopies DEF MaintenanceInv
<1>5. \A d : Kept(d) => Kept(d)'
    BY <1>2, <1>4, KeptStays DEF MaintenanceInv, DatabaseInv
<1>6. transaction = Nil
    BY <1>3 DEF MaintenanceInv, DatabaseInv
<1>7. DatabaseInv'
    BY <1>1, <1>2, <1>3, <1>4, <1>5, <1>6 DEF MaintenanceInv, DatabaseInv, CopiesRewritten
<1>8. CopiedInv'
    BY <1>2, <1>3, <1>4, CopiedCommitted DEF MaintenanceInv, versions, installation
<1>9. FolderInv'
    BY <1>3, <1>4, FolderCommitted DEF MaintenanceInv
<1> QED BY <1>3, <1>7, <1>8, <1>9, JudgedStays DEF MaintenanceInv

LEMMA RestartKeeps ==
    ASSUME MaintenanceInv, Restart
    PROVE  MaintenanceInv'
<1>1. /\ status' = State("idle") /\ checking' = Nil /\ fetching' = Nil /\ quitting' = Nil
      /\ handed' = Nil /\ transaction' = Nil /\ run' = Nil /\ making' = Nil /\ recovery' = Nil
      /\ checkpoint' = [name \in Checkpoints |-> Cut(checkpoint[name])]
      /\ partial' = Cut(partial)
      /\ UNCHANGED <<staged, judged, left, folder, named, recovered, data>>
    BY DEF Restart
<1>2. checkpoint \in [Checkpoints -> Optional(Copies)] /\ partial \in Optional(Copies)
    BY DEF MaintenanceInv, DatabaseInv, FolderInv
<1>3. CopiesStay
    BY <1>1, <1>2, CutCopy DEF CopiesStay
<1>4. \A d : Kept(d) => Kept(d)'
    BY <1>2, <1>3, KeptStays
<1>5. DatabaseInv'
    BY <1>1, <1>3, <1>4 DEF MaintenanceInv, DatabaseInv, CopiesStay, Optional
<1>6. JudgedInv'
    BY <1>1 DEF MaintenanceInv, JudgedInv, State
<1>7. CopiedInv'
    BY <1>1 DEF CopiedInv
<1>8. FolderInv'
    BY <1>1, <1>2, CutCopy DEF MaintenanceInv, FolderInv
<1> QED BY <1>5, <1>6, <1>7, <1>8 DEF MaintenanceInv

-----------------------------------------------------------------------------
(* Folder backups *)

LEMMA FolderKeeps ==
    ASSUME MaintenanceInv, FolderNext
    PROVE  MaintenanceInv'
<1>1. UNCHANGED <<versions, storage>>
    BY DEF FolderNext, CopyToFolder, CopiedToFolder, RenameInFolder, WriteManifest,
           FolderBackupFails, Verify, CopyFromFolder, RenameRestored, FolderRestoreFails
<1>2. UNCHANGED <<quitting, handed, transaction, run, left, data, checkpoint>>
    BY <1>1 DEF versions, installation, storage, migration
<1>3. DatabaseInv' /\ CopiedInv' /\ JudgedInv'
    BY <1>1, <1>2, JudgedStays DEF MaintenanceInv, DatabaseInv, CopiedInv, Kept, Covers
<1>4. FolderInv'
    <2> USE DEF MaintenanceInv, FolderInv
    <2>1. CASE CopyToFolder
        <3>1. partial' \in Copies /\ making'.stage = "copying"
            BY <2>1, NewCopyIsCopy DEF CopyToFolder, DatabaseInv
        <3>2. UNCHANGED <<folder, recovered, recovery>>
            BY <2>1 DEF CopyToFolder, folderRestore
        <3> QED BY <3>1, <3>2 DEF Optional
    <2>2. CASE CopiedToFolder
        <3>1. /\ partial' \in Copies /\ partial'.stage = "whole" /\ making'.stage = "copied"
            BY <2>2, WholeCopy DEF CopiedToFolder
        <3>2. UNCHANGED <<folder, recovered, recovery>>
            BY <2>2 DEF CopiedToFolder, folderRestore
        <3> QED BY <3>1, <3>2 DEF Optional
    <2>3. CASE RenameInFolder
        <3>1. /\ partial \in Copies /\ partial.stage = "whole" /\ folder' = partial
              /\ folder' # Nil /\ partial' = Nil /\ making'.stage = "renamed"
            BY <2>3, NilAssumption DEF RenameInFolder
        <3>2. UNCHANGED <<recovered, recovery>>
            BY <2>3 DEF RenameInFolder, folderRestore
        <3> QED BY <3>1, <3>2 DEF Optional
    <2>4. CASE WriteManifest
        BY <2>4 DEF WriteManifest, folderRestore
    <2>5. CASE FolderBackupFails
        BY <2>5, CutCopy DEF FolderBackupFails, folderRestore
    <2>6. CASE Verify
        BY <2>6 DEF Verify, folderBackup
    <2>7. CASE CopyFromFolder
        BY <2>7 DEF CopyFromFolder, folderBackup
    <2>8. CASE RenameRestored
        BY <2>8 DEF RenameRestored, folderBackup
    <2>9. CASE FolderRestoreFails
        BY <2>9 DEF FolderRestoreFails, folderBackup
    <2> QED BY <2>1, <2>2, <2>3, <2>4, <2>5, <2>6, <2>7, <2>8, <2>9 DEF FolderNext
<1> QED BY <1>3, <1>4 DEF MaintenanceInv

-----------------------------------------------------------------------------

LEMMA InitialInv == MaintenanceInit => MaintenanceInv
<1> SUFFICES ASSUME MaintenanceInit PROVE MaintenanceInv
    OBVIOUS
<1>1. data \in Databases /\ data.applied = 1..data.version
    BY DEF MaintenanceInit, Databases
<1>2. DatabaseInv
    BY <1>1 DEF MaintenanceInit, DatabaseInv, Optional
<1>3. JudgedInv
    BY DEF MaintenanceInit, JudgedInv, State
<1>4. CopiedInv /\ FolderInv
    BY DEF MaintenanceInit, CopiedInv, FolderInv, Optional
<1> QED BY <1>2, <1>3, <1>4 DEF MaintenanceInv

LEMMA MaintenanceStep == MaintenanceInv /\ [MaintenanceNext]_maintenanceVars => MaintenanceInv'
<1> SUFFICES ASSUME MaintenanceInv, [MaintenanceNext]_maintenanceVars PROVE MaintenanceInv'
    OBVIOUS
<1>1. CASE UpdaterNext
    BY <1>1, UpdaterKeeps, InstallKeeps DEF UpdaterNext
<1>2. CASE DatabaseNext
    BY <1>2, MigrationKeeps, CommitRowKeeps, RestartKeeps DEF DatabaseNext
<1>3. CASE FolderNext
    BY <1>3, FolderKeeps
<1>4. CASE UNCHANGED maintenanceVars
    <2>1. UNCHANGED <<quitting, handed, transaction, run, left, data, checkpoint>>
        BY <1>4 DEF maintenanceVars, versions, installation, storage, migration
    <2>2. UNCHANGED versions /\ UNCHANGED folders
        BY <1>4 DEF maintenanceVars
    <2>3. DatabaseInv' /\ CopiedInv'
        BY <2>1 DEF MaintenanceInv, DatabaseInv, CopiedInv, Kept, Covers
    <2> QED BY <2>2, <2>3, JudgedStays, FolderStays DEF MaintenanceInv
<1> QED BY <1>1, <1>2, <1>3, <1>4 DEF MaintenanceNext

-----------------------------------------------------------------------------
(* Theorems *)

\* The invariant that carries the others: what a run, an installation or a folder backup under
\* way has copied, and what it was told.
THEOREM MaintenanceInvariant == MaintenanceSpec => []MaintenanceInv
BY InitialInv, MaintenanceStep, PTL DEF MaintenanceSpec

\* runMigrations leaves every database that it has replaced in a whole checkpoint, for ever, and
\* the database has the migrations of its version and no other.
THEOREM MigrationsAreRecoverable == MaintenanceSpec => []MigrationsRecoverable
<1>1. MaintenanceInv => MigrationsRecoverable
    BY DEF MaintenanceInv, DatabaseInv, Kept, MigrationsRecoverable
<1> QED BY <1>1, MaintenanceInvariant, PTL

\* installOnQuit hands over only a version that a check found installable, with a copy of the
\* database that was made after it was called.
THEOREM InstallsWhatWasJudged == MaintenanceSpec => []InstalledWasJudged
<1>1. MaintenanceInv => InstalledWasJudged
    BY DEF MaintenanceInv, JudgedInv, CopiedInv, Covers, InstalledWasJudged
<1> QED BY <1>1, MaintenanceInvariant, PTL

\* restoreWorkspaceBackup never restores a part of a database, whatever backups into the same
\* folder it crosses.
THEOREM FoldersRestoreWhole == MaintenanceSpec => []RestoredFolderWhole
<1>1. MaintenanceInv => RestoredFolderWhole
    BY DEF MaintenanceInv, FolderInv, RestoredFolderWhole
<1> QED BY <1>1, MaintenanceInvariant, PTL

=============================================================================
