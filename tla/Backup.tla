------------------------------ MODULE Backup ------------------------------
(***************************************************************************)
(* Backups and what a restore makes of them:                               *)
(*                                                                         *)
(*   packages/storage/src/backup/backup-service.ts, backup-format.ts       *)
(*   apps/desktop/src/main/workspace/workspace-session.ts                  *)
(*   packages/storage/src/source/*.ts            (encrypted statements)    *)
(*                                                                         *)
(* A backup lists the stored statements, then reads the database and the   *)
(* statements, then reads the key, seals it all under a password, writes a *)
(* file beside the destination and renames it, while the workspace is used *)
(* and may be closed.  A restore writes what it unseals into the directory *)
(* of a new workspace.  The process may die between any two steps.         *)
(***************************************************************************)
EXTENDS Integers, FiniteSets

CONSTANTS
    Statements,   \* imported statements
    MaxEntries    \* bound: ledger entries committed

ASSUME MaxEntriesAssumption == MaxEntries \in Nat

VARIABLES
    live,         \* the session has its composition
    entries,      \* committed ledger entries
    drafts,       \* statements whose draft row is committed
    objects,      \* statements whose encrypted copy is in objects/
    backup,       \* the running backup
    part,         \* the file <destination>.part: "none", "half" or "whole"
    destination,  \* the file at the destination
    target,       \* the directory of the restored workspace
    restoring,    \* the running restore
    untidy        \* history: a crash or a failing removal has left a target behind

backupVars == <<live, entries, drafts, objects, backup, part, destination, target, restoring,
                untidy>>

workspace == <<live, entries, drafts, objects>>
files == <<part, destination>>
restoration == <<target, restoring, untidy>>

NoFile == [whole |-> FALSE]
NoTarget == [stage |-> "absent"]
Waiting == [stage |-> "idle"]

\* Every row of a database keeps the id of the workspace that wrote it.
Content == [entries |-> entries, drafts |-> drafts, space |-> "source", torn |-> FALSE]

With(f, field, value) == [f EXCEPT ![field] = value]

-----------------------------------------------------------------------------
(* The workspace in use *)

\* EncryptedSourceObjectStore.put: the copy appears under its name by a rename.
StoreObject(s) ==
    /\ live /\ s \notin objects
    /\ objects' = objects \cup {s}
    /\ UNCHANGED <<live, entries, drafts, backup, files, restoration>>

\* A commit while the backup reads the database file: the file may be read as before, as
\* after, or some pages of each.
CommitUnder(after) ==
    backup' \in IF backup.stage # "reading" THEN {backup}
                ELSE {With(backup, "copy", c) :
                         c \in {backup.copy, after, With(backup.copy, "torn", TRUE)}}

\* A bug to check against: the draft is saved before the statement is stored.
SaveDraftFirst(s) ==
    /\ live /\ s \notin drafts
    /\ drafts' = drafts \cup {s}
    /\ CommitUnder([Content EXCEPT !.drafts = drafts'])
    /\ UNCHANGED <<live, entries, objects, files, restoration>>

\* MemoryReviewService.start saves the draft when the statement is stored and parsed.
SaveDraft(s) ==
    /\ live /\ s \in objects \ drafts
    /\ drafts' = drafts \cup {s}
    /\ CommitUnder([Content EXCEPT !.drafts = drafts'])
    /\ UNCHANGED <<live, entries, objects, files, restoration>>

CommitEntry ==
    /\ live /\ entries < MaxEntries
    /\ entries' = entries + 1
    /\ CommitUnder([Content EXCEPT !.entries = entries'])
    /\ UNCHANGED <<live, drafts, objects, files, restoration>>

\* close: the database is closed and the key the backup was given is overwritten with zeros.
CloseWorkspace ==
    /\ live
    /\ live' = FALSE
    /\ backup' = IF backup = Waiting THEN backup ELSE With(backup, "zeroed", TRUE)
    /\ UNCHANGED <<entries, drafts, objects, files, restoration>>

\* Another generation of the desktop opens it again, with a key buffer of its own.
OpenWorkspace ==
    /\ ~live
    /\ live' = TRUE
    /\ UNCHANGED <<entries, drafts, objects, backup, files, restoration>>

-----------------------------------------------------------------------------
(* Making a backup *)

\* createBackup, once the file is chosen, calls create.
BeginBackup ==
    /\ live /\ backup = Waiting
    /\ backup' = [stage |-> "listing", zeroed |-> FALSE, names |-> {}, copy |-> Content,
                  hadEntries |-> entries, hadDrafts |-> drafts]
    /\ UNCHANGED <<workspace, files, restoration>>

\* listEntries: the directory of the statements ...
ListObjects ==
    /\ backup.stage = "listing"
    /\ backup' = [backup EXCEPT !.stage = "reading", !.names = objects, !.copy = Content]
    /\ UNCHANGED <<workspace, files, restoration>>

\* ... then the database ...
ReadDatabase ==
    /\ backup.stage = "reading"
    /\ backup' = [backup EXCEPT !.stage = "sealing"]
    /\ UNCHANGED <<workspace, files, restoration>>

Package ==
    [whole |-> TRUE, dek |-> IF backup.zeroed THEN "zeros" ELSE "source",
     zeroed |-> backup.zeroed, copy |-> backup.copy, names |-> backup.names,
     hadEntries |-> backup.hadEntries, hadDrafts |-> backup.hadDrafts]

\* ... then every statement that was listed; none is ever removed.  When the last is there the
\* key is read, and everything sealed under a key derived from the password.
Seal ==
    /\ backup.stage = "sealing"
    /\ backup' = [stage |-> "writing", zeroed |-> FALSE, package |-> Package]
    /\ UNCHANGED <<workspace, files, restoration>>

\* The file beside the destination is emptied ...
WritePart ==
    /\ backup.stage = "writing" /\ part # "half"
    /\ part' = "half"
    /\ UNCHANGED <<workspace, backup, destination, restoration>>

\* ... and written to its end ...
PartWritten ==
    /\ backup.stage = "writing" /\ part = "half"
    /\ part' = "whole"
    /\ backup' = [backup EXCEPT !.stage = "renaming"]
    /\ UNCHANGED <<workspace, destination, restoration>>

\* ... and takes the destination's name.
RenamePart ==
    /\ backup.stage = "renaming"
    /\ destination' = backup.package /\ part' = "none"
    /\ backup' = Waiting
    /\ UNCHANGED <<workspace, restoration>>

\* A file operation fails, and create rejects; the file beside the destination stays.
BackupFails ==
    /\ backup # Waiting
    /\ backup' = Waiting
    /\ UNCHANGED <<workspace, files, restoration>>

-----------------------------------------------------------------------------
(* Restoring it, from the settings or the first screen *)

\* restore, with a new workspace id: decryptPayload of a whole package, under its password
\* (nothing happens under another), and the new layout.
RestoreLayout ==
    /\ restoring = Waiting /\ target = NoTarget
    /\ destination.whole
    /\ target' = [stage |-> "layout"]
    /\ restoring' = [stage |-> "layout", copy |-> destination.copy, dek |-> destination.dek]
    /\ UNCHANGED <<workspace, backup, files, untidy>>

\* Every entry is written under its name.
WriteEntries ==
    /\ restoring.stage = "layout"
    /\ target' = [stage |-> "entries", key |-> "source", space |-> "target",
                  copy |-> restoring.copy]
    /\ restoring' = [restoring EXCEPT !.stage = "entries"]
    /\ UNCHANGED <<workspace, backup, files, untidy>>

\* The database opens with the key of the package, and gets a new one.  A torn one may still
\* open.
Rekey ==
    /\ restoring.stage = "entries"
    /\ restoring.dek = target.key
    /\ target' = [target EXCEPT !.stage = "rekeyed", !.key = "target"]
    /\ restoring' = [restoring EXCEPT !.stage = "rekeyed"]
    /\ UNCHANGED <<workspace, backup, files, untidy>>

\* verifyDatabase opens it with the new key, checks its pages and counts the rows of its
\* tables; then the new key is stored (its file: WorkspaceKeys) and the counts are returned.
FinishRestore ==
    /\ restoring.stage = "rekeyed"
    /\ target.key = "target"
    /\ target' = [stage |-> "restored", key |-> target.key, space |-> target.space,
                  copy |-> target.copy, reported |-> target.copy.entries]
    /\ restoring' = Waiting
    /\ UNCHANGED <<workspace, backup, files, untidy>>

\* A bug to check against: what was made of the target stays.
RestoreFailsKeeping ==
    /\ restoring # Waiting
    /\ restoring' = Waiting
    /\ UNCHANGED <<workspace, backup, files, target, untidy>>

\* A step throws, the target is removed; that it cannot be is ignored.
RestoreGivesUp ==
    /\ restoring # Waiting
    /\ restoring' = Waiting
    /\ \/ target' = NoTarget /\ UNCHANGED untidy
       \/ untidy' = TRUE /\ UNCHANGED target
    /\ UNCHANGED <<workspace, backup, files>>

-----------------------------------------------------------------------------

\* The process dies with what it was doing.
BackupCrash ==
    /\ live \/ backup # Waiting \/ restoring # Waiting
    /\ live' = FALSE /\ backup' = Waiting /\ restoring' = Waiting
    /\ untidy' = (untidy \/ restoring # Waiting)
    /\ UNCHANGED <<entries, drafts, objects, files, target>>

BackupInit ==
    /\ live = TRUE
    /\ entries = 0 /\ drafts = {} /\ objects = {}
    /\ backup = Waiting /\ restoring = Waiting
    /\ part = "none" /\ destination = NoFile
    /\ target = NoTarget /\ untidy = FALSE

BackupNext ==
    \/ \E s \in Statements : StoreObject(s) \/ SaveDraft(s)
    \/ CommitEntry \/ CloseWorkspace \/ OpenWorkspace
    \/ BeginBackup \/ ListObjects \/ ReadDatabase \/ Seal
    \/ WritePart \/ PartWritten \/ RenamePart \/ BackupFails
    \/ RestoreLayout \/ WriteEntries \/ Rekey \/ FinishRestore \/ RestoreGivesUp
    \/ BackupCrash

BackupSpec == BackupInit /\ [][BackupNext]_backupVars

-----------------------------------------------------------------------------
(* Properties *)

\* Whenever the process dies, the file at the destination is none or a complete package.
\* What was committed when the backup was asked for is in it, and with every draft the
\* statement it was read from, unless commits have torn the database as it was read; and its
\* key is the workspace's, unless the workspace was closed meanwhile.
BackupKeeps ==
    destination # NoFile =>
       /\ destination.whole
       /\ ~destination.copy.torn =>
             /\ destination.copy.entries >= destination.hadEntries
             /\ destination.hadDrafts \subseteq destination.copy.drafts \cap destination.names
       /\ ~destination.zeroed => destination.dek = "source"

\* A restore that is over has made the new workspace, with the whole database of the package
\* and a key that fits it; or it has left nothing, unless it was cut off or its removal
\* failed.  Nothing is said of its statement objects, whose files are still sealed with the
\* old key (backup-service.ts:160).
RestoredWholeOrNot ==
    restoring = Waiting /\ ~untidy =>
       target = NoTarget \/ (target.stage = "restored" /\ target.key = "target")

\* What the ledger of the restored workspace lists: every query asks for rows of its id.
Listed == IF target.copy.space = target.space THEN target.copy.entries ELSE 0

=============================================================================
