-------------------------- MODULE MCWorkspaceFiles --------------------------
(***************************************************************************)
(* Small instances for TLC of the parts that write a workspace's files and *)
(* have no state in common: where its key is kept, its backups, and what   *)
(* replaces its program and database.  One behaviour shows one part; the   *)
(* others stay as they begin.  The updates and the folder backups both     *)
(* touch the database and are shown apart from each other.                 *)
(***************************************************************************)
EXTENDS MCWorkspaceKeys, Backup, Maintenance

VARIABLE shown

FilesInit ==
    /\ shown \in {"keys", "backup", "update", "folder"}
    /\ Init /\ BackupInit /\ MaintenanceInit

FilesNext ==
    /\ UNCHANGED shown
    /\ \/ shown = "keys" /\ Next /\ UNCHANGED <<backupVars, maintenanceVars>>
       \/ shown = "backup" /\ BackupNext /\ UNCHANGED <<vars, maintenanceVars>>
       \/ shown = "update" /\ (UpdaterNext \/ DatabaseNext) /\ UNCHANGED <<vars, backupVars>>
       \/ shown = "folder" /\ (FolderNext \/ DatabaseNext) /\ UNCHANGED <<vars, backupVars>>

FilesSpec == FilesInit /\ [][FilesNext]_<<shown, vars, backupVars, maintenanceVars>>

FilesSymmetry == Symmetry \cup Permutations(Checkpoints)

=============================================================================
