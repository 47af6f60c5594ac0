------------------------------ MODULE MCBackup ------------------------------
(***************************************************************************)
(* What the user is told of a restore, for TLC.                            *)
(***************************************************************************)
EXTENDS Backup

\* locales/en.json:32, shown when a restore has succeeded: "A new space was restored with
\* {{count}} ledger entries; restart to switch to it."  The new space then lists that many.
RestoredShowsEntries == target.stage = "restored" => Listed = target.reported

=============================================================================
