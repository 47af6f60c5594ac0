----------------------------- MODULE MCDesktop -----------------------------
(***************************************************************************)
(* Small instances for TLC of three parts of the main process that have no *)
(* state in common: the utility tasks, the text recognition and the start  *)
(* and release of the desktop.  One behaviour shows one part; the others   *)
(* stay as they begin.                                                     *)
(*                                                                         *)
(* The capacities of the tasks are smaller than the number of tasks, so    *)
(* that ids are evicted while their tasks are under way.                   *)
(***************************************************************************)
EXTENDS TaskProtocol, Ocr, Shell

CONSTANT Old   \* a recognition of an earlier process that died, whose directory is there

VARIABLE shown

parts == <<vars, ocrVars, shellVars>>

RecognitionInit == OcrInit /\ \A r \in Runs : stage[r] = "dead" <=> r = Old

\* What the parts that are not shown begin with
QuietRecognition == RecognitionInit /\ dir[Old] = {Folder}
QuietShell == ShellInit /\ platform = "win32"

DesktopInit ==
    \/ shown = "tasks" /\ Init /\ QuietRecognition /\ QuietShell
    \/ shown = "recognition" /\ Init /\ RecognitionInit /\ QuietShell
    \/ shown = "shell" /\ Init /\ QuietRecognition /\ ShellInit

DesktopNext ==
    /\ UNCHANGED shown
    /\ \/ shown = "tasks" /\ Next /\ UNCHANGED <<ocrVars, shellVars>>
       \/ shown = "recognition" /\ OcrNext /\ UNCHANGED <<vars, shellVars>>
       \/ shown = "shell" /\ ShellNext /\ UNCHANGED <<vars, ocrVars>>

\* In the parts that are not shown none of the actions that are fair is enabled.
DesktopSpec ==
    /\ DesktopInit /\ [][DesktopNext]_<<shown, parts>>
    /\ Fairness /\ OcrFairness /\ ShellFairness

=============================================================================
