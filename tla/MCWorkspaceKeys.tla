-------------------------- MODULE MCWorkspaceKeys --------------------------
(***************************************************************************)
(* A small installation for TLC: keys and passwords are interchangeable,   *)
(* workspace ids are not, since the order of their directories matters.    *)
(* What the screens say of a lock and of a restore is stated here.         *)
(***************************************************************************)
EXTENDS WorkspaceKeys, TLC

Symmetry == Permutations(Deks) \cup Permutations(Passwords)

\* locales/en.json:10-11, the screen shown: "Unlock your local financial space", "App Lock
\* is enabled. The password is used only on this device to unwrap the workspace key."
\* Some password opens the workspace for which the screen asks for one.
LockedScreenOpens ==
    screen = "locked" => \E s \in Spaces, password \in Passwords : Opens(s, password)

\* locales/en.json:32, shown when a restore has succeeded: "A new space was restored ...;
\* restart to switch to it."  A restart then opens the new workspace.
RestartSwitches ==
    [][\A from \in Origins :
          restore[from].stage = "key" /\ restore'[from] = Idle /\ screen' # "off" =>
             \E s \in {restore[from].space} : Opens(s, None)']_vars

=============================================================================
