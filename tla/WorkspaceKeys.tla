--------------------------- MODULE WorkspaceKeys ---------------------------
(***************************************************************************)
(* Where the key of a workspace is kept, and how the app gets at it:       *)
(*                                                                         *)
(*   apps/desktop/src/main/workspace/local-workspace.ts   (open, app lock) *)
(*   apps/desktop/src/main/workspace/workspace-session.ts (the session)    *)
(*   packages/storage/src/keys/app-lock.ts                (enableAppLock)  *)
(*   packages/storage/src/workspace/app-lock-state-store.ts, layout.ts     *)
(*   packages/storage/src/backup/backup-service.ts        (restore)        *)
(*                                                                         *)
(* A workspace's key is either in workspace-key.json, which any start can  *)
(* read, or wrapped under a password in the workspace's manifest.  App     *)
(* lock moves it from one to the other in steps that a crash may separate; *)
(* a restore makes a new workspace and puts its key in the same file.      *)
(* Manifests are replaced by a rename; the key file is written in place,   *)
(* so a crash or a full disk can leave it torn.                            *)
(***************************************************************************)
EXTENDS Integers, FiniteSets

CONSTANTS
    Spaces,     \* workspace ids, as numbers in the order readdir lists them
    Deks,       \* data encryption keys (randomBytes)
    Passwords,  \* app lock passwords the user may type
    Absent,     \* a key file that is not there
    Torn,       \* a key file whose writing was cut short
    None        \* no key, no password, no open workspace

ASSUME SpacesAssumption == Spaces \subseteq Nat
ASSUME NoneAssumption ==
    /\ None \notin Deks \cup Passwords
    /\ None \notin [space : Spaces, dek : Deks]
ASSUME KeyFileAssumption ==
    /\ Absent # Torn
    /\ {Absent, Torn} \cap [space : Spaces, dek : Deks] = {}

VARIABLES
    keyFile,   \* workspace-key.json: absent, torn, or a workspace and its key
    manifest,  \* manifest.json of every workspace directory that has one
    database,  \* the key each workspace.db is encrypted with
    screen,    \* what the process shows: off while none runs
    open,      \* the session's composition: the workspace it has open, with the key
    lock,      \* the running enable or disable call
    restore,   \* the running restores, by the screen they were begun on
    owned,     \* history: the workspaces, with their keys, that were ever open
    restored   \* history: the workspaces whose key a restore has begun to write

vars == <<keyFile, manifest, database, screen, open, lock, restore, owned, restored>>

disk == <<keyFile, manifest, database>>

Held == [space : Spaces, dek : Deks]

Manifest == [state : {"disabled", "pending", "enabled"},
             dek : Deks \cup {None}, password : Passwords \cup {None}]

Disabled == [state |-> "disabled", dek |-> None, password |-> None]

Idle == [stage |-> "idle"]

\* The first screen (WorkspaceGate) and the settings, each with a busy flag of its own
Origins == {"gate", "settings"}

NoRestore == [from \in Origins |-> Idle]
Restoring(from) == restore[from] # Idle

Put(f, x, y) == [z \in DOMAIN f \cup {x} |-> IF z = x THEN y ELSE f[z]]
Drop(f, x) == [z \in DOMAIN f \ {x} |-> f[z]]

-----------------------------------------------------------------------------
(* Opening a workspace *)

Directories == DOMAIN manifest

\* A bug to check against: a lock that was never activated does not count.
LocatedUnlessPending(s) ==
    LET settled == {t \in Directories : manifest[t].state # "pending"}
    IN  s \in settled /\ \A t \in settled : s <= t

\* locateManifest: the first directory with a manifest
Located(s) == s \in Directories /\ \A t \in Directories : s <= t

NothingLocated == \A s \in Spaces : ~Located(s)

\* The key file, if there is one, is for the located workspace.
Chosen(s) == Located(s) /\ keyFile # Torn /\ (keyFile # Absent => keyFile.space = s)

\* A key wrapped under a password opens with that password only.
wrapWorkspaceDek(dek, password) == [state |-> "pending", dek |-> dek, password |-> password]
unwrapWorkspaceDek(wrapped, password) ==
    IF password = wrapped.password THEN wrapped.dek ELSE None

\* The key with which openLocalWorkspace opens s, given a password or none
KeyFileFirst(s, password) ==
    IF keyFile \in Held THEN keyFile.dek
    ELSE IF manifest[s].state = "enabled" /\ password = manifest[s].password
    THEN manifest[s].dek ELSE None

Key(s, password) ==
    IF manifest[s].state = "disabled"
    THEN IF keyFile \in Held THEN keyFile.dek ELSE None
    ELSE IF manifest[s].state = "enabled" THEN unwrapWorkspaceDek(manifest[s], password)
    ELSE None

\* SQLCipher opens a database with its own key, or makes one that is not there.
Fits(s, dek) == s \in DOMAIN database => database[s] = dek

\* openLocalWorkspace succeeds for s with this password.
Opens(s, password) ==
    Chosen(s) /\ Key(s, password) # None /\ Fits(s, Key(s, password))

OpenWith(s, password) ==
    /\ Opens(s, password)
    /\ database' = Put(database, s, Key(s, password))
    /\ open' = [space |-> s, dek |-> Key(s, password)]
    /\ owned' = owned \cup {open'}
    /\ screen' = "ready"
    /\ UNCHANGED <<keyFile, manifest, lock, restore, restored>>

\* initialize() with the workspace that is there
Start(s) == screen = "off" /\ OpenWith(s, None)

\* initialize() meets a lock, or a missing key: inspectLocalWorkspace names the screen.
\* Every other error ends the process, and leaves the disk as it was.
StartLocked(s) ==
    /\ screen = "off" /\ Chosen(s)
    /\ \/ manifest[s].state # "disabled" /\ screen' = "locked"
       \/ manifest[s].state = "disabled" /\ keyFile = Absent /\ screen' = "recovery"
    /\ UNCHANGED <<disk, open, lock, restore, owned, restored>>

\* randomBytes and randomUUID do not repeat what is on the disk or was open.
FreshSpace(s) ==
    /\ s \notin Directories \cup DOMAIN database \cup {o.space : o \in owned}
    /\ keyFile \in Held => keyFile.space # s
FreshDek(dek) ==
    /\ \A t \in Directories : manifest[t].dek # dek
    /\ \A t \in DOMAIN database : database[t] # dek
    /\ \A o \in owned : o.dek # dek
    /\ keyFile \in Held => keyFile.dek # dek

\* The first start: a new key is written, then the layout with its manifest.
FirstStart == screen = "off" /\ keyFile = Absent /\ NothingLocated

CreateKey(s, dek) ==
    /\ FirstStart
    /\ FreshSpace(s) /\ FreshDek(dek)
    /\ screen' = "starting"
    /\ keyFile' = [space |-> s, dek |-> dek]
    /\ UNCHANGED <<manifest, database, open, lock, restore, owned, restored>>

CreateKeyTears ==
    /\ FirstStart
    /\ keyFile' = Torn
    /\ UNCHANGED <<manifest, database, screen, open, lock, restore, owned, restored>>

CreateLayout ==
    /\ screen \in {"off", "starting"}
    /\ keyFile \in Held /\ NothingLocated
    /\ screen' = "starting"
    /\ manifest' = Put(manifest, keyFile.space, Disabled)
    /\ UNCHANGED <<keyFile, database, open, lock, restore, owned, restored>>

CreateDatabase(s) == screen = "starting" /\ OpenWith(s, None)

\* unlock(): openLocalWorkspace again, with what the user typed.
Unlock(s, password) == screen = "locked" /\ OpenWith(s, password)

-----------------------------------------------------------------------------
(* App lock *)

\* The settings of an open workspace: securityBusy lets one of their calls run.
SettingsFree == screen = "ready" /\ lock = Idle /\ ~Restoring("settings")

\* The first screen: backupBusy lets one restore run, which goes on when the workspace is
\* unlocked meanwhile.
GateFree == screen \in {"locked", "recovery"} /\ ~Restoring("gate")

\* enableLocalWorkspaceAppLock reads the key file and derives a key from the password ...
EnableLock(password) ==
    /\ SettingsFree
    /\ keyFile \in Held
    /\ lock' = [stage |-> "derive", dek |-> keyFile.dek, password |-> password]
    /\ UNCHANGED <<disk, screen, open, restore, owned, restored>>

\* ... under which the key is wrapped and stored as pending.
WritePending ==
    /\ lock.stage = "derive"
    /\ open.space \in Directories
    /\ manifest' = [manifest EXCEPT ![open.space] = wrapWorkspaceDek(lock.dek, lock.password)]
    /\ lock' = [lock EXCEPT !.stage = "delete"]
    /\ UNCHANGED <<keyFile, database, screen, open, restore, owned, restored>>

\* The stored key is read back, unwrapped and compared; then the key file goes.
DeleteKeyFile ==
    /\ lock.stage = "delete"
    /\ open.space \in Directories
    /\ manifest[open.space].state = "pending"
    /\ unwrapWorkspaceDek(manifest[open.space], lock.password) = lock.dek
    /\ keyFile' = Absent
    /\ lock' = [stage |-> "activate"]
    /\ UNCHANGED <<manifest, database, screen, open, restore, owned, restored>>

\* The slot is gone and the lock still pending: the lock is enabled.
ActivateLock ==
    /\ lock.stage = "activate"
    /\ keyFile = Absent
    /\ open.space \in Directories
    /\ manifest[open.space].state = "pending"
    /\ manifest' = [manifest EXCEPT ![open.space].state = "enabled"]
    /\ lock' = Idle
    /\ UNCHANGED <<keyFile, database, screen, open, restore, owned, restored>>

\* disableLocalWorkspaceAppLock: the key goes back to the key file ...
DisableLock(password) ==
    /\ SettingsFree
    /\ open.space \in Directories
    /\ manifest[open.space].state = "enabled"
    /\ manifest[open.space].password = password
    /\ keyFile' = [space |-> open.space, dek |-> manifest[open.space].dek]
    /\ lock' = [stage |-> "unlocked"]
    /\ UNCHANGED <<manifest, database, screen, open, restore, owned, restored>>

\* ... which is written in place.
DisableLockTears(password) ==
    /\ SettingsFree
    /\ open.space \in Directories
    /\ manifest[open.space].state = "enabled"
    /\ manifest[open.space].password = password
    /\ keyFile' = Torn
    /\ UNCHANGED <<manifest, database, screen, open, lock, restore, owned, restored>>

\* ... and the manifest forgets it.
ForgetWrapped ==
    /\ lock.stage = "unlocked"
    /\ open.space \in Directories
    /\ manifest' = [manifest EXCEPT ![open.space] = Disabled]
    /\ lock' = Idle
    /\ UNCHANGED <<keyFile, database, screen, open, restore, owned, restored>>

\* A bug to check against: a call that fails puts the manifest back to disabled.
RollBackManifest ==
    /\ lock # Idle
    /\ lock' = Idle
    /\ manifest' = [manifest EXCEPT ![open.space] = Disabled]
    /\ UNCHANGED <<keyFile, database, screen, open, restore, owned, restored>>

\* A file operation fails, or a check does: the call rejects where it stands.
LockFails ==
    /\ lock # Idle
    /\ lock' = Idle
    /\ UNCHANGED <<disk, screen, open, restore, owned, restored>>

-----------------------------------------------------------------------------
(* Restoring a backup to a new workspace *)

\* The layout of a new workspace
BeginRestore(from, s) ==
    /\ \/ from = "settings" /\ SettingsFree
       \/ from = "gate" /\ GateFree
    /\ FreshSpace(s)
    /\ manifest' = Put(manifest, s, Disabled)
    /\ restore' = [restore EXCEPT ![from] = [stage |-> "database", space |-> s]]
    /\ UNCHANGED <<keyFile, database, screen, open, lock, owned, restored>>

\* The entries are written and the database rekeyed and verified.  Until then it fits no
\* key of the disk, and nothing opens it: the key file does not name it.
RestoreDatabase(from, dek) ==
    /\ restore[from].stage = "database"
    /\ FreshDek(dek)
    /\ database' = Put(database, restore[from].space, dek)
    /\ restore' = [restore EXCEPT ![from] = [stage |-> "key", space |-> @.space, dek |-> dek]]
    /\ UNCHANGED <<keyFile, manifest, screen, open, lock, owned, restored>>

RestoredKey(from) == [space |-> restore[from].space, dek |-> restore[from].dek]

\* putWorkspaceSecret overwrites the key file.
RestoreKey(from) ==
    /\ restore[from].stage = "key"
    /\ keyFile' = RestoredKey(from)
    /\ restored' = restored \cup {restore[from].space}
    /\ restore' = [restore EXCEPT ![from] = Idle]
    /\ UNCHANGED <<manifest, database, screen, open, lock, owned>>

Removing(from) ==
    restore' = [restore EXCEPT ![from] = [stage |-> "remove", space |-> @.space]]

\* It fails before, in, or after the write.
RestoreKeyFails(from) ==
    /\ restore[from].stage = "key"
    /\ keyFile' \in {keyFile, Torn, RestoredKey(from)}
    /\ restored' = restored \cup {restore[from].space}
    /\ Removing(from)
    /\ UNCHANGED <<manifest, database, screen, open, lock, owned>>

RestoreFails(from) ==
    /\ restore[from].stage = "database"
    /\ Removing(from)
    /\ UNCHANGED <<disk, screen, open, lock, owned, restored>>

\* The catch removes the target; that it cannot is ignored.
RemoveTarget(from) ==
    /\ restore[from].stage = "remove"
    /\ restore' = [restore EXCEPT ![from] = Idle]
    /\ \/ /\ manifest' = Drop(manifest, restore[from].space)
          /\ database' = Drop(database, restore[from].space)
       \/ UNCHANGED <<manifest, database>>
    /\ UNCHANGED <<keyFile, screen, open, lock, owned, restored>>

-----------------------------------------------------------------------------

\* The process ends, or dies, wherever its calls stand.
Crash ==
    /\ screen # "off"
    /\ screen' = "off" /\ open' = None /\ lock' = Idle /\ restore' = NoRestore
    /\ UNCHANGED <<disk, owned, restored>>

Init ==
    /\ keyFile = Absent
    /\ manifest = [s \in {} |-> Disabled]
    /\ database = [s \in {} |-> None]
    /\ screen = "off" /\ open = None
    /\ lock = Idle /\ restore = NoRestore
    /\ owned = {} /\ restored = {}

Next ==
    \/ \E s \in Spaces : Start(s) \/ StartLocked(s) \/ CreateDatabase(s)
    \/ \E s \in Spaces, dek \in Deks : CreateKey(s, dek)
    \/ CreateKeyTears \/ CreateLayout
    \/ \E s \in Spaces, password \in Passwords : Unlock(s, password)
    \/ \E password \in Passwords :
          EnableLock(password) \/ DisableLock(password) \/ DisableLockTears(password)
    \/ WritePending \/ DeleteKeyFile \/ ActivateLock \/ ForgetWrapped \/ LockFails
    \/ \E from \in Origins :
          \/ \E s \in Spaces : BeginRestore(from, s)
          \/ \E dek \in Deks : RestoreDatabase(from, dek)
          \/ RestoreKey(from) \/ RestoreKeyFails(from) \/ RestoreFails(from)
          \/ RemoveTarget(from)
    \/ Crash

Spec == Init /\ [][Next]_vars

-----------------------------------------------------------------------------
(* Properties *)

\* Every variable has its type; a manifest has a wrapped key exactly when it is not
\* disabled, and a workspace is open exactly when the screen is ready.
TypeOK ==
    /\ keyFile \in Held \cup {Absent, Torn}
    /\ manifest \in [Directories -> Manifest] /\ Directories \subseteq Spaces
    /\ \A s \in Directories : manifest[s].state = "disabled" <=> manifest[s] = Disabled
    /\ \A s \in Directories : (manifest[s].dek = None) <=> (manifest[s].password = None)
    /\ database \in [DOMAIN database -> Deks] /\ DOMAIN database \subseteq Spaces
    /\ screen \in {"off", "starting", "locked", "recovery", "ready"}
    /\ open \in Held \cup {None}
    /\ screen = "ready" <=> open # None
    /\ lock.stage \in {"idle", "derive", "delete", "activate", "unlocked"}
    /\ DOMAIN restore = Origins
    /\ \A from \in Origins : restore[from].stage \in {"idle", "database", "key", "remove"}
    /\ owned \subseteq Held /\ restored \subseteq Spaces

\* The key of o can be had from the disk by its user.
Recoverable(o) ==
    \/ keyFile = o
    \/ o.space \in Directories /\ manifest[o.space].dek = o.dek

\* Enabling and disabling app lock, at whatever step a call fails or the process dies,
\* never loses the key of a workspace that was open: until a restore writes to the key
\* file, the key is in it or wrapped in the workspace's manifest.
KeysKept == restored = {} => \A o \in owned : Recoverable(o)

\* local-workspace.ts:90, "never silently create a second workspace": a start that finds
\* no key, because app lock or a crash in it has removed it, does not begin a new one.
NoSecondSpace == restored = {} => \A o, p \in owned : o = p

\* A start without a password opens no workspace whose manifest has a lock, though a
\* crash in disabling it, or a failed enabling, has left the key in the key file.
LockAsked ==
    [][open' # open /\ open' # None /\ screen # "locked" =>
         manifest[(open.space)'].state = "disabled"]_vars

-----------------------------------------------------------------------------
(* The inductive invariant *)

RestoreCall ==
    {Idle} \cup [stage : {"database", "remove"}, space : Spaces]
           \cup [stage : {"key"}, space : Spaces, dek : Deks]

\* A running call has its fields, and the screen it was begun on or the next one.
CallsTyped ==
    /\ \/ lock = Idle
       \/ /\ screen = "ready"
          /\ \/ lock \in [stage : {"derive", "delete"}, dek : Deks, password : Passwords]
             \/ lock \in [stage : {"activate", "unlocked"}]
    /\ restore \in [Origins -> RestoreCall]
    /\ \A from \in Origins : Restoring(from) => screen \in {"locked", "recovery", "ready"}

\* s is a new workspace, which is not open, was not, and has no key yet.
Apart(s) ==
    /\ s \in Directories /\ manifest[s] = Disabled
    /\ \A o \in owned : o.space # s
    /\ keyFile \in Held => keyFile.space # s

\* What a restore makes is apart from what was there, and from what the other one makes.
RestoresApart ==
    /\ \A from \in Origins : Restoring(from) => Apart(restore[from].space)
    /\ \A from, to \in Origins :
          Restoring(from) /\ Restoring(to) /\ restore[from].space = restore[to].space =>
              from = to

\* The key that is about, in the key file, in a manifest or in a call, is the one the
\* workspace was opened with; what a restore makes stays apart from it.
KeysSound ==
    /\ open # None => open \in owned
    /\ keyFile \in Held /\ owned # {} => keyFile \in owned
    /\ \A s \in Directories : manifest[s].dek # None =>
          [space |-> s, dek |-> manifest[s].dek] \in owned
    /\ lock.stage \in {"derive", "delete"} => lock.dek = open.dek
    /\ lock.stage = "unlocked" => keyFile = open
    /\ RestoresApart

\* What the proofs need beside the properties: where the one key may be, until a restore
\* writes another.
IInv ==
    /\ TypeOK /\ CallsTyped /\ KeysKept /\ NoSecondSpace
    /\ restored = {} => KeysSound

=============================================================================
