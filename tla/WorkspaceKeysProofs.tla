------------------------ MODULE WorkspaceKeysProofs ------------------------
(***************************************************************************)
(* Proofs about the keys of workspaces: the inductive invariant IInv, and  *)
(* from it the invariants of WorkspaceKeys, for every number of            *)
(* workspaces, keys and passwords.                                         *)
(***************************************************************************)
EXTENDS WorkspaceKeys, TLAPS, WellFoundedInduction, FiniteSetTheorems

\* What each variable may be, and a running call with it
Typed == TypeOK /\ CallsTyped

\* An open workspace is not the absence of one.
LEMMA HeldIsSome == \A o \in Held : o # None /\ o # Absent /\ o # Torn
    BY NoneAssumption, KeyFileAssumption DEF Held

-----------------------------------------------------------------------------
(* Types *)

\* A workspace whose manifest is replaced keeps the others.
LEMMA PutManifest ==
    ASSUME Typed, NEW s \in Spaces, NEW m \in Manifest,
           m.state = "disabled" <=> m = Disabled,
           m.dek = None <=> m.password = None,
           \/ manifest' = Put(manifest, s, m)
           \/ s \in Directories /\ manifest' = [manifest EXCEPT ![s] = m]
    PROVE  /\ Directories' = Directories \cup {s}
           /\ manifest'[s] = m /\ \A t \in Directories \ {s} : manifest'[t] = manifest[t]
           /\ manifest' \in [Directories' -> Manifest] /\ Directories' \subseteq Spaces
           /\ \A t \in Directories' :
                  manifest'[t].state = "disabled" <=> manifest'[t] = Disabled
           /\ \A t \in Directories' :
                  (manifest'[t].dek = None) <=> (manifest'[t].password = None)
<1>1. /\ Directories' = Directories \cup {s}
      /\ manifest'[s] = m /\ \A t \in Directories \ {s} : manifest'[t] = manifest[t]
    BY DEF Typed, TypeOK, Directories, Put
<1>2. manifest \in [Directories -> Manifest] /\ Directories \subseteq Spaces
    BY DEF Typed, TypeOK
<1>3. manifest' \in [Directories' -> Manifest]
    BY <1>2 DEF Directories, Put
<1>4. Directories' \subseteq Spaces
    BY <1>1, <1>2
<1>5. \A t \in Directories' : manifest'[t].state = "disabled" <=> manifest'[t] = Disabled
    BY <1>1 DEF Typed, TypeOK
<1>6. \A t \in Directories' : (manifest'[t].dek = None) <=> (manifest'[t].password = None)
    BY <1>1 DEF Typed, TypeOK
<1> QED BY <1>1, <1>3, <1>4, <1>5, <1>6

\* The key with which a workspace is opened is a key.
LEMMA KeyTyped ==
    ASSUME Typed, NEW s \in Spaces, NEW password, Opens(s, password)
    PROVE  /\ s \in Directories /\ Key(s, password) \in Deks
           /\ [space |-> s, dek |-> Key(s, password)] \in Held
<1>1. s \in Directories /\ manifest[s] \in Manifest
    BY DEF Opens, Chosen, Located, Typed, TypeOK
<1>2. Key(s, password) \in Deks
    BY <1>1 DEF Opens, Key, unwrapWorkspaceDek, Held, Manifest, Typed, TypeOK
<1> QED BY <1>1, <1>2 DEF Held

\* Opening a workspace keeps the types.
LEMMA OpenTyped ==
    ASSUME Typed, NEW s \in Spaces, NEW password, OpenWith(s, password), screen # "ready"
    PROVE  Typed'
<1>1. Key(s, password) \in Deks /\ [space |-> s, dek |-> Key(s, password)] \in Held
    BY KeyTyped DEF OpenWith
<1>2. open' \in Held /\ open' # None
    BY <1>1, HeldIsSome DEF OpenWith
<1>3. database' \in [DOMAIN database' -> Deks] /\ DOMAIN database' \subseteq Spaces
    BY <1>1 DEF OpenWith, Put, Typed, TypeOK
<1>4. lock = Idle /\ lock' = lock /\ restore' = restore
    BY DEF OpenWith, Typed, CallsTyped
<1>5. TypeOK'
    BY <1>2, <1>3 DEF OpenWith, Typed, TypeOK, Directories
<1>6. CallsTyped'
    BY <1>4 DEF OpenWith, Typed, CallsTyped, Restoring
<1> QED BY <1>5, <1>6 DEF Typed

\* The first start keeps the types.
LEMMA FirstTyped ==
    ASSUME Typed,
           \/ \E s \in Spaces : StartLocked(s)
           \/ \E s \in Spaces, dek \in Deks : CreateKey(s, dek)
           \/ CreateKeyTears \/ CreateLayout
    PROVE  Typed'
<1>1. CASE \E s \in Spaces : StartLocked(s)
    BY <1>1 DEF StartLocked, disk, Typed, TypeOK, CallsTyped, Restoring, Directories
<1>2. CASE \E s \in Spaces, dek \in Deks : CreateKey(s, dek)
    BY <1>2 DEF CreateKey, FirstStart, Typed, TypeOK, CallsTyped, Restoring, Directories, Held
<1>3. CASE CreateKeyTears
    BY <1>3 DEF CreateKeyTears, Typed, TypeOK, CallsTyped, Restoring, Directories
<1>4. CASE CreateLayout
    <2>1. /\ keyFile.space \in Spaces /\ Disabled \in Manifest
          /\ Disabled.dek = None /\ Disabled.password = None
        BY <1>4 DEF CreateLayout, Held, Disabled, Manifest
    <2>2. /\ manifest' \in [Directories' -> Manifest] /\ Directories' \subseteq Spaces
          /\ \A t \in Directories' :
                 manifest'[t].state = "disabled" <=> manifest'[t] = Disabled
          /\ \A t \in Directories' :
                 (manifest'[t].dek = None) <=> (manifest'[t].password = None)
        BY <1>4, <2>1, PutManifest DEF CreateLayout, Disabled
    <2>3. TypeOK'
        BY <1>4, <2>2 DEF CreateLayout, Typed, TypeOK
    <2>4. CallsTyped'
        BY <1>4 DEF CreateLayout, Typed, CallsTyped, Restoring
    <2> QED BY <2>3, <2>4 DEF Typed
<1> QED BY <1>1, <1>2, <1>3, <1>4

\* App lock keeps the types.
LEMMA LockTyped ==
    ASSUME Typed,
           \/ \E password \in Passwords :
                 EnableLock(password) \/ DisableLock(password) \/ DisableLockTears(password)
           \/ WritePending \/ DeleteKeyFile \/ ActivateLock \/ ForgetWrapped \/ LockFails
    PROVE  Typed'
<1>1. CASE \E password \in Passwords : EnableLock(password)
    BY <1>1 DEF EnableLock, SettingsFree, disk, Typed, TypeOK, CallsTyped, Restoring, Directories, Held
<1>2. CASE \E password \in Passwords : DisableLock(password)
    <2>1. PICK password \in Passwords : DisableLock(password)
        BY <1>2
    <2>2. manifest[open.space] \in Manifest /\ open.space \in Spaces
        BY <2>1 DEF DisableLock, Typed, TypeOK
    <2>3. manifest[open.space].dek # None
        BY <2>1, NoneAssumption DEF DisableLock, Typed, TypeOK
    <2>4. keyFile' \in Held
        BY <2>1, <2>2, <2>3 DEF DisableLock, Manifest, Held
    <2> QED BY <2>1, <2>4 DEF DisableLock, SettingsFree, Typed, TypeOK, CallsTyped, Restoring, Directories
<1>3. CASE \E password \in Passwords : DisableLockTears(password)
    BY <1>3 DEF DisableLockTears, Typed, TypeOK, CallsTyped, Restoring, Directories
<1>4. CASE WritePending
    <2> DEFINE m == [state |-> "pending", dek |-> lock.dek, password |-> lock.password]
    <2>1. /\ screen = "ready"
          /\ lock \in [stage : {"derive", "delete"}, dek : Deks, password : Passwords]
        BY <1>4 DEF WritePending, wrapWorkspaceDek, Typed, CallsTyped, Idle
    <2>2. /\ m \in Manifest /\ m # Disabled /\ m.dek # None
          /\ m.password # None /\ m.state = "pending"
        BY <2>1, NoneAssumption DEF Manifest, Disabled
    <2>3. /\ open.space \in Directories /\ open.space \in Spaces
          /\ manifest' = [manifest EXCEPT ![open.space] = m]
        BY <1>4 DEF WritePending, wrapWorkspaceDek, Typed, TypeOK
    <2> HIDE DEF m
    <2>4. /\ manifest' \in [Directories' -> Manifest] /\ Directories' \subseteq Spaces
          /\ \A t \in Directories' :
                 manifest'[t].state = "disabled" <=> manifest'[t] = Disabled
          /\ \A t \in Directories' :
                 (manifest'[t].dek = None) <=> (manifest'[t].password = None)
        BY <2>2, <2>3, PutManifest
    <2>5. lock' \in [stage : {"derive", "delete"}, dek : Deks, password : Passwords]
        BY <1>4, <2>1 DEF WritePending, wrapWorkspaceDek
    <2>6. TypeOK'
        BY <1>4, <2>4, <2>5 DEF WritePending, wrapWorkspaceDek, Typed, TypeOK
    <2>7. CallsTyped'
        BY <1>4, <2>1, <2>5 DEF WritePending, wrapWorkspaceDek, Typed, CallsTyped, Restoring
    <2> QED BY <2>6, <2>7 DEF Typed
<1>5. CASE DeleteKeyFile
    BY <1>5 DEF DeleteKeyFile, Typed, TypeOK, CallsTyped, Restoring, Directories, Idle
<1>6. CASE ActivateLock
    <2> DEFINE m == [manifest[open.space] EXCEPT !.state = "enabled"]
    <2>1. /\ open.space \in Directories /\ open.space \in Spaces
          /\ manifest \in [Directories -> Manifest] /\ manifest[open.space] \in Manifest
        BY <1>6 DEF ActivateLock, Typed, TypeOK
    <2>2. /\ m \in Manifest /\ m.state = "enabled" /\ m # Disabled
          /\ m.dek = manifest[open.space].dek /\ m.password = manifest[open.space].password
        BY <2>1 DEF Manifest, Disabled
    <2>3. manifest' = [manifest EXCEPT ![open.space] = m]
        BY <1>6, <2>1 DEF ActivateLock
    <2> HIDE DEF m
    <2>4. m.dek = None <=> m.password = None
        BY <2>1, <2>2 DEF Typed, TypeOK
    <2>5. /\ manifest' \in [Directories' -> Manifest] /\ Directories' \subseteq Spaces
          /\ \A t \in Directories' :
                 manifest'[t].state = "disabled" <=> manifest'[t] = Disabled
          /\ \A t \in Directories' :
                 (manifest'[t].dek = None) <=> (manifest'[t].password = None)
        BY <2>1, <2>2, <2>3, <2>4, PutManifest
    <2>6. TypeOK'
        BY <1>6, <2>5 DEF ActivateLock, Typed, TypeOK, Idle
    <2>7. CallsTyped'
        BY <1>6 DEF ActivateLock, Typed, CallsTyped, Restoring
    <2> QED BY <2>6, <2>7 DEF Typed
<1>7. CASE ForgetWrapped
    <2>1. /\ open.space \in Directories /\ open.space \in Spaces
          /\ manifest' = [manifest EXCEPT ![open.space] = Disabled]
        BY <1>7 DEF ForgetWrapped, Typed, TypeOK
    <2>2. /\ Disabled \in Manifest /\ Disabled.state = "disabled"
          /\ Disabled.dek = None /\ Disabled.password = None
        BY DEF Disabled, Manifest
    <2>3. /\ manifest' \in [Directories' -> Manifest] /\ Directories' \subseteq Spaces
          /\ \A t \in Directories' :
                 manifest'[t].state = "disabled" <=> manifest'[t] = Disabled
          /\ \A t \in Directories' :
                 (manifest'[t].dek = None) <=> (manifest'[t].password = None)
        BY <2>1, <2>2, PutManifest
    <2>4. TypeOK'
        BY <1>7, <2>3 DEF ForgetWrapped, Typed, TypeOK, Idle
    <2>5. CallsTyped'
        BY <1>7 DEF ForgetWrapped, Typed, CallsTyped, Restoring
    <2> QED BY <2>4, <2>5 DEF Typed
<1>8. CASE LockFails
    BY <1>8 DEF LockFails, disk, Typed, TypeOK, CallsTyped, Restoring, Directories, Idle
<1> QED BY <1>1, <1>2, <1>3, <1>4, <1>5, <1>6, <1>7, <1>8

\* A running restore has the fields of its stage.
LEMMA RestoreFields ==
    ASSUME Typed, NEW from \in Origins
    PROVE  /\ Restoring(from) => restore[from].space \in Spaces
           /\ Restoring(from) => screen \in {"locked", "recovery", "ready"}
           /\ restore[from].stage = "key" => restore[from].dek \in Deks
           /\ restore[from].stage # "idle" => Restoring(from)
<1>1. restore[from] \in RestoreCall
    BY DEF Typed, CallsTyped
<1>2. restore[from].stage = "key" => restore[from].dek \in Deks
    BY <1>1 DEF RestoreCall, Idle
<1>3. restore[from].stage # "idle" => Restoring(from)
    BY DEF Restoring, Idle
<1>4. Restoring(from) => restore[from].space \in Spaces
    BY <1>1 DEF RestoreCall, Restoring
<1>5. Restoring(from) => screen \in {"locked", "recovery", "ready"}
    BY DEF Typed, CallsTyped
<1> QED BY <1>2, <1>3, <1>4, <1>5

\* A restore that goes on, or ends, keeps the types of the calls.
LEMMA RestoreCallTyped ==
    ASSUME Typed, NEW from \in Origins, NEW call \in RestoreCall,
           call # Idle => screen \in {"locked", "recovery", "ready"},
           restore' = [restore EXCEPT ![from] = call], UNCHANGED <<screen, lock>>
    PROVE  /\ CallsTyped' /\ DOMAIN restore' = Origins
           /\ \A to \in Origins :
                  restore'[to].stage \in {"idle", "database", "key", "remove"}
<1>1. restore' \in [Origins -> RestoreCall]
    BY DEF Typed, CallsTyped
<1>2. \A c \in RestoreCall : c.stage \in {"idle", "database", "key", "remove"}
    BY DEF RestoreCall, Idle
<1>3. ASSUME NEW to \in Origins, Restoring(to)'
      PROVE  screen \in {"locked", "recovery", "ready"}
    BY <1>3 DEF Typed, CallsTyped, Restoring
<1>4. CallsTyped'
    BY <1>1, <1>3 DEF Typed, CallsTyped
<1> QED BY <1>1, <1>2, <1>4

\* Restoring, and a crash, keep the types.
LEMMA RestoreTyped ==
    ASSUME Typed,
           \/ \E from \in Origins :
                 \/ \E s \in Spaces : BeginRestore(from, s)
                 \/ \E dek \in Deks : RestoreDatabase(from, dek)
                 \/ RestoreKey(from) \/ RestoreKeyFails(from) \/ RestoreFails(from)
                 \/ RemoveTarget(from)
           \/ Crash
    PROVE  Typed'
<1>1. ASSUME NEW from \in Origins, NEW s \in Spaces, BeginRestore(from, s) PROVE Typed'
    <2> DEFINE call == [stage |-> "database", space |-> s]
    <2>1. /\ Disabled \in Manifest /\ Disabled.state = "disabled"
          /\ Disabled.dek = None /\ Disabled.password = None
        BY DEF Disabled, Manifest
    <2>2. /\ manifest' \in [Directories' -> Manifest] /\ Directories' \subseteq Spaces
          /\ \A t \in Directories' :
                 manifest'[t].state = "disabled" <=> manifest'[t] = Disabled
          /\ \A t \in Directories' :
                 (manifest'[t].dek = None) <=> (manifest'[t].password = None)
        BY <1>1, <2>1, PutManifest DEF BeginRestore
    <2>3. /\ call \in RestoreCall /\ restore' = [restore EXCEPT ![from] = call]
          /\ screen \in {"locked", "recovery", "ready"} /\ UNCHANGED <<screen, lock>>
        BY <1>1 DEF BeginRestore, SettingsFree, GateFree, RestoreCall
    <2>4. /\ CallsTyped' /\ DOMAIN restore' = Origins
          /\ \A to \in Origins :
                 restore'[to].stage \in {"idle", "database", "key", "remove"}
        BY <2>3, RestoreCallTyped
    <2>5. TypeOK'
        BY <1>1, <2>2, <2>4 DEF BeginRestore, Typed, TypeOK
    <2> QED BY <2>4, <2>5 DEF Typed
<1>2. ASSUME NEW from \in Origins, NEW dek \in Deks, RestoreDatabase(from, dek)
      PROVE  Typed'
    <2> DEFINE call == [stage |-> "key", space |-> restore[from].space, dek |-> dek]
    <2>1. restore[from].space \in Spaces /\ screen \in {"locked", "recovery", "ready"}
        BY <1>2, RestoreFields DEF RestoreDatabase
    <2>2. database' \in [DOMAIN database' -> Deks] /\ DOMAIN database' \subseteq Spaces
        BY <1>2, <2>1 DEF RestoreDatabase, Put, Typed, TypeOK
    <2>3. call \in RestoreCall /\ restore' = [restore EXCEPT ![from] = call]
        BY <1>2, <2>1 DEF RestoreDatabase, RestoreCall, Typed, CallsTyped
    <2>4. /\ CallsTyped' /\ DOMAIN restore' = Origins
          /\ \A to \in Origins :
                 restore'[to].stage \in {"idle", "database", "key", "remove"}
        BY <1>2, <2>1, <2>3, RestoreCallTyped DEF RestoreDatabase
    <2>5. TypeOK'
        BY <1>2, <2>2, <2>4 DEF RestoreDatabase, Typed, TypeOK, Directories
    <2> QED BY <2>4, <2>5 DEF Typed
<1>3. ASSUME NEW from \in Origins, RestoreKey(from) \/ RestoreKeyFails(from) PROVE Typed'
    <2>1. /\ restore[from].space \in Spaces /\ restore[from].dek \in Deks
          /\ screen \in {"locked", "recovery", "ready"}
        BY <1>3, RestoreFields DEF RestoreKey, RestoreKeyFails
    <2>2. RestoredKey(from) \in Held
        BY <2>1 DEF RestoredKey, Held
    <2>3. PICK call \in RestoreCall : restore' = [restore EXCEPT ![from] = call]
        <3>1. Idle \in RestoreCall
              /\ [stage |-> "remove", space |-> restore[from].space] \in RestoreCall
            BY <2>1 DEF RestoreCall
        <3> QED BY <1>3, <3>1 DEF RestoreKey, RestoreKeyFails, Removing, Typed, CallsTyped
    <2>4. keyFile' \in Held \cup {Absent, Torn} /\ restored' \subseteq Spaces
        BY <1>3, <2>1, <2>2 DEF RestoreKey, RestoreKeyFails, Typed, TypeOK
    <2>5. UNCHANGED <<manifest, database, screen, open, lock, owned>>
        BY <1>3 DEF RestoreKey, RestoreKeyFails
    <2>6. /\ CallsTyped' /\ DOMAIN restore' = Origins
          /\ \A to \in Origins :
                 restore'[to].stage \in {"idle", "database", "key", "remove"}
        BY <2>1, <2>3, <2>5, RestoreCallTyped
    <2>7. TypeOK'
        BY <2>4, <2>5, <2>6 DEF Typed, TypeOK, Directories
    <2> QED BY <2>6, <2>7 DEF Typed
<1>4. ASSUME NEW from \in Origins, RestoreFails(from) PROVE Typed'
    <2> DEFINE call == [stage |-> "remove", space |-> restore[from].space]
    <2>1. restore[from].space \in Spaces /\ screen \in {"locked", "recovery", "ready"}
        BY <1>4, RestoreFields DEF RestoreFails
    <2>2. call \in RestoreCall /\ restore' = [restore EXCEPT ![from] = call]
        BY <1>4, <2>1 DEF RestoreFails, Removing, RestoreCall, Typed, CallsTyped
    <2>3. UNCHANGED <<keyFile, manifest, database, screen, open, lock, owned, restored>>
        BY <1>4 DEF RestoreFails, disk
    <2>4. /\ CallsTyped' /\ DOMAIN restore' = Origins
          /\ \A to \in Origins :
                 restore'[to].stage \in {"idle", "database", "key", "remove"}
        BY <2>1, <2>2, <2>3, RestoreCallTyped
    <2>5. TypeOK'
        BY <2>3, <2>4 DEF Typed, TypeOK, Directories
    <2> QED BY <2>4, <2>5 DEF Typed
<1>5. ASSUME NEW from \in Origins, RemoveTarget(from) PROVE Typed'
    <2>1. /\ manifest' \in [Directories' -> Manifest] /\ Directories' \subseteq Directories
          /\ \A t \in Directories' : manifest'[t] = manifest[t]
          /\ database' \in [DOMAIN database' -> Deks]
          /\ DOMAIN database' \subseteq DOMAIN database
        BY <1>5 DEF RemoveTarget, Drop, Typed, TypeOK, Directories
    <2>2. /\ UNCHANGED <<keyFile, screen, open, lock, owned, restored>>
          /\ restore' = [restore EXCEPT ![from] = Idle] /\ Idle \in RestoreCall
        BY <1>5 DEF RemoveTarget, RestoreCall
    <2>3. /\ CallsTyped' /\ DOMAIN restore' = Origins
          /\ \A to \in Origins :
                 restore'[to].stage \in {"idle", "database", "key", "remove"}
        BY <2>2, RestoreCallTyped
    <2>4. TypeOK'
        BY <2>1, <2>2, <2>3 DEF Typed, TypeOK
    <2> QED BY <2>3, <2>4 DEF Typed
<1>6. CASE Crash
    BY <1>6 DEF Crash, NoRestore, Restoring, RestoreCall, disk,
           Typed, TypeOK, CallsTyped, Directories, Idle
<1> QED BY <1>1, <1>2, <1>3, <1>4, <1>5, <1>6

\* Every step keeps the types.
LEMMA StepTyped == Typed /\ [Next]_vars => Typed'
<1> SUFFICES ASSUME Typed, [Next]_vars PROVE Typed'
    OBVIOUS
<1>1. ASSUME NEW s \in Spaces, Start(s) \/ CreateDatabase(s) PROVE Typed'
    BY <1>1, OpenTyped DEF Start, CreateDatabase
<1>2. ASSUME NEW s \in Spaces, NEW password \in Passwords, Unlock(s, password) PROVE Typed'
    BY <1>2, OpenTyped DEF Unlock
<1>3. CASE UNCHANGED vars
    BY <1>3 DEF vars, Typed, TypeOK, CallsTyped, Restoring, Directories
<1> QED BY <1>1, <1>2, <1>3, FirstTyped, LockTyped, RestoreTyped DEF Next

-----------------------------------------------------------------------------
(* Until a restore writes a key, there is one, and it is kept *)

Kept ==
    /\ KeysSound
    /\ \A o \in owned : Recoverable(o)
    /\ \A o, p \in owned : o = p

\* IInv is the types, and what holds until a restore writes a key.
LEMMA InvariantParts == IInv <=> Typed /\ (restored = {} => Kept)
    BY DEF IInv, Typed, Kept, KeysKept, NoSecondSpace

\* A workspace opens with the key it was opened with before.
LEMMA OpenKept ==
    ASSUME Typed, Kept, NEW s \in Spaces, NEW password, OpenWith(s, password),
           screen # "ready"
    PROVE  Kept'
<1> DEFINE o == [space |-> s, dek |-> Key(s, password)]
<1>1. /\ o \in Held /\ s \in Directories /\ o.space = s /\ o.dek = Key(s, password)
      /\ open' = o /\ owned' = owned \cup {o} /\ UNCHANGED <<keyFile, manifest, restore>>
      /\ lock = Idle /\ lock' = Idle
    BY KeyTyped DEF OpenWith, Typed, CallsTyped
<1>2. \/ keyFile = o
      \/ manifest[s].dek = o.dek /\ o \in owned
    <2>1. CASE manifest[s].state = "disabled"
        <3>1. keyFile \in Held /\ keyFile.dek = o.dek /\ keyFile.space = s
            BY <1>1, <2>1, HeldIsSome DEF OpenWith, Opens, Chosen, Key, unwrapWorkspaceDek
        <3> QED BY <1>1, <3>1 DEF Held
    <2>2. CASE manifest[s].state # "disabled"
        <3>1. manifest[s].dek = o.dek /\ manifest[s].dek # None
            BY <1>1, <2>2 DEF OpenWith, Opens, Key, unwrapWorkspaceDek
        <3> QED BY <1>1, <3>1 DEF Kept, KeysSound
    <2> QED BY <2>1, <2>2
<1> HIDE DEF o
<1>3. owned = {} \/ o \in owned
    BY <1>1, <1>2 DEF Kept, KeysSound
<1>4. \A p, q \in owned' : p = q
    BY <1>1, <1>3 DEF Kept
<1>5. \A p \in owned' : Recoverable(p)'
    BY <1>1, <1>2 DEF Kept, Recoverable, Directories
<1>6. RestoresApart'
    <2>1. ASSUME NEW from \in Origins, Restoring(from) PROVE Apart(restore[from].space)'
        BY <1>1, <1>2, <2>1 DEF Kept, KeysSound, RestoresApart, Apart, Directories
    <2> QED BY <1>1, <2>1 DEF Kept, KeysSound, RestoresApart, Restoring
<1>7. KeysSound'
    <2>1. open' \in owned'
        BY <1>1
    <2>2. keyFile' \in Held => keyFile' \in owned'
        BY <1>1, <1>2, <1>3 DEF Kept, KeysSound
    <2>3. \A t \in Directories' : manifest'[t].dek # None =>
              [space |-> t, dek |-> manifest'[t].dek] \in owned'
        BY <1>1 DEF Kept, KeysSound, Directories
    <2> QED BY <1>1, <1>6, <2>1, <2>2, <2>3 DEF KeysSound, Idle
<1> QED BY <1>4, <1>5, <1>7 DEF Kept

\* Of natural numbers there is a least: the intervals from 0 are well-founded by inclusion.
LEMMA LeastNatural == \A S \in SUBSET Nat : S # {} => \E s \in S : \A t \in S : s <= t
<1> SUFFICES ASSUME NEW S \in SUBSET Nat, S # {} PROVE \E s \in S : \A t \in S : s <= t
    OBVIOUS
<1> DEFINE R == StrictSubsetOrdering(Nat)
           F == FiniteSubsetsOf(Nat)
           T == {0 .. s : s \in S}
<1>1. IsWellFoundedOn(R, F)
    BY FS_StrictSubsetOrderingWellFounded
<1>2. T # {} /\ T \subseteq F
    <2>1. ASSUME NEW s \in S PROVE 0 .. s \in F
        BY FS_Interval DEF FiniteSubsetsOf
    <2> QED BY <2>1
<1>3. ASSUME NEW s \in S, NEW t \in S, t < s PROVE <<0 .. t, 0 .. s>> \in R
    <2>1. 0 .. t \subseteq 0 .. s /\ s \in 0 .. s /\ s \notin 0 .. t
        BY <1>3
    <2> QED BY <2>1 DEF StrictSubsetOrdering
<1>4. \E x \in T : \A y \in T : ~ (<<y, x>> \in R)
    <2> HIDE DEF R, F, T
    <2> QED BY <1>1, <1>2, WFMin, Zenon
<1>5. PICK s \in S : \A t \in S : ~ (<<0 .. t, 0 .. s>> \in R)
    <2> HIDE DEF R
    <2> QED BY <1>4
<1>6. ASSUME NEW t \in S PROVE s <= t
    <2> HIDE DEF R
    <2>1. ~ (t < s)
        BY <1>3, <1>5
    <2>2. s \in Nat /\ t \in Nat
        OBVIOUS
    <2> QED BY <2>1, <2>2
<1> QED BY <1>6

\* locateManifest finds nothing only where there is nothing.
LEMMA NothingThere ==
    ASSUME Typed, NothingLocated
    PROVE  Directories = {}
<1>1. Directories \in SUBSET Nat /\ Directories \subseteq Spaces
    BY SpacesAssumption DEF Typed, TypeOK
<1> QED BY <1>1, LeastNatural DEF NothingLocated, Located

\* A first start finds no trace of a workspace that was open before.
LEMMA FirstOfAll ==
    ASSUME Typed, Kept, FirstStart
    PROVE  /\ owned = {} /\ Directories = {} /\ lock = Idle /\ open = None
           /\ \A from \in Origins : ~Restoring(from)
<1>1. Directories = {} /\ keyFile = Absent /\ screen = "off"
    BY NothingThere DEF FirstStart
<1>2. \A o \in owned : keyFile # o
    BY <1>1, HeldIsSome DEF Typed, TypeOK
<1>3. owned = {}
    BY <1>1, <1>2 DEF Kept, Recoverable
<1> QED BY <1>1, <1>3 DEF Typed, TypeOK, CallsTyped

\* The first start, also one that goes on after a crash, makes the one key.
LEMMA FirstKept ==
    ASSUME Typed, Kept,
           \/ \E s \in Spaces : StartLocked(s)
           \/ \E s \in Spaces, dek \in Deks : CreateKey(s, dek)
           \/ CreateKeyTears \/ CreateLayout
    PROVE  Kept'
<1>1. CASE \E s \in Spaces : StartLocked(s)
    BY <1>1 DEF StartLocked, disk, Kept, KeysSound, RestoresApart, Apart, Restoring,
           Recoverable, Directories
<1>2. CASE \E s \in Spaces, dek \in Deks : CreateKey(s, dek)
    <2>1. /\ owned = {} /\ Directories = {} /\ lock = Idle /\ open = None
          /\ \A from \in Origins : ~Restoring(from)
          /\ UNCHANGED <<manifest, open, lock, restore, owned>>
        BY <1>2, FirstOfAll DEF CreateKey
    <2> QED BY <2>1 DEF Kept, KeysSound, RestoresApart, Restoring, Directories, Idle
<1>3. CASE CreateKeyTears
    <2>1. /\ owned = {} /\ Directories = {} /\ lock = Idle /\ open = None
          /\ \A from \in Origins : ~Restoring(from)
          /\ UNCHANGED <<manifest, open, lock, restore, owned>>
        BY <1>3, FirstOfAll DEF CreateKeyTears
    <2> QED BY <2>1 DEF Kept, KeysSound, RestoresApart, Restoring, Directories, Idle
<1>4. CASE CreateLayout
    <2>1. /\ Directories = {} /\ keyFile \in Held
          /\ lock = Idle /\ open = None /\ \A from \in Origins : ~Restoring(from)
          /\ UNCHANGED <<keyFile, open, lock, restore, owned>>
        BY <1>4, NothingThere DEF CreateLayout, Typed, TypeOK, CallsTyped
    <2>2. \A o \in owned : keyFile = o
        BY <2>1 DEF Kept, Recoverable
    <2>3. \A t \in Directories' : manifest'[t].dek = None
        BY <1>4, <2>1 DEF CreateLayout, Put, Directories, Disabled
    <2> QED BY <2>1, <2>2, <2>3 DEF Kept, KeysSound, RestoresApart, Restoring, Recoverable, Idle
<1> QED BY <1>1, <1>2, <1>3, <1>4

\* While a workspace is open its key is the only one there was.
LEMMA TheOpenOne ==
    ASSUME Typed, Kept, screen = "ready"
    PROVE  /\ open \in owned /\ (\A o \in owned : o = open)
           /\ open \in Held /\ open = [space |-> open.space, dek |-> open.dek]
           /\ open.space \in Spaces /\ open.dek # None
           /\ \A from \in Origins : Restoring(from) => restore[from].space # open.space
<1>1. open \in owned /\ open \in Held
    BY DEF Typed, TypeOK, Kept, KeysSound
<1>2. /\ open = [space |-> open.space, dek |-> open.dek] /\ open.space \in Spaces
      /\ open.dek # None
    BY <1>1, NoneAssumption DEF Held
<1> QED BY <1>1, <1>2 DEF Kept, KeysSound, RestoresApart, Apart

\* App lock touches only the manifest of the open workspace, and no restore is into that.
LEMMA StaysApart ==
    ASSUME Typed, Kept, screen = "ready", UNCHANGED <<open, restore, owned>>,
           Directories' = Directories,
           \A t \in Directories : t # open.space => manifest'[t] = manifest[t],
           keyFile' \in Held => keyFile' \in {keyFile, open}
    PROVE  RestoresApart'
<1>1. ASSUME NEW from \in Origins, Restoring(from) PROVE Apart(restore[from].space)'
    <2>1. restore[from].space # open.space /\ Apart(restore[from].space)
        BY <1>1, TheOpenOne DEF Kept, KeysSound, RestoresApart
    <2>2. keyFile' \in Held => keyFile'.space # restore[from].space
        BY <2>1 DEF Apart
    <2> QED BY <2>1, <2>2 DEF Apart
<1>2. \A from \in Origins : Restoring(from)' <=> Restoring(from)
    BY DEF Restoring
<1> QED BY <1>1, <1>2 DEF Kept, KeysSound, RestoresApart

\* Every step of app lock leaves the key in the key file or in the manifest.
LEMMA LockKept ==
    ASSUME Typed, Kept,
           \/ \E password \in Passwords :
                 EnableLock(password) \/ DisableLock(password) \/ DisableLockTears(password)
           \/ WritePending \/ DeleteKeyFile \/ ActivateLock \/ ForgetWrapped \/ LockFails
    PROVE  Kept'
<1>1. screen = "ready"
    BY DEF EnableLock, DisableLock, DisableLockTears, SettingsFree, WritePending, wrapWorkspaceDek,
           DeleteKeyFile, ActivateLock, ForgetWrapped, LockFails, Typed, CallsTyped, Idle
<1>2. /\ open \in owned /\ (\A o \in owned : o = open)
      /\ open \in Held /\ open = [space |-> open.space, dek |-> open.dek]
      /\ open.space \in Spaces /\ open.dek # None
    BY <1>1, TheOpenOne
<1>3. UNCHANGED <<open, restore, owned>> /\ open # None
    BY <1>2, HeldIsSome DEF EnableLock, DisableLock, DisableLockTears, WritePending, wrapWorkspaceDek,
           DeleteKeyFile, ActivateLock, ForgetWrapped, LockFails
<1>4. SUFFICES KeysSound' /\ Recoverable(open)'
    BY <1>2, <1>3 DEF Kept, Recoverable
<1>5. CASE \E password \in Passwords : EnableLock(password)
    <2>1. /\ UNCHANGED <<keyFile, manifest>>
          /\ lock'.stage = "derive" /\ lock'.dek = open.dek
        BY <1>2, <1>5 DEF EnableLock, disk, Kept, KeysSound
    <2> QED BY <1>1, <1>2, <1>3, StaysApart, <2>1 DEF Kept, KeysSound, Recoverable, Directories
<1>6. CASE \E password \in Passwords : DisableLock(password) \/ DisableLockTears(password)
    <2>1. PICK password \in Passwords : DisableLock(password) \/ DisableLockTears(password)
        BY <1>6
    <2>2. /\ open.space \in Directories /\ manifest[open.space].password = password
          /\ manifest' = manifest
        BY <2>1 DEF DisableLock, DisableLockTears
    <2>3. manifest[open.space].dek # None
        BY <2>2, NoneAssumption DEF Typed, TypeOK
    <2>4. manifest[open.space].dek = open.dek
        <3>1. [space |-> open.space, dek |-> manifest[open.space].dek] \in owned
            BY <2>2, <2>3 DEF Kept, KeysSound
        <3>2. [space |-> open.space, dek |-> manifest[open.space].dek] = open
            BY <1>2, <3>1
        <3>3. [space |-> open.space, dek |-> manifest[open.space].dek].dek = open.dek
            BY <3>2
        <3> QED BY <3>3
    <2>5. Recoverable(open)'
        BY <1>3, <2>2, <2>4 DEF Recoverable, Directories
    <2>6. CASE DisableLock(password)
        <3>1. keyFile' = open /\ lock'.stage = "unlocked"
            BY <1>2, <2>4, <2>6 DEF DisableLock
        <3> QED BY <1>1, <1>2, <1>3, StaysApart, <2>2, <2>5, <3>1 DEF Kept, KeysSound, Directories
    <2>7. CASE DisableLockTears(password)
        <3>1. keyFile' \notin Held /\ lock' = lock
            BY <2>7, HeldIsSome DEF DisableLockTears
        <3>2. lock = Idle
            BY <2>7 DEF DisableLockTears, SettingsFree
        <3> QED BY <1>1, <1>2, <1>3, StaysApart, <2>2, <2>5, <3>1, <3>2 DEF Kept, KeysSound, Directories, Idle
    <2> QED BY <2>1, <2>6, <2>7
<1>7. CASE WritePending
    <2> DEFINE m == [state |-> "pending", dek |-> lock.dek, password |-> lock.password]
    <2>1. /\ keyFile' = keyFile /\ open.space \in Directories
          /\ manifest' = [manifest EXCEPT ![open.space] = m]
          /\ lock.dek = open.dek /\ m.dek = open.dek
        BY <1>7 DEF WritePending, wrapWorkspaceDek, Kept, KeysSound
    <2>2. lock' = [lock EXCEPT !.stage = "delete"] /\ lock.stage = "derive"
        BY <1>7 DEF WritePending, wrapWorkspaceDek
    <2>3. lock'.stage = "delete" /\ lock'.dek = open.dek
        BY <1>7, <2>1, <2>2 DEF Typed, CallsTyped, Idle
    <2> HIDE DEF m
    <2>4. /\ Directories' = Directories /\ manifest'[open.space].dek = open.dek
          /\ \A t \in Directories : t # open.space => manifest'[t] = manifest[t]
        BY <2>1 DEF Typed, TypeOK, Directories
    <2> QED BY <1>1, <1>2, <1>3, StaysApart, <2>1, <2>3, <2>4 DEF Kept, KeysSound, Recoverable
<1>8. CASE DeleteKeyFile
    <2>1. lock.dek # None
        BY <1>8, NoneAssumption DEF DeleteKeyFile, Typed, CallsTyped, Idle
    <2>2. manifest[open.space].dek = lock.dek
        BY <1>8, <2>1 DEF DeleteKeyFile, unwrapWorkspaceDek
    <2>3. /\ keyFile' \notin Held /\ manifest' = manifest /\ lock'.stage = "activate"
          /\ open.space \in Directories /\ manifest[open.space].dek = open.dek
        BY <1>8, <2>2, HeldIsSome DEF DeleteKeyFile, Kept, KeysSound
    <2> QED BY <1>1, <1>2, <1>3, StaysApart, <2>3 DEF Kept, KeysSound, Recoverable, Directories
<1>9. CASE ActivateLock
    <2>1. /\ keyFile' = keyFile /\ open.space \in Directories /\ lock' = Idle
          /\ manifest' = [manifest EXCEPT ![open.space].state = "enabled"]
        BY <1>9 DEF ActivateLock
    <2>2. manifest[open.space] \in Manifest /\ manifest \in [Directories -> Manifest]
        BY <2>1 DEF Typed, TypeOK
    <2>3. /\ Directories' = Directories
          /\ manifest'[open.space].dek = manifest[open.space].dek
          /\ \A t \in Directories : t # open.space => manifest'[t] = manifest[t]
        BY <2>1, <2>2 DEF Directories, Manifest
    <2>4. \A t \in Directories : manifest'[t].dek = manifest[t].dek
        BY <2>3
    <2> QED BY <1>1, <1>2, <1>3, StaysApart, <2>1, <2>3, <2>4 DEF Kept, KeysSound, Recoverable, Idle
<1>10. CASE ForgetWrapped
    <2>1. /\ keyFile' = keyFile /\ keyFile = open
          /\ open.space \in Directories /\ lock' = Idle
          /\ manifest' = [manifest EXCEPT ![open.space] = Disabled]
        BY <1>10 DEF ForgetWrapped, Kept, KeysSound
    <2>2. /\ Directories' = Directories /\ manifest'[open.space].dek = None
          /\ \A t \in Directories : t # open.space => manifest'[t] = manifest[t]
        BY <2>1 DEF Typed, TypeOK, Directories, Disabled
    <2> QED BY <1>1, <1>2, <1>3, StaysApart, <2>1, <2>2 DEF Kept, KeysSound, Recoverable, Idle
<1>11. CASE LockFails
    BY <1>1, <1>2, <1>3, <1>11, StaysApart DEF LockFails, disk, Kept, KeysSound, Recoverable, Directories, Idle
<1> QED BY <1>5, <1>6, <1>7, <1>8, <1>9, <1>10, <1>11

\* A restore that has written no key, and a crash, leave the key where it was.
LEMMA RestoreKept ==
    ASSUME Typed, Kept,
           \/ \E from \in Origins :
                 \/ \E s \in Spaces : BeginRestore(from, s)
                 \/ \E dek \in Deks : RestoreDatabase(from, dek)
                 \/ RestoreFails(from) \/ RemoveTarget(from)
           \/ Crash
    PROVE  Kept'
<1>1. ASSUME NEW from \in Origins, NEW s \in Spaces, BeginRestore(from, s) PROVE Kept'
    <2>1. /\ UNCHANGED <<keyFile, open, lock, owned>>
          /\ s \notin Directories /\ (\A o \in owned : o.space # s)
          /\ keyFile \in Held => keyFile.space # s
        BY <1>1 DEF BeginRestore, FreshSpace
    <2>2. /\ Directories' = Directories \cup {s} /\ manifest'[s] = Disabled
          /\ \A t \in Directories : manifest'[t] = manifest[t]
        BY <1>1, <2>1 DEF BeginRestore, Put, Directories
    <2>3. Disabled.dek = None
        BY DEF Disabled
    <2>4. /\ restore'[from].space = s
          /\ \A to \in Origins \ {from} : restore'[to] = restore[to]
        BY <1>1 DEF BeginRestore, Typed, CallsTyped
    <2>5. \A to \in Origins \ {from} : Restoring(to) => restore[to].space \in Directories
        BY DEF Kept, KeysSound, RestoresApart, Apart
    <2>6. RestoresApart'
        <3>1. Apart(s)'
            BY <2>1, <2>2 DEF Apart
        <3>2. \A t \in Directories : Apart(t) => Apart(t)' /\ t # s
            BY <2>1, <2>2 DEF Apart
        <3>3. ASSUME NEW to \in Origins, Restoring(to)', to # from
              PROVE  Restoring(to) /\ Apart(restore[to].space)' /\ restore'[to].space # s
            <4>1. Restoring(to) /\ restore'[to] = restore[to] /\ Apart(restore[to].space)
                BY <2>4, <3>3 DEF Kept, KeysSound, RestoresApart, Restoring
            <4> QED BY <2>5, <3>2, <3>3, <4>1
        <3> QED BY <2>4, <3>1, <3>3 DEF Kept, KeysSound, RestoresApart
    <2> QED BY <2>1, <2>2, <2>3, <2>6 DEF Kept, KeysSound, Recoverable
<1>2. ASSUME NEW from \in Origins, (\E dek \in Deks : RestoreDatabase(from, dek)) \/ RestoreFails(from)
      PROVE  Kept'
    <2>1. UNCHANGED <<keyFile, manifest, open, lock, owned>> /\ Restoring(from)
        BY <1>2 DEF RestoreDatabase, RestoreFails, disk, Restoring, Idle
    <2>2. /\ restore'[from].space = restore[from].space
          /\ \A to \in Origins \ {from} : restore'[to] = restore[to]
        BY <1>2 DEF RestoreDatabase, RestoreFails, Removing, Typed, CallsTyped
    <2>3. \A s : Apart(s) <=> Apart(s)'
        BY <2>1 DEF Apart, Directories
    <2>4. RestoresApart'
        BY <2>1, <2>2, <2>3 DEF Kept, KeysSound, RestoresApart, Restoring
    <2> QED BY <2>1, <2>4 DEF Kept, KeysSound, Recoverable, Directories
<1>3. ASSUME NEW from \in Origins, RemoveTarget(from) PROVE Kept'
    <2>1. /\ UNCHANGED <<keyFile, open, lock, owned>> /\ Restoring(from)
          /\ restore' = [restore EXCEPT ![from] = Idle]
          /\ Directories \ {restore[from].space} \subseteq Directories'
          /\ Directories' \subseteq Directories
          /\ \A t \in Directories' : manifest'[t] = manifest[t]
        BY <1>3 DEF RemoveTarget, Drop, Directories, Restoring, Idle
    <2>2. \A o \in owned : o.space # restore[from].space
        BY <2>1 DEF Kept, KeysSound, RestoresApart, Apart
    <2>3. RestoresApart'
        <3>1. \A to \in Origins : Restoring(to)' => to # from /\ restore'[to] = restore[to]
            BY <2>1 DEF Restoring, Typed, CallsTyped
        <3>2. ASSUME NEW to \in Origins, Restoring(to)' PROVE Apart(restore[to].space)'
            <4>1. Restoring(to) /\ restore[to].space # restore[from].space
                BY <2>1, <3>1, <3>2 DEF Kept, KeysSound, RestoresApart, Restoring
            <4> QED BY <2>1, <4>1 DEF Kept, KeysSound, RestoresApart, Apart
        <3> QED BY <3>1, <3>2 DEF Kept, KeysSound, RestoresApart, Restoring
    <2> QED BY <2>1, <2>2, <2>3 DEF Kept, KeysSound, Recoverable
<1>4. CASE Crash
    BY <1>4 DEF Crash, NoRestore, Restoring, RestoresApart, disk,
           Kept, KeysSound, Recoverable, Directories, Idle
<1> QED BY <1>1, <1>2, <1>3, <1>4

\* Every step keeps the one key, until a restore writes another.
LEMMA StepKept == Typed /\ (restored = {} => Kept) /\ [Next]_vars => (restored' = {} => Kept')
<1> SUFFICES ASSUME Typed, restored = {} => Kept, [Next]_vars, restored' = {} PROVE Kept'
    OBVIOUS
<1>1. CASE UNCHANGED vars
    BY <1>1 DEF vars, Kept, KeysSound, RestoresApart, Apart, Restoring, Recoverable, Directories
<1>2. CASE Next
    <2>1. /\ restored \subseteq restored'
          /\ \A from \in Origins : ~RestoreKey(from) /\ ~RestoreKeyFails(from)
        BY <1>2 DEF Next, Start, CreateDatabase, Unlock, OpenWith, StartLocked, CreateKey,
               CreateKeyTears, CreateLayout, EnableLock, DisableLock, DisableLockTears,
               WritePending, wrapWorkspaceDek, DeleteKeyFile, ActivateLock, ForgetWrapped, LockFails,
               BeginRestore, RestoreDatabase, RestoreKey, RestoreKeyFails, RestoreFails,
               RemoveTarget, Crash
    <2>2. Kept
        BY <2>1
    <2>3. ASSUME NEW s \in Spaces, Start(s) \/ CreateDatabase(s) PROVE Kept'
        BY <2>2, <2>3, OpenKept DEF Start, CreateDatabase
    <2>4. ASSUME NEW s \in Spaces, NEW password \in Passwords, Unlock(s, password) PROVE Kept'
        BY <2>2, <2>4, OpenKept DEF Unlock
    <2> QED BY <1>2, <2>1, <2>2, <2>3, <2>4, FirstKept, LockKept, RestoreKept DEF Next
<1> QED BY <1>1, <1>2

-----------------------------------------------------------------------------
(* The theorems *)

\* The inductive invariant: the types, and while no restore has written a key, one key,
\* in the key file or wrapped in the manifest of its workspace.
THEOREM Invariant == Spec => []IInv
<1>1. Init => IInv
    <2> SUFFICES ASSUME Init PROVE IInv
        OBVIOUS
    <2>1. Directories = {} /\ DOMAIN database = {}
        BY DEF Init, Directories
    <2>2. Typed
        BY <2>1 DEF Init, NoRestore, Restoring, RestoreCall,
               Typed, TypeOK, CallsTyped, Directories, Idle
    <2>3. Kept
        BY <2>1 DEF Init, NoRestore, Restoring, RestoresApart, Kept, KeysSound, Idle
    <2> QED BY <2>2, <2>3, InvariantParts
<1>2. IInv /\ [Next]_vars => IInv'
    <2> SUFFICES ASSUME IInv, [Next]_vars PROVE IInv'
        OBVIOUS
    <2>1. Typed /\ (restored = {} => Kept)
        BY InvariantParts
    <2>2. Typed' /\ (restored' = {} => Kept')
        BY <2>1, StepTyped, StepKept
    <2> QED BY <2>2 DEF IInv, Typed, Kept, KeysKept, NoSecondSpace
<1> QED BY <1>1, <1>2, PTL DEF Spec

\* Every variable has its type, and every manifest a wrapped key exactly with a lock.
THEOREM TypeCorrect == Spec => []TypeOK
<1>1. IInv => TypeOK
    BY DEF IInv
<1> QED BY <1>1, Invariant, PTL

\* Until a restore writes the key file, the key of a workspace that was open is there:
\* no step of app lock, failed call or crash loses it.
THEOREM KeysAreKept == Spec => []KeysKept
<1>1. IInv => KeysKept
    BY DEF IInv
<1> QED BY <1>1, Invariant, PTL

\* Until then there is one workspace: a start that finds no key begins none.
THEOREM OneSpace == Spec => []NoSecondSpace
<1>1. IInv => NoSecondSpace
    BY DEF IInv
<1> QED BY <1>1, Invariant, PTL

\* No step opens a workspace whose manifest has a lock without its password, wherever
\* enabling or disabling has stopped.
THEOREM LockIsAsked == Spec => LockAsked
<1> DEFINE Asked == open' # open /\ open' # None /\ screen # "locked" =>
                        manifest[(open.space)'].state = "disabled"
<1>1. TypeOK /\ [Next]_vars => [Asked]_vars
    <2> SUFFICES ASSUME TypeOK, Next, open' # open, open' # None, screen # "locked"
                 PROVE  manifest[(open.space)'].state = "disabled"
        BY DEF vars
    <2>1. PICK s \in Spaces : Start(s) \/ CreateDatabase(s)
        BY DEF Next, Unlock, StartLocked, CreateKey, CreateKeyTears, CreateLayout,
               EnableLock, DisableLock, DisableLockTears, WritePending, wrapWorkspaceDek, DeleteKeyFile,
               ActivateLock, ForgetWrapped, LockFails, BeginRestore, RestoreDatabase,
               RestoreKey, RestoreKeyFails, RestoreFails, RemoveTarget, Crash
    <2>2. OpenWith(s, None)
        BY <2>1 DEF Start, CreateDatabase
    <2>3. s \in Directories /\ Key(s, None) # None /\ open'.space = s
        BY <2>2 DEF OpenWith, Opens, Chosen, Located
    <2>4. manifest[s].password = None => manifest[s].dek = None
        BY <2>3 DEF TypeOK
    <2> QED BY <2>3, <2>4 DEF Key, unwrapWorkspaceDek
<1> QED BY <1>1, TypeCorrect, PTL DEF Spec, LockAsked

=============================================================================
