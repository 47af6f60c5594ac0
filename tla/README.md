# Verification of the personal wealth desktop app

TLA+ modules for the Electron app in `src/`: what its main process, its helper
processes and its encrypted workspace do when requests, crashes and failing writes
come in any order.  TLC checks the modules on small instances; TLAPS proves, for
every value of the constants, the safety properties of the ledger, the keys, the
import, the exchange rates, the backups, the migrations and updates, what is sent to
a model, and the start and release of the desktop.

    tlc -workers 2 -config ledger.cfg MCLedger           # one run of PROJECT.json
    tlapm LedgerProofs.tla                               # the proofs of one component

## The system

One Electron main process owns everything that is stored.  The renderer calls it
over IPC; a utility process runs tasks for it over a message channel; text is
recognised in worker threads that start processes of their own.  A workspace is a
directory with a manifest, an SQLCipher database and an object store of encrypted
statements; its key is in a protected file beside the directories, or wrapped under a
password in the manifest.

| Component | State | Operations | Interacts with |
|---|---|---|---|
| Ledger, activity log, undo (`main/ledger`, `main/activity`, `storage/activity`) | `journal_entry`, `posting`, `activity_operation` | commit of an import, delete, update, classify, merge, link, unlink, undo, undo latest | renderer (stale lists), import, database transactions |
| Import (`main/import`, `storage/import`, `application/import`) | drafts in memory, `import_batch`, `import_commit`, object store | create, get, edit, skip, cancel, commit | parsers, OCR, ledger, activity log |
| Workspace keys (`main/workspace`, `storage/keys`, `storage/workspace`) | key file, manifests, databases, the session | start, unlock, enable and disable app lock, restore | file system only: no transaction spans two files |
| Backup and restore (`storage/backup`, `main/workspace`) | a directory read file by file, a package, a new directory | create, restore | every request that writes meanwhile; closing the workspace |
| Migrations, folder backups, updater (`storage/migrations`, `storage/backup/workspace-backup.ts`, `main/updater`) | schema version, checkpoints, a folder, what is downloaded | migrate, copy, restore; check, download, install on quit | the running program and its database |
| Utility tasks (`main/task-coordinator.ts`, `main/utility-port.ts`, `worker/`) | active, issued and cancelled ids on one side; waiting, ended and cancelled ids on the other; the channel | start, cancel, dispose; running, completed, result, cancelled, failure | a process that may die |
| OCR (`main/import/ocr-pipeline.ts`, `importer/ocr`, `workers/`) | task directories, renderer, thread, recogniser, pages | run, page, complete, fail, time out, terminate, clean up | import |
| Startup and shutdown (`main/index.ts`, `main/bootstrap*.ts`) | child, port, handlers, session, window, by generation | launch, activate, ready, unlock, close, quit | all of the above |
| Exchange rates (`main/finance`, `fx`, `storage/repositories`, `application/queries`) | `finance_settings`, `fx_override`, `fx_quote`, overviews waiting for the network | overview, set base currency, save and delete a manual rate | the rate provider, ledger |
| Budgets, goals, overview (`application/commands`, `application/queries`, `renderer/App.tsx`) | `budget`, `financial_goal`, the refreshes under way, what is shown | versioned upserts, sums, refresh, change of month | ledger, exchange rates |
| Settings and the LLM fallback (`main/settings`, `ai`, `application/import`) | settings, secrets, the review on the screen, prepared attachments | save and delete a key, prepare, preview, send | import, a network service |

The rest (parsers, preload, protocol and window security, vaults, scripts, the
renderer's layout) keeps no state of interest or is pure input and output;
`PROJECT.json` lists every part with its status.

What is hard here:

* **Two steps that are not one.**  Every ledger request is a transaction *and then* a
  statement that records it; undo is a transaction, a mark and a marker; app lock
  moves a key between two files; a restore writes a database and then a key; saving a
  provider stores a secret, drops another and writes the settings.  The process may die,
  and a statement or write may fail, between any two.
* **Stale knowledge.**  The renderer sends versions and contents it was given some
  time ago; inverses are applied long after they were recorded; what was reviewed may
  have changed by the time it is sent; refreshes overtake each other.
* **Several processes.**  Messages are under way while tasks are cancelled, forgotten,
  or the other side dies; sends throw; ids are evicted; a thread that was stopped has
  started a process that goes on writing; a worker is ready after its timer.
* **Copies of what changes.**  Backups and checkpoints copy a database file that is
  committed to meanwhile.
* **Long legal sequences.**  Edit, link, delete, undo, undo of an older operation,
  enable, crash, disable, restore, close, unlock, activate.

What does *not* happen, and the modules do not model: two SQL requests in
each other's middle.  The driver (`storage/sqlcipher/driver.ts`) is synchronous, so
an IPC handler that awaits nothing but statements runs to its end in one turn of
the event loop.  Only handlers that await files, the network or another process
(`createDraft`, app lock, restore, backup, overview, preview and sending) let others in.

## Modules

Source paths are relative to `src/apps/desktop/src` and `src/packages`.  Each component
is one module; the `MC` modules give TLC its instances and state what the user interface says.

### Ledger (`Ledger.tla`, `MCLedger.tla`, `LedgerProofs.tla`)

`journal` is the table of journals with their postings, reduced to what the
operations tell apart: version, text (date, description and amounts as one value),
category, deleted, link.  `log` is `activity_operation` in insertion order, each
with its inverse.  `pending` is what the running request still has to do: `record`
its operation, or `mark` and then append the `marker` of an undo.  Every request
action (`DeleteJournal`, `UpdateJournal`, ...) is the whole transaction of the
handler and leaves a `pending`; `RecordOperation`, `MarkUndone` and `AppendMarker`
are the later statements, and the crash actions drop what is pending.  `CrashInPrune` stops the retention
before or between its UPDATEs; within the bounds there is one of those, and the proofs are about any number.  `past` and
`applied` are history: every row the ledger ever held, which is also what the
renderer may have been given (`Listed`), and the operations whose inverse was
applied.  `Clock` is the set of timestamps; operations get any of them, so the clock
repeats and steps back, which is what `createdAt >` in `findForUndo` has to live with.

| Property | Says |
|---|---|
| `TransferLinksPaired` | a link id is on two journals or on none |
| `VersionIdentifiesRow` | a version of a journal names one content for ever |
| `UndoRestores` | undo overwrites only its operation's result and restores the row before it in every field |
| `UndoneOnce` | no operation is undone twice, also after a crash before the mark |
| `MergeKeepsLiveCopy` | a merge leaves a live journal with the same contents |
| `MergeIsRecorded` (fails) | a merge in the ledger is in the history: not after a crash |
| `BlockedOnlyByLaterChange` (fails) | an undo is refused only because a later change depends on it: not after that change was undone |

### Workspace keys (`WorkspaceKeys.tla`, `MCWorkspaceKeys.tla`, `WorkspaceKeysProofs.tla`)

`keyFile` is `workspace-key.json`: absent, torn, or a workspace and its key.
`manifest` is each directory's `manifest.json` with the lock's state and the wrapped
key; it is replaced by a rename, so it is never torn.  `database` is the key each
database was encrypted with.  `screen`, `open`, `lock` and `restore` are the process: what
it shows, what it has open, and at which await its running call stands.  `Crash` may
come in any state.  Workspace ids are numbers because `locateManifest` takes the
first directory in the order `readdir` lists them.  Encryption is external: a key opens
what was encrypted with it and nothing else.  The settings run one security call at
a time (`securityBusy` in `App.tsx`), which is why `lock` holds one call.  A restore may also be
begun on the first screen, whose busy flag (`backupBusy`) is another and which is left by unlocking
while the restore goes on; so `restore` holds one call for each of the two `Origins`.

`KeysKept`: until a restore writes the key file, the key of every workspace that was
ever open can be had from the disk.  `NoSecondSpace`: a start never begins a second
workspace beside the first.  `LockAsked`: no start without a password opens a
workspace whose manifest has a lock, wherever an enabling or disabling stopped.
`LockedScreenOpens` and `RestartSwitches` are what the screens say; both fail.

### Backup and restore (`Backup.tla`, `MCBackup.tla`, `FilesProofs.tla`)

The workspace in use is `entries` (how many are committed), `drafts` (draft rows) and `objects`
(encrypted statements); `StoreObject`, `SaveDraft` and `CommitEntry` go on throughout, and
`live` is whether the session is open.  `backup` is the running `create`: listing the objects,
reading the database, then the statements and the key (`Seal`), writing `<destination>.part`, renaming it.
A commit while the file is read may be in the copy, not in it, or tear it (`CommitUnder`);
the WAL is truncated before, and the copy of the main file is not atomic.  Closing the workspace zeroes the
key buffer that a running backup still refers to (`zeroed`).  `target` and `restoring` are a restore:
directories, entries, rekeying, verification and the key; a step that fails removes the directory, and the removal may fail.

`BackupKeeps`: the file at the destination is none or a whole package; what was committed when
the backup was asked for is in it, every draft with its statement, unless commits tore the copy;
its key is the workspace's unless the workspace was closed.  `RestoredWholeOrNot`: a restore that is over
has left a whole workspace or none, which is its database and its key.  `RestoredShowsEntries` (fails): the rows keep the id of the
workspace that wrote them, and every query asks for those of its own.

### Migrations, folder backups and updates (`Maintenance.tla`, `FilesProofs.tla`)

One module because they meet in the database: `data` is its schema version, the migrations that made
it and its rows; `checkpoint` the files of `checkpoints/`, which both `runMigrations` and `installOnQuit` make;
`partial` and `folder` the files of a folder backup, `named` what its manifest says; `program` the running version.  A copy under way
may be torn by a commit (`Rewrites`), and is cut off by a crash.  `Check`, `Judge`, `Download` and
`InstallOnQuit` are the turns of `UpdateService`, whose provider is external.  `Restart` starts the program
that the updater was handed.  While a migration runs no request commits: it runs before any composition is registered.

`MigrationsRecoverable`: every database that migrations have replaced is in a whole checkpoint for ever, and
the database has the migrations of its version and no other.  `InstalledWasJudged`: what is installed was
found installable by a check, with a copy of the database made after the user had quit.  `RestoredFolderWhole`: a
restored folder is never part of a database, though a backup may replace the folder between its verification and its copy.

### Utility tasks (`TaskLife.tla`, `TaskProtocol.tla`, `DesktopProofs.tla`)

`TaskLife` is the promise: what is shown of a task is a legal story (running, then
completed or cancelled, each once, cancelled only when asked), every task is let go of,
none begins after disposal.  `TaskProtocol` is the code: the coordinator's three sets,
the channel's two queues, the worker's turns and remembered ids.  The queues are FIFO
(a MessagePort keeps the order) and ids are fresh (`crypto.randomUUID`), which `posted`
records.  `TakeTurn` is a task's `await` and all the sends after it; `Cut` is what
is delivered of them when one throws.  `ChildExits` kills the worker, `Disconnect` is
the main process hearing of it, and in between starts and cancellations go to nobody
while old responses still arrive.

`TasksImplementLife` is the refinement (`INSTANCE TaskLife`), liveness included.
`NoTaskStranded`: a task the coordinator keeps is under way on a worker that lives.
`OneTerminal`: a task's last message is its last and only one.  `StartsAreNew`: eviction
of remembered ids never meets a start to come; this is why `ReceiveStart` needs no
branch for known ids, which the code has and no execution takes.

**Fairness.**  Both event loops deliver what is queued (`ReceiveResponse`,
`WorkerReceives`), the 250 ms timer of a turn fires or its abort resolves it
(`TakeTurn`), and the exit of the worker is reported (`~child /\ Disconnect`: Electron
emits `exit`).  All are weak: each stays enabled until taken.  Nobody has to start,
cancel, dispose or die.  `ThrownSends` says how many sends in a row may throw: the
code tries to report a failure twice and then gives up, so with three a task stays in the
coordinator until the worker exits; the assumption names that limit.

### OCR (`Ocr.tla`, `DesktopProofs.tla`)

For each run `stage` is where `run()` stands, from making its directory to removing it;
`dir` its directory with its files; `renderer`, `thread` and `recogniser` the processes, `job`
the page the thread is at, `events` what it has posted, `pages` how often each page was pushed on the result.  `RaceFails` is
the timer, the cancellation or the death of the thread; `Stopped` is `terminate`, which waits for the thread and not
for the recogniser it has started; that ends by itself (`OrphanEnds`), and what it may write beside the removal of its directory
is a removal that fails.  `Strays` are events the
port must refuse.  A removal that fails leaves some of the files and is tried again; `MakeDirectory` also removes
directories of runs that ended or died more than a day ago.

`PagesExact`: a success has every wanted page once and no other.  `NothingLeft`: a settled run has no thread, and a
success has left no file.  `StoppedBeforeRemoval`: no file goes from under a live thread.  `RunSettles`: every run ends.

**Fairness.**  Weak, for each run: the renderer and the race have timers (`RendererFails`, `RaceFails`), and what the
event loop has been given comes to its end (`Render`, `StartThread`, `Stopped`, `RemoveDirectory`, `RemoveAgain`, each with its way to fail).
The thread and the recogniser have to do nothing.

### Startup and shutdown (`Shell.tla`, `DesktopProofs.tla`)

A generation is one `start()`: `at` is where it stands, `utility`, `window` and `session` what it holds,
`handlers` which generation serves each of the three groups of channels; `ipcMain.handle` throws where one is
registered.  `startup` and `pendingLaunch` are the variables of `index.ts` and `bootstrap.ts`.  `Ready` and `NotReady` race;
`Fail` is a throwing step, which ends the process; `WindowClosed` and `Quit` release.  An unlock is two steps
(`Unlocked`, `Registered`), and nothing asks between them whether the session was closed, so a released
generation may register handlers (`RegisteredLate`); `late` remembers that this is possible.

`OneDesktop`: only the latest generation, which `index.ts` remembers, has a window or a worker.  `ReleasedWhole`: a released
one has no handler and no open session, unless an unlock was under way.  `ServedByItself`: a running desktop is served by its own
session.  `LaunchSettles`: a launch ends with the desktop or the process.

**Fairness.**  Weak: Electron gets ready and the worker is forked or not, the timer of five seconds fires, and opening the workspace, loading the page
and closing the database end, well or badly.  The worker does not have to greet, nor anybody to unlock, close or quit.

### Import (`ImportBatch.tla`, `MCImportBatch.tla`, `ImportBatchProofs.tla`)

`row` is `import_batch` with the draft in `draft_json`, `drafts` the map in memory,
`objects` the source documents, `imported` is `import_commit`, `journals` the journals by
commit and raw record.  `PutSource`, then `ReadFails` or `CreateDraft`, are the turns of
`createDraft`, whose row may fail to be inserted after the draft was put in memory, where nobody has its id;
edits are one turn with a save that may fail after memory was set; `commit`
holds the running commit, whose transaction (`SaveJournal`, `MarkCommitted`, `RollBack`)
and activity record (`AppendActivity`) are steps of their own.  `Restart` forgets the memory.
A click makes a new idempotency key; the handler also accepts one again, so the model
lets it come again.

`OneCommitPerSource`: one commit per statement file, whatever drafts were made of it.
`NothingPartlyAdded`: the journals are exactly those of the committed requests.
`MemoryNotBehind`: memory is never older than the row.  `FailedAddsNothing`, what the
message of a failed commit says, fails when the activity record does.

### Settings and the LLM fallback (`Consent.tla`, `ConsentProofs.tla`)

`settings` and `secrets` are the two files; `saving` is the running set or delete, which stores the
new secret, drops the old one and replaces the settings.  `provider`, `review`, `fallback` and `preview` are what
the renderer shows; `call` is the call under way with what its closure holds: a call reads the settings first, resolves its token
and builds the payload (`Payload`), which for a preview is shown and for a sending is built again and compared with what was
reviewed.  `capabilities` are the prepared attachments by token, until they expire or are consumed.  An import may end, another provider be chosen,
and settings be saved while a call waits; the renderer runs one AI call and one settings call at a time (`aiBusy`, `llmBusy` in `App.tsx`).

`SentIsReviewed`: what is sent, and to whom, is what was reviewed.  `AttachmentsOnce`: prepared attachments go with their own
draft and not again once an analysis has succeeded.  `SavedKeyKept`: a saved key is named and there,
but while a call replaces it or after one failed between its steps.

### Exchange rates (`FxRates.tla`, `MCFxRates.tla`, `FxRatesProofs.tla`)

`settings`, `overrides` and `quotes` are the three tables; a row of `fx_quote` is found by
its two currencies and its day, and has an id of its own besides, and both are unique.
`calls` holds each overview that waits for the network: what it asks for, the base
currency it began with and that currency's rate, the currencies still to do, and the row it
read before asking.  `published` counts the quotes the provider has put out of each currency
and day.  `Overview` and `Receive` are whole turns of the event loop, from one await of the
network to the next: `Ask` reads the cached row and sends, `Receive` stores the quote
(`Received`), derives and stores the rate to the base currency (`Derived`), and goes on to
the next currency (`Proceed`) or to the values (`Finish`).  Only awaits of the network let
others in, since the statements are synchronous.  What an overview returns is not kept in a
variable: `Valued` says what it would return now, in the settings of now, and
`ValuesAreRight` is about every state, so about every return.  `Quit` ends the process;
each statement is its own transaction, so what was stored stays.

The provider is external: it answers for the day that was asked, with the newest quote it
has when it answers, an etag says which, and its prices are positive.  Rates are fractions,
not reduced (the code reduces them, which is the same number).  The accounts of a currency
are taken as one.  A manual rate is named by its pair and day, since one id per pair and
day is what the table and the commands allow.  Automatic rates are always on, since nothing in
the app turns them off; the first read of the settings inserts the default, which is what `Init` has.

| Property | Says |
|---|---|
| `RatesAreQuoted` | a stored rate is the quotient of quotes of its own two currencies and its own day, however calls overlap and whatever becomes of the base currency |
| `ValuesAreRight` | a value is exact to the nearest minor unit, a tie to the even one, at the manual rate while there is one, else at quotes of the day |
| `LoneRefreshIsFresh` | overlapping refreshes may leave an older quote; the next one that is alone replaces it |
| `OverviewEnds` | an overview returns whatever the network does |
| `MissingOnlyWithoutQuote` (fails) | an account without a value has no quote: with a base currency other than CNY it may have one |

**Fairness.**  `WF(Serve(c) \/ Receive(c) \/ Fail(c))`: a request is answered or given up, because the
transport aborts it after seven seconds (`AbortSignal.timeout`).  The provider does not have to answer,
and nobody has to publish or to ask.

### Budgets, goals and the overview (`Projections.tla`, `ProjectionsProofs.tla`)

`entries` are the journals with postings, date, link and deletion, a function on the ids that exist; `budgets` and `goals` the
versioned rows.  The sums (`sumCashFlow`, `netWorth`, `BudgetProgress`, `GoalProgress`) are operators translated
from the SQL and the queries; a rate is an integer that is stored or not.  `reading` holds each run of
`refreshFinance`, with the save before it (a budget, a goal or a manual rate): the month it was started for, its requests and its answers;
the overview waits for the network and the others do not, and `panel` is what is shown.  `undisturbed` is the refresh during
which nothing else has happened.

`CashFlowIsMovement` compares two separate computations: the change of net worth over a month is its income less its
expenses, and what transfers leave on the assets; its premises name the journals of which it is true.
`CompletionIsExact`: a goal shows 100 % exactly when it is complete, and never a basis point too many.
`QuietRefreshIsCurrent`: a refresh that meets no other change shows the stored figures of the selected month.

### Instances shared by a run (`MCWorkspaceFiles`, `MCDesktop`, `MCStatements`, `MCFinance`)

Each composes components that have no state in common.  `shown` picks the one a behaviour
explores, and the others stay as they begin: interleaving steps that cannot affect each other shows nothing and multiplies
the states.  Where components do meet (requests with backups, updates with migrations, an unlock with a
release, imports with reviews) the meeting is inside one module.

## Runs and bounds

| Run | Instance | Distinct states | Shows |
|---|---|---|---|
| `ledger` | 3 journals, 2 links, 2 texts, 2 timestamps, versions to 2, 3 operations, 2 inverses kept | 0.74 M | exact undo with equal and backward timestamps and pruned inverses; pairs and live copies |
| `merge_recorded`, `undo_blocked` | as small as needed | counterexample | two disagreements of the ledger |
| `workspace_files` | keys: 3 workspaces, 3 keys, 2 passwords; backup: 1 statement, 1 entry; maintenance: versions to 2, 1 row, 3 checkpoints | 0.32 M | no key lost, the lock asked, whole backups and restores, recoverable migrations, judged installations |
| `lock_screen`, `restore_switch` | the keys of above | counterexample | two disagreements of the screens |
| `restored_entries` | the backup of above | counterexample | a restored workspace that lists nothing |
| `desktop` | 2 tasks with capacities 1; 2 recognitions of up to 2 pages, one of an earlier process; 3 launches | 0.11 M | refinement, exact pages, one desktop; the liveness of all three |
| `statements` | import: 2 drafts of 1 file, 2 records, 2 keys, 2 edits; consent: 2 documents, 1 token, 2 setups, 2 providers, 2 secrets | 1.61 M | one whole commit per source; what is sent was reviewed |
| `import_failed` | the import of above | counterexample | a failed commit that was not |
| `finance` | rates: 3 currencies, 2 overlapping overviews, 1 day, up to 2 quotes, 1 manual rate; sums: 2 journals, 5 accounts, 2 months of 2 days, 2 refreshes, 1 save | 0.18 M | quoted rates, exact values and sums, fresh lone refreshes, an end |
| `missing_quote` | the rates of above, accounts in 2 currencies | counterexample | a value missing with its quotes stored |

A link needs two journals and is broken by a third, so three journals; a version is
reused, if ever, by an undo after an edit, so versions to 2; a retention of two
inverses is exceeded by the third operation (`MaxLog`).  Three workspaces are the current
one, a restored one and one before or between them in the directory's order.  A backup needs one statement and one entry to come
before, in and after each of its reads; a migration that fails half-way needs two versions, and the next run and an installation
checkpoints of their own.  Capacities
of one make the second task evict the first while it is under way.  Two pages can come twice, out of order or short; an
old directory lets a run clean up beside another.  The third launch is one after a release that left something behind.  Two drafts of one
file and two keys are what the rule of one commit per source is about.  Two documents and two setups are what was reviewed and what is
there by then; one token that comes back is one that was spent.  Two overviews are
enough for one to overtake the other, two quotes of USD for an answer to be old, and one of AED
for the base rate to be there or not; one day, because rows of different days never meet; the
balances and rates make ties to the even and to the odd, of either sign, and the user sets the base
currency once, to any.  The months of two days have a first, a last and a neighbouring day, and the amounts put a goal a minor unit below its
target and on it.  `MaxVersion`, `MaxLog`, `MaxRevision`, `MaxQuotes`, `MaxEntries`, `MaxRows`, `MaxEvents`,
`MaxLaunches` and `MaxSaves` are bounds of the models; everything else is the program's.

`Focused` keeps `ledger`, `statements` and `finance` to the parts of the state space the properties are about:
one journal with all texts and timestamps, two with one of them, three with one of each; keys without a review, and a review
without a failed save; sums without a refresh, and refreshes of one ledger.

`CHECK_DEADLOCK FALSE` is said in the ledger's runs, whose bounds stop it; in those of the
keys and the files, where a torn key file and a used up supply of ids and keys leave nothing to do; in
`desktop`, where a disposed coordinator, settled runs and an ended process are the end; and in `restored_entries`.
`statements`, `finance`, `import_failed` and `missing_quote` check deadlock.  Symmetry is used for
ids that are only compared; not for workspaces, which are ordered, nor with liveness.

Every property is tested against a mutant: definitions whose comment begins "A bug to
check against" are plausible mistakes, and `PROJECT.json` says which definition each
replaces and which property then fails.

## Proofs

Every theorem is of the form `Spec => []P`, or `Spec => P` for an action property and for the steps of
a refinement, and holds for all values of the constants that satisfy the assumptions of the component's
module.  Every invariant and every action property that a passing run checks is a theorem.
`FilesProofs` and `DesktopProofs` hold the proofs of two and three components, which have no state in common.

| Module | Theorem | Property |
|---|---|---|
| `LedgerProofs` | `Invariant` | `IInv` |
| | `TypeCorrect` | `TypeOK` |
| | `VersionsNameRows` | `VersionIdentifiesRow` |
| | `TransfersPaired` | `TransferLinksPaired` |
| | `AppliedOnce` | `UndoneOnce` |
| | `UndoIsExact` | `UndoRestores` |
| | `MergeIsSafe` | `MergeKeepsLiveCopy` |
| `WorkspaceKeysProofs` | `Invariant` | `IInv` |
| | `TypeCorrect` | `TypeOK` |
| | `KeysAreKept` | `KeysKept` |
| | `OneSpace` | `NoSecondSpace` |
| | `LockIsAsked` | `LockAsked` |
| `ImportBatchProofs` | `Invariant` | `IInv` |
| | `TypeCorrect` | `TypeOK` |
| | `SourceCommittedOnce` | `OneCommitPerSource` |
| | `CommitsAreWhole` | `NothingPartlyAdded` |
| | `MemoryIsCurrent` | `MemoryNotBehind` |
| | `ClicksCommitOnce` | `ClicksAnswered` |
| `FxRatesProofs` | `Invariant` | `IInv` |
| | `TypeCorrect` | `TypeOK` |
| | `StoredRatesAreQuoted` | `RatesAreQuoted` |
| | `OverviewsAreRight` | `ValuesAreRight` |
| | `LoneInvariant` | `FreshInv` |
| | `LoneRefreshesAreFresh` | `LoneRefreshIsFresh` |
| `ProjectionsProofs` | `ProjectionsInvariant` | `ProjectionsInv` |
| | `CashFlowsAreMovements` | `CashFlowIsMovement` |
| | `CompletionsAreExact` | `CompletionIsExact` |
| | `QuietRefreshesAreCurrent` | `QuietRefreshIsCurrent` |
| `DesktopProofs` (tasks) | `TaskInvariant` | `TaskInv` |
| | `TaskTypes` | `TypeOK` |
| | `TasksNotStranded` | `NoTaskStranded` |
| | `TasksEndOnce` | `OneTerminal` |
| | `TaskStartsAreNew` | `StartsAreNew` |
| | `TasksFollowLife` | `Life!Init /\ [][Life!Next]_(Life!vars)`, the safety of `TasksImplementLife` |
| `DesktopProofs` (recognition) | `RecognitionInvariant`, `RecognitionTypes` | `RecognitionInv`, `OcrTypeOK` |
| | `RecognizedPagesExact` | `PagesExact` |
| | `RecognitionLeavesNothing` | `NothingLeft` |
| | `ThreadsKeepTheirFiles` | `StoppedBeforeRemoval` |
| `DesktopProofs` (startup) | `ShellInvariant` | `ShellInv` |
| | `ShellTypeCorrect` | `ShellTypeOK` |
| | `DesktopIsOne` | `OneDesktop` |
| | `NothingHeldAfterRelease` | `ReleasedWhole` |
| | `DesktopServesItself` | `ServedByItself` |
| `FilesProofs` (backup) | `BackupInvariant` | `BackupsInv` |
| | `BackupsKeep` | `BackupKeeps` |
| | `RestoresAreWhole` | `RestoredWholeOrNot` |
| `FilesProofs` (maintenance) | `MaintenanceInvariant` | `MaintenanceInv` |
| | `MigrationsAreRecoverable` | `MigrationsRecoverable` |
| | `InstallsWhatWasJudged` | `InstalledWasJudged` |
| | `FoldersRestoreWhole` | `RestoredFolderWhole` |
| `ConsentProofs` | `ConsentInvariant` | `Inv` |
| | `SentAsReviewed` | `SentIsReviewed` |
| | `PreparedSentOnce` | `AttachmentsOnce` |
| | `KeysStay` | `SavedKeyKept` |

**Ledger** (`SentinelAssumption`, `BoundAssumption`).  None of the ledger's properties is inductive.  That a link is on two journals says nothing of
an undo which will put it back, so `IInv` speaks of the history and of every inverse still to
be applied: the history's last row of a journal is the journal (`PastEndsInJournal`), a version
names one row (`VersionIdentifiesRow`), no third journal *ever* had a link that is in use
(`LinksPairedForEver`), every inverse that is logged or about to be was made from rows of the
history and restores links pairwise (`InversesSound`), and an inverse that was applied never
matches again because a target has moved on (`AppliedSpent`).  The argument: versions only
grow and every change makes a new one, so an inverse whose expected versions match is looking
at the very rows its operation left; its snapshots are the rows before; and links move in
pairs in both directions.  The module first proves the shape of every action
(`StepShape`: which rows change, and how), then typing, then the history (`StepHistory`), then
`IInv` action by action, and takes the action properties from it.

**Keys** (`SpacesAssumption`: ids are ordered as numbers are; `NoneAssumption`, `KeyFileAssumption`:
the values that stand for nothing are none of the others).  `KeysKept` is not inductive: nothing in
it stops the next step of a running call from wrapping another key than the open workspace's, or a
restore from sharing a directory with it.  `IInv` adds `CallsTyped`, at which step a call stands
and on which screen, and `KeysSound`: while no restore has begun to write a key, the key in the key
file, in any manifest and in a running enable call is that of the one workspace ever opened, and a restore's
directory is neither that workspace's nor another restore's (`RestoresApart`).  So each step of app lock leaves that key in at least one of the two
places, and a start either finds it, or stops.  That a start which finds no directory has nothing to
lose needs the least of a set of ids (`LeastNatural`), since the code takes the first directory listed;
the library's theorem on it takes an operator, so the proof goes by the finite subsets of the
naturals, which inclusion orders well.  `LockAsked` needs types only: a manifest with a wrapped key has a
password, and no password is none.

**Import** (`RecordsAssumption`, `MaxRevisionAssumption`, `NoneAssumption`: no source is `None`).  One
commit per source is checked when the transaction begins and written when it ends; `IInv` carries the
check from one to the other (`CommitSound`: the source of the open transaction has no commit, and the
transaction's batch has a row), and ties a commit's recorded source to its draft's row
(`ImportsNameSource`), because the code compares the former and the property speaks of the latter.  No action
changes the source of a row, so neither can come apart.  `ClicksAnswered`, defined beside its proof, is about the idempotency
keys: one commit for a key, and an answer that it was committed is true.  `KeySound` carries `findByIdempotencyKey` from where it is
asked to where `markCommitted` relies on it; the key of a call between commit and activity record has its commit, which a failed record leaves for the next call with that key.

**Exchange rates** (`CurrencyAssumption`, `BalanceAssumption`: balances are integers; `PriceAssumption`,
`ManualAssumption`: prices and manual rates are positive, so that no denominator is zero;
`NoneAssumption`, `BoundAssumption`).  That stored rates are quoted says nothing of what a call will store next, so `IInv` adds
`CarriedRates`: the base currency's rate and the cached row that a call took along across its await are
still quotients of quotes of the call's own day and base, whatever happened meanwhile.  That holds because
what the provider has quoted only grows.  `IdsAreRecorded` says that an id in the table belongs to a quote
whose own row is stored; so the insert of a quote itself never meets another row's id, and only a derived rate's does.
The arithmetic is three lemmas: a quotient of quoted prices is quoted (`CrossIsQuoted`), rounding half to even gives the
nearest integer (`HalfEven`), and the nearest integer of a fraction is that of an equal one (`NearestScales`).
`LoneRefreshIsFresh` is about one call, but what other calls stored before it began is what it meets: `FreshInv` says that a
stored quote, and a row that a call has read, are the quotes that their etags name, so that a 304 stands for the row it is about, and that
what the lone call has asked for so far is not older than what was out when it began (`since`).  The last is kept because no other call is
under way to write an older one.

**Sums** (`AccountAssumption`: the accounts are finitely many; `KindAssumption`, `CalendarAssumption`, `FinanceAssumption`).  `ProjectionsInv` says that the entries are
finitely many, each balanced, also after its category or its date was changed; that goals' accounts are accounts; and that an undisturbed refresh has read what is stored.
The rest is about sums over finite sets.  The library's induction takes an operator; what is used instead is first-order: of the subsets for which a
claim fails there is a minimal one (`MinimalSubset`, from well-foundedness), and the claim for it with one element less gives it for itself.  So
the fold of the model is a sum that does not depend on the order (`SumRemove`), is additive (`SumUnion`, `SumAdd`), may be taken group by group
(`SumByGroup`) and under other names (`SumRenamed`).  With them: any entries' lines come to zero (`EntriesTotal`); net worth, a sum over accounts of sums over
lines, moves by the month's lines on assets (`NetWorthMoves`); those of no transfer are the entries' other lines with the other sign, which is the
cash flow (`CashFlowIs`).  `CompletionExact` is the arithmetic of the quotient that is cut.

**Tasks** (`CapacityAssumption`, `ThrownSendsAssumption`).  Each of the properties needs the others: a start that finds traces of its task would strand it,
and a second last message would end a task that the worker still has.  `TaskInv` says of each task where it is: not posted, and known to nobody; requested, and then
its start is its first request and finds nothing; waiting; or answered, and then the answer is the last of its responses.
The requests and responses are sequences that are appended to, cut and consumed, so the lemmas are about what `Append`, `Tail` and a prefix keep.
`TasksFollowLife` takes every step to a step of `TaskLife` or to none (`StepIsLife`).

**Recognition** (`OcrAssumption`).  `RecognitionInv` says of each run which of its processes may live at its stage, and that its pages are
pushed at most once: a page is taken only when it is wanted and not there, and the run completes only when none is missing.  Runs meet only in
directories, which a run removes of others only when they have ended or are dead.

**Desktop** (`ShellAssumption`).  `OneDesktop` needs that generations come in order: `ShellInv` says that none after the latest has begun, that only
the latest may be active and is then the one remembered, and that a window or a worker belongs to an active one (`Ordered`).  That
a start finds no handler in its way, or fails, gives `Registrations`: who serves a group has come to its registration.  All of it holds
until the process is over, for a failed start leaves what it likes behind.

**Backup** (`MaxEntriesAssumption`).  What a finished backup has must be carried from the call: `ReadingSound` says that a backup under way was asked for when
no more was committed than now, that its copy, if not torn, has at least that, and that it has listed the statement of every draft of then.  The last
holds because a statement is stored before its draft is saved and objects are never removed (`drafts \subseteq objects`), so a later
list has all of them.  `Sound` says the same of a sealed package.

**Migrations and updates** (`LastVersionAssumption`, `MaxRowsAssumption`, `NilAssumption`: `Nil` is no number and no copy).  `DatabaseInv` carries a run's checkpoint
from the moment it is whole (`Kept`): the names of checkpoints are fresh, so no step but a commit changes a copy (`CopiesStay`),
a commit changes only copies under way (`CopiesRewritten`), and a whole one stays.  While a run is at its checkpoint nothing commits, so
the copy is the database that the run then replaces.  `JudgedInv` follows the version from a check to the
updater, `CopiedInv` the copy of an installation, `FolderInv` the stages of a folder's files.

**LLM fallback** (no assumption is needed).  `CallSound` says what a call that has passed the check still has when it posts: its payload is the
reviewed one and its token is unspent, since a token that is prepared is fresh and one that is spent is dropped.  For the keys, `SavingSound` says what
the running call is about to do: it drops only what its own provider's settings name, stores nothing that any settings name, and will name either what it
stores or what is named.  Since no two providers share a key, the drop takes nobody else's.

Only model-checked: liveness under fairness and ENABLED, which this prover does not reason about, hence `RunSettles`, `LaunchSettles`, `OverviewEnds`
and of `TasksImplementLife` the fairness of `TaskLife`.  Of the keys, what holds after a restore has begun to write a key is
not claimed: the two runs with counterexamples show why.  The stronger inductive invariants are proved and no run lists them: what matters
are the properties that follow.  No recursive operator is used anywhere.

## Disagreements with what the program says

Seven statements of the user interface (`renderer/locales/en.json`) are not what the code does.

1. *"The duplicate can be restored from activity history"* (142): not when the process dies, or the
   append fails, between the merge and its record (`merge_recorded`).
2. *"cannot be undone directly because a later dependency may exist"* (90): after the later edit was
   undone nothing depends on the earlier one, and it still cannot be undone, since the undo raised the
   version (`undo_blocked`).
3. *"App Lock is enabled ..."*, *"Unlock your local financial space"* (10, 11): after a crash between
   the pending and the enabled state no password unlocks (`lock_screen`).
4. *"restart to switch to it"* (32): the restart looks into the first directory listed, with the
   restored workspace's key (`restore_switch`).
5. *"Nothing was partially added"* (52): all of it may have been (`import_failed`).
6. *"No FX quote is available"* (63): with a base currency other than CNY, which the default AED is, a rate derived from
   stored quotes takes the id of the first, which is in use, and is not stored (`missing_quote`).
7. *"A new space was restored with {{count}} ledger entries"* (32): the rows keep the old workspace's id, every query asks for
   the new one, and the count is of all rows; the new workspace lists none of them (`restored_entries`,
   `main/workspace/workspace-session.ts:84`).

## Not modelled

* **Parsers** (`importer/csv`, `excel`, text extraction from PDF): text processing without state.
* **The renderer's layout and forms**: what it may send is the environment of the modules; its refreshes and the review of a draft are modelled.
* **Credential vaults, preload, IPC validation, the app protocol and window security, contracts**: input, output and forwarding, without state of their own.
* **Cryptography**: a key opens what was encrypted with it and nothing else; digests tell payloads apart.
* **The recovery service** (`storage/recovery`) only reads, and which checkpoint it takes for the latest is decided by file names.
* **Migrations and folder backups** are modelled as they are exported and tested, and so is the updater; the app itself calls none of the three
  yet, and the maker of an installation's checkpoint, which the updater is given, is none of the repository's.
* **File selection tokens**, and the composition of an import with the ledger's undo of it: in each module the other's part is an action of its environment.
* **The statements of a restored workspace** stay encrypted with the key, and for the id, of the workspace that wrote them
  (`backup-service.ts:160` rekeys the database only, `encrypted-source-object-store.ts` then refuses them): `Backup` says of them which are in a package, not that they can be read.
* **Branches nothing reaches**: the settings' `clearApiKey` (`llm-settings-service.ts:14`), which the renderer never sends; a rate answer
  without the day and code that were asked for (`finance-service.ts:132`, `:151`), since the provider answers with just those.
* **The label of stale rates** and automatic rates switched off, which nothing in the app does; the account tree and money's checks of its input.
* **Build scripts and the SQLCipher spike**: tooling.
