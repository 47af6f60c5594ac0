------------------------------- MODULE Ledger -------------------------------
(***************************************************************************)
(* The ledger service, the activity log and undo of the desktop app:       *)
(*                                                                         *)
(*   apps/desktop/src/main/ledger/ledger-service.ts      (requests)        *)
(*   apps/desktop/src/main/activity/activity-service.ts  (undo)            *)
(*   packages/storage/src/activity/sql-activity-log.ts   (the log)         *)
(*   packages/storage/src/repositories/sql-ledger-repository.ts            *)
(*                                                                         *)
(* Every request first changes the journals in one SQL transaction and     *)
(* then, in a statement of its own, appends an operation with the inverse  *)
(* that undoes it.  Undo selects an operation, applies its inverse in one  *)
(* transaction, marks the operation undone and appends a marker.  SQL      *)
(* calls are synchronous, so no other request runs between the steps of    *)
(* one; the process may die, or a statement fail, between any two.         *)
(***************************************************************************)
EXTENDS Integers, Sequences, FiniteSets

CONSTANTS
    Journals,     \* ids a journal may get (crypto.randomUUID)
    Texts,        \* a journal's date, description and amounts, as one value
    Categories,   \* the account of a journal's category posting
    Links,        \* transfer link ids (crypto.randomUUID in the renderer)
    NoLink,       \* transferLinkId = null
    NoEntity,     \* entityId of an operation that is about no journal
    Clock,        \* timestamps new Date() may return; it may repeat, or step back
    MaxInverses,  \* DEFAULT_INVERSE_RETENTION.maxOperations
    MaxVersion,   \* bound: no journal goes beyond this version
    MaxLog        \* bound: no request but undo is handled once this many are recorded

ASSUME SentinelAssumption == NoLink \notin Links /\ NoEntity \notin Journals
ASSUME BoundAssumption ==
    Clock \subseteq Nat /\ MaxInverses \in Nat /\ MaxVersion \in Nat /\ MaxLog \in Nat

VARIABLES
    journal,  \* journal_entry with its postings: a function on the ids that exist
    log,      \* activity_operation in rowid order
    pending,  \* what the running request has still to do after its transaction
    commits,  \* import_commit: the journal ids of each committed batch
    past,     \* history: every <<id, row>> the ledger has ever held
    applied   \* history: the operations whose inverse has been applied

vars == <<journal, log, pending, commits, past, applied>>

-----------------------------------------------------------------------------
(* Rows, inverses and operations *)

Row == [version : Nat, text : Texts, category : Categories,
        deleted : BOOLEAN, link : Links \cup {NoLink}]

InverseKinds == {"none", "replace-journals", "restore-journals",
                 "soft-delete-journals", "set-transfer-link"}

SnapshotKinds == {"replace-journals", "restore-journals"}

\* f is a function on some of the journals.
OnJournals(f, S) == DOMAIN f \subseteq Journals /\ f \in [DOMAIN f -> S]

\* The inverse of an operation; "none" stands for inverse_json NULL.  Its targets
\* are the domain of "expected"; the snapshot kinds hold a row for each of them.
IsInverse(inv) ==
    /\ inv \in [kind : InverseKinds, expected : {inv.expected},
                snapshots : {inv.snapshots}, link : Links \cup {NoLink}]
    /\ OnJournals(inv.expected, Nat)
    /\ OnJournals(inv.snapshots, Row)
    /\ inv.kind \in SnapshotKinds => DOMAIN inv.snapshots = DOMAIN inv.expected

\* The function with no arguments
Empty == [x \in {} |-> 0]

NoInverse == [kind |-> "none", expected |-> Empty, snapshots |-> Empty, link |-> NoLink]

OperationKinds == {"edit", "classification", "merge", "delete", "bulk-import"}

IsOperation(op) ==
    /\ op \in [kind : OperationKinds, entity : Journals \cup {NoEntity}, at : Clock,
               undoable : BOOLEAN, undone : BOOLEAN, inverse : {op.inverse}]
    /\ IsInverse(op.inverse)

\* activityInverseTargetIds
activityInverseTargetIds(inv) == DOMAIN inv.expected

Idle == [stage |-> "idle"]

-----------------------------------------------------------------------------
(* The ledger's transactions *)

\* replaceJournal for every journal of "next", in one transaction.
ReplaceJournals(next) ==
    /\ \A j \in DOMAIN next : next[j].version <= MaxVersion
    /\ journal' = [j \in DOMAIN journal |->
                     IF j \in DOMAIN next THEN next[j] ELSE journal[j]]

\* The history variable: every request ends with the rows it left behind.
Remember == past' = past \cup {<<j, journal'[j]>> : j \in DOMAIN journal'}

\* Rows the renderer has been given for j: ledger.list hides deleted journals.
Listed(j) == {seen \in {p[2] : p \in {q \in past : q[1] = j}} : ~seen.deleted}

\* expectedVersion of a request: the version of a row its sender was given.
CurrentVersion(j) == \E seen \in Listed(j) : seen.version = journal[j].version

\* What a request leaves for record(): the operation it will append.
Record(kind, entity, inverse) ==
    pending' = [stage |-> "record", kind |-> kind, entity |-> entity, inverse |-> inverse]

\* { kind: "replace-journals" | "restore-journals", snapshots: [journalSnapshot(previous)] }
Snapshot(kind, j) ==
    [kind |-> kind,
     expected |-> [i \in {j} |-> journal[i].version + 1],
     snapshots |-> [i \in {j} |-> journal[i]],
     link |-> NoLink]

\* { kind: "set-transfer-link", journalIds, linkId }
SetLink(j, k, link) ==
    [kind |-> "set-transfer-link",
     expected |-> [i \in {j, k} |-> journal[i].version + 1],
     snapshots |-> Empty,
     link |-> link]

\* { kind: "soft-delete-journals", journalIds, expectedVersions: all 0 }
SoftDelete(ids) ==
    [kind |-> "soft-delete-journals", expected |-> [i \in ids |-> 0],
     snapshots |-> Empty, link |-> NoLink]

Bumped(row) == [row EXCEPT !.version = row.version + 1]

\* A request is handled when no other is; all but undo within the bound on the log.
Ready == pending = Idle /\ Len(log) < MaxLog

-----------------------------------------------------------------------------
(* Requests of the renderer *)

\* DesktopImportController.commit: new journals and the commit row in one transaction.
CommitImport(ids) ==
    /\ Ready
    /\ ids # {} /\ ids \cap DOMAIN journal = {}
    /\ \E text \in Texts, category \in Categories :
          journal' = [j \in DOMAIN journal \cup ids |->
                        IF j \in ids
                        THEN [version |-> 0, text |-> text, category |-> category,
                              deleted |-> FALSE, link |-> NoLink]
                        ELSE journal[j]]
    /\ commits' = commits \cup {ids}
    /\ Record("bulk-import", NoEntity, SoftDelete(ids))
    /\ Remember
    /\ UNCHANGED <<log, applied>>

\* A commit repeated with its idempotency key finds the stored result, changes no
\* journal, and records its operation again.
RepeatCommit(ids) ==
    /\ Ready
    /\ ids \in commits
    /\ Record("bulk-import", NoEntity, SoftDelete(ids))
    /\ UNCHANGED <<journal, log, commits, past, applied>>

DeleteJournal(j) ==
    /\ Ready
    /\ j \in DOMAIN journal /\ CurrentVersion(j)
    /\ ReplaceJournals([i \in {j} |-> [Bumped(journal[i]) EXCEPT !.deleted = TRUE]])
    /\ Record("delete", j, Snapshot("restore-journals", j))
    /\ Remember
    /\ UNCHANGED <<log, commits, applied>>

UpdateJournal(j) ==
    /\ Ready
    /\ j \in DOMAIN journal /\ CurrentVersion(j)
    /\ \E text \in Texts, category \in Categories :
          ReplaceJournals([i \in {j} |->
             [Bumped(journal[i]) EXCEPT !.text = text, !.category = category]])
    /\ Record("edit", j, Snapshot("replace-journals", j))
    /\ Remember
    /\ UNCHANGED <<log, commits, applied>>

ClassifyJournal(j) ==
    /\ Ready
    /\ j \in DOMAIN journal /\ CurrentVersion(j)
    /\ \E category \in Categories :
          ReplaceJournals([i \in {j} |-> [Bumped(journal[i]) EXCEPT !.category = category]])
    /\ Record("classification", j, Snapshot("replace-journals", j))
    /\ Remember
    /\ UNCHANGED <<log, commits, applied>>

\* The renderer offers to merge two listed rows that agree and are not linked.
MergeOffered(survivor, duplicate) ==
    survivor.text = duplicate.text /\ survivor.link = NoLink /\ duplicate.link = NoLink

\* merge's checks: both versions, then the duplicate alone.
MergeForgetsSurvivorVersion(j, k, survivor, duplicate) ==
    /\ duplicate.version = journal[k].version
    /\ ~journal[k].deleted
    /\ journal[k].link = NoLink

MergeAccepted(j, k, survivor, duplicate) ==
    /\ survivor.version = journal[j].version
    /\ duplicate.version = journal[k].version
    /\ ~journal[k].deleted
    /\ journal[k].link = NoLink

MergeJournals(j, k) ==
    /\ Ready
    /\ j \in DOMAIN journal /\ k \in DOMAIN journal /\ j # k
    /\ \E survivor \in Listed(j), duplicate \in Listed(k) :
          MergeOffered(survivor, duplicate) /\ MergeAccepted(j, k, survivor, duplicate)
    /\ ReplaceJournals([i \in {k} |-> [Bumped(journal[i]) EXCEPT !.deleted = TRUE]])
    /\ Record("merge", k, Snapshot("restore-journals", k))
    /\ Remember
    /\ UNCHANGED <<log, commits, applied>>

\* linkTransfer's checks (packages/domain/src/transfers.ts)
LinkableIgnoringRight(j, k) == j # k /\ journal[j].link = NoLink

Linkable(j, k) == j # k /\ journal[j].link = NoLink /\ journal[k].link = NoLink

\* A suggestion names two journals that were once listed unlinked; the renderer draws a
\* fresh link id.  No version is sent: the handler reads the rows it replaces.
LinkTransfer(j, k, link) ==
    /\ Ready
    /\ j \in DOMAIN journal /\ k \in DOMAIN journal
    /\ \A i \in {j, k} : \E seen \in Listed(i) : seen.link = NoLink
    /\ \A p \in past : p[2].link # link
    /\ Linkable(j, k)
    /\ ReplaceJournals([i \in {j, k} |-> [Bumped(journal[i]) EXCEPT !.link = link]])
    /\ Record("edit", j, SetLink(j, k, NoLink))
    /\ Remember
    /\ UNCHANGED <<log, commits, applied>>

\* The renderer offers to unlink two rows listed with the same link.  With j = k the
\* second replaceJournal meets the version the first one wrote and fails.
UnlinkTransfer(j, k) ==
    /\ Ready
    /\ j \in DOMAIN journal /\ k \in DOMAIN journal /\ j # k
    /\ \E l \in Listed(j), r \in Listed(k) : l.link # NoLink /\ l.link = r.link
    /\ journal[j].link # NoLink /\ journal[j].link = journal[k].link
    /\ ReplaceJournals([i \in {j, k} |-> [Bumped(journal[i]) EXCEPT !.link = NoLink]])
    /\ Record("edit", j, SetLink(j, k, journal[j].link))
    /\ Remember
    /\ UNCHANGED <<log, commits, applied>>

-----------------------------------------------------------------------------
(* The activity log *)

HasInverse(l, i) == l[i].inverse.kind # "none"

\* ORDER BY created_at DESC, rowid DESC: row i comes before row k.
Before(l, i, k) == l[i].at > l[k].at \/ (l[i].at = l[k].at /\ i > k)

\* The rows with an inverse beyond the newest MaxInverses of them.
Expired(l) ==
    {i \in 1..Len(l) : /\ HasInverse(l, i)
                       /\ Cardinality({k \in 1..Len(l) : HasInverse(l, k) /\ Before(l, k, i)})
                            >= MaxInverses}

\* A bug to check against: the pruned rows are still offered for undo.
PruneInverseOnly(l, rows) ==
    [i \in 1..Len(l) |-> IF i \in rows THEN [l[i] EXCEPT !.inverse = NoInverse] ELSE l[i]]

\* UPDATE activity_operation SET inverse_json = NULL, undoable = 0, for each of the rows
Prune(l, rows) ==
    [i \in 1..Len(l) |-> IF i \in rows
                         THEN [l[i] EXCEPT !.inverse = NoInverse, !.undoable = FALSE]
                         ELSE l[i]]

Recorded(at) ==
    [kind |-> pending.kind, entity |-> pending.entity, at |-> at,
     undoable |-> TRUE, undone |-> FALSE, inverse |-> pending.inverse]

\* record(): the operation is appended and the inverses beyond the retention dropped.
RecordOperation ==
    /\ pending.stage = "record"
    /\ \E at \in Clock :
          LET l == Append(log, Recorded(at)) IN log' = Prune(l, Expired(l))
    /\ pending' = Idle
    /\ UNCHANGED <<journal, commits, past, applied>>

\* The rows whose UPDATEs may be done, newest first, when no more are
PruneBegun(l) ==
    {rows \in SUBSET Expired(l) :
       \A k \in rows, i \in Expired(l) : Before(l, i, k) => i \in rows}

\* The process dies, or a statement fails, after the INSERT and before or between the
\* UPDATEs.
CrashInPrune ==
    /\ pending.stage = "record"
    /\ \E at \in Clock :
          LET l == Append(log, Recorded(at))
          IN  \E rows \in PruneBegun(l) : log' = Prune(l, rows)
    /\ pending' = Idle
    /\ UNCHANGED <<journal, commits, past, applied>>

\* The process dies, or a statement fails, before the next step of the request.
Crash ==
    /\ pending # Idle
    /\ pending' = Idle
    /\ UNCHANGED <<journal, log, commits, past, applied>>

-----------------------------------------------------------------------------
(* Undo *)

\* A later operation, not undone, is about one of i's journals: findForUndo then
\* returns nothing and latestForUndo looks further.
HasDependent(i) ==
    LET targets == activityInverseTargetIds(log[i].inverse)
    IN  \E k \in 1..Len(log) :
           /\ log[k].at > log[i].at
           /\ ~log[k].undone
           /\ \/ log[k].entity \in targets
              \/ activityInverseTargetIds(log[k].inverse) \cap targets # {}

\* The operations an undo request gets past all checks before the transaction.
Undoable == {i \in 1..Len(log) : /\ log[i].undoable /\ ~log[i].undone
                                 /\ HasInverse(log, i) /\ ~HasDependent(i)}

\* latestForUndo, with the cutoff of the retention in days at "cutoff".
latestForUndo(cutoff) ==
    LET candidates == {i \in 1..Len(log) : /\ log[i].undoable /\ ~log[i].undone
                                           /\ HasInverse(log, i) /\ log[i].at >= cutoff}
        retained == {i \in candidates :
                       Cardinality({k \in candidates : Before(log, k, i)}) < MaxInverses}
        free == {i \in retained : ~HasDependent(i)}
    IN  {i \in free : \A k \in free \ {i} : Before(log, i, k)}

\* A bug to check against: the snapshot comes back with the version it was taken at.
KeepSnapshotVersion(snapshot, version) == snapshot

applySnapshotVersion(snapshot, version) == [snapshot EXCEPT !.version = version]

\* A bug to check against: only undoneAt protects from applying an inverse again.
TargetsExist(inv) == \A j \in DOMAIN inv.expected : j \in DOMAIN journal

\* UNDO_VERSION_CONFLICT otherwise
VersionsMatch(inv) ==
    \A j \in DOMAIN inv.expected :
        j \in DOMAIN journal /\ journal[j].version = inv.expected[j]

\* The row that undoing inv leaves for its target j.
Inverted(inv, j) ==
    IF inv.kind \in SnapshotKinds
    THEN applySnapshotVersion(inv.snapshots[j], journal[j].version + 1)
    ELSE IF inv.kind = "soft-delete-journals"
    THEN [Bumped(journal[j]) EXCEPT !.deleted = TRUE]
    ELSE [Bumped(journal[j]) EXCEPT !.link = inv.link]

\* applyInverse: one transaction over all targets.
ApplyInverse(i) ==
    LET inv == log[i].inverse
    IN  /\ pending = Idle
        /\ VersionsMatch(inv)
        /\ ReplaceJournals([j \in DOMAIN inv.expected |-> Inverted(inv, j)])
        /\ pending' = [stage |-> "mark", operation |-> i]
        /\ applied' = applied \cup {i}
        /\ Remember
        /\ UNCHANGED <<log, commits>>

\* undo({ operationId })
UndoOperation(i) == i \in Undoable /\ ApplyInverse(i)

\* undo({})
UndoLatest == \E cutoff \in Clock : \E i \in latestForUndo(cutoff) : ApplyInverse(i)

MarkUndone ==
    /\ pending.stage = "mark"
    /\ log' = [log EXCEPT ![pending.operation].undone = TRUE]
    /\ pending' = [stage |-> "marker"]
    /\ UNCHANGED <<journal, commits, past, applied>>

\* operationRecord: the marker is an edit of an "activity-operation" without an inverse.
AppendMarker ==
    /\ pending.stage = "marker"
    /\ \E at \in Clock :
          log' = Append(log, [kind |-> "edit", entity |-> NoEntity, at |-> at,
                              undoable |-> FALSE, undone |-> FALSE, inverse |-> NoInverse])
    /\ pending' = Idle
    /\ UNCHANGED <<journal, commits, past, applied>>

-----------------------------------------------------------------------------

Init ==
    /\ journal = Empty
    /\ log = <<>>
    /\ pending = Idle
    /\ commits = {}
    /\ past = {}
    /\ applied = {}

Next ==
    \/ \E ids \in SUBSET Journals : CommitImport(ids) \/ RepeatCommit(ids)
    \/ \E j \in Journals : DeleteJournal(j) \/ UpdateJournal(j) \/ ClassifyJournal(j)
    \/ \E j, k \in Journals : MergeJournals(j, k) \/ UnlinkTransfer(j, k)
    \/ \E j, k \in Journals, link \in Links : LinkTransfer(j, k, link)
    \/ \E i \in 1..Len(log) : UndoOperation(i)
    \/ UndoLatest
    \/ RecordOperation \/ CrashInPrune \/ MarkUndone \/ AppendMarker \/ Crash

Spec == Init /\ [][Next]_vars

-----------------------------------------------------------------------------
(* Properties *)

IsPending(p) ==
    \/ p = Idle
    \/ p = [stage |-> "marker"]
    \/ p \in [stage : {"mark"}, operation : 1..Len(log)]
    \/ /\ p \in [stage : {"record"}, kind : OperationKinds,
                 entity : Journals \cup {NoEntity}, inverse : {p.inverse}]
       /\ IsInverse(p.inverse) /\ p.inverse.kind # "none"

\* Every variable has its type; in particular an operation is offered for undo exactly
\* when its inverse is still there.
TypeOK ==
    /\ OnJournals(journal, Row)
    /\ log \in Seq({log[i] : i \in 1..Len(log)})
    /\ \A i \in 1..Len(log) :
          IsOperation(log[i]) /\ (log[i].undoable <=> HasInverse(log, i))
    /\ IsPending(pending)
    /\ commits \subseteq (SUBSET DOMAIN journal) \ {{}}
    /\ past \subseteq Journals \X Row
    /\ applied \subseteq 1..Len(log)

\* A transfer is a pair: a link id is on two journals or on none, whatever is edited,
\* deleted, merged, restored or undone, and wherever the process dies.
TransferLinksPaired ==
    \A j \in DOMAIN journal :
        journal[j].link # NoLink =>
            \E k \in DOMAIN journal \ {j} :
                /\ journal[k].link = journal[j].link
                /\ \A i \in DOMAIN journal : journal[i].link = journal[j].link => i \in {j, k}

\* A version number names one content of a journal for ever, so a request or an inverse
\* that names the current version was made from the current row (no ABA through undo).
VersionIdentifiesRow ==
    \A p, q \in past : p[1] = q[1] /\ p[2].version = q[2].version => p = q

\* Undo overwrites nothing but its own operation's result and brings back, in every
\* field, the row that was there before the operation; the journals of an import, which
\* had no row, end up deleted.
UndoneRow(j, inv) ==
    IF inv.kind = "soft-delete-journals"
    THEN journal'[j].deleted
    ELSE \E p \in past : /\ p[1] = j /\ p[2].version + 1 = inv.expected[j]
                         /\ journal'[j] = [p[2] EXCEPT !.version = inv.expected[j] + 1]

UndoBegins == pending'.stage = "mark" /\ pending.stage = "idle"

UndoRestores ==
    [][UndoBegins => LET inv == log[pending'.operation].inverse
                     IN  \A j \in DOMAIN inv.expected : UndoneRow(j, inv)]_vars

\* An operation is undone at most once, even when the process dies after the inverse was
\* applied and before the operation was marked.
UndoneOnce == [][UndoBegins => pending'.operation \notin applied]_vars

\* A merge leaves the money in the books: when it deletes a duplicate, another journal
\* with the same date, description and amounts is live, though the request may be stale.
MergeKeepsLiveCopy ==
    [][pending'.stage = "record" /\ pending.stage = "idle" /\ pending'.kind = "merge" =>
         \E j \in DOMAIN journal' \ {pending'.entity} :
            /\ ~journal'[j].deleted
            /\ journal'[j].text = journal'[pending'.entity].text]_vars

-----------------------------------------------------------------------------
(* The inductive invariant: what the proofs need of the history and the inverses *)

\* The history holds the current row of every journal, and it is the last one.
PastEndsInJournal ==
    /\ \A j \in DOMAIN journal : <<j, journal[j]>> \in past
    /\ \A p \in past : /\ p[1] \in DOMAIN journal
                       /\ p[2].version <= journal[p[1]].version
                       /\ p[2].version = journal[p[1]].version => p[2] = journal[p[1]]

\* The journals that have ever carried a link id
Holders(link) == {j \in Journals : \E p \in past : p[1] = j /\ p[2].link = link}

\* Two journals carry a link id, and no third one ever did.
LinksPairedForEver ==
    \A link \in Links : \A j \in DOMAIN journal :
        journal[j].link = link =>
            \E k \in DOMAIN journal \ {j} :
                journal[k].link = link /\ Holders(link) \subseteq {j, k}

PastRows == {p[2] : p \in past}

\* Row r is the one the operation of inv replaced for its target j, row s its result.
Replaced(inv, j, r) == <<j, r>> \in past /\ r.version + 1 = inv.expected[j]
Result(inv, j, s) == <<j, s>> \in past /\ s.version = inv.expected[j]

SnapshotSound(inv) ==
    \A j \in DOMAIN inv.expected :
        /\ Replaced(inv, j, inv.snapshots[j])
        /\ \A s \in PastRows : Result(inv, j, s) => s.link = inv.snapshots[j].link

SetLinkSound(inv) ==
    /\ \E j, k \in Journals : j # k /\ DOMAIN inv.expected = {j, k}
    /\ \A j \in DOMAIN inv.expected :
          \E r \in PastRows : /\ Replaced(inv, j, r) /\ r.link = inv.link
                         /\ \A s \in PastRows : Result(inv, j, s) =>
                               s = [Bumped(r) EXCEPT !.link = s.link]
    /\ inv.link # NoLink => /\ Holders(inv.link) \subseteq DOMAIN inv.expected
                            /\ \A j \in DOMAIN inv.expected, s \in PastRows :
                                  Result(inv, j, s) => s.link = NoLink
    /\ inv.link = NoLink => \E link \in Links :
                               \A j \in DOMAIN inv.expected, s \in PastRows :
                                  Result(inv, j, s) => s.link = link

InverseSound(inv) ==
    /\ DOMAIN inv.expected # {}
    /\ \A j \in DOMAIN inv.expected :
          j \in DOMAIN journal /\ inv.expected[j] <= journal[j].version
    /\ inv.kind \in SnapshotKinds => SnapshotSound(inv)
    /\ inv.kind = "set-transfer-link" => SetLinkSound(inv)

\* The inverses that are logged, or about to be
LiveInverses == {log[i].inverse : i \in {k \in 1..Len(log) : HasInverse(log, k)}}
                  \cup {p.inverse : p \in {q \in {pending} : q.stage = "record"}}

InversesSound == \A inv \in LiveInverses : InverseSound(inv)

\* An applied inverse can never apply again: one of its targets has moved on.
AppliedSpent ==
    \A i \in applied : HasInverse(log, i) =>
        \E j \in DOMAIN log[i].inverse.expected :
            journal[j].version > log[i].inverse.expected[j]

IInv ==
    /\ TypeOK
    /\ PastEndsInJournal
    /\ VersionIdentifiesRow
    /\ LinksPairedForEver
    /\ InversesSound
    /\ AppliedSpent

=============================================================================
