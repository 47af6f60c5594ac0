---------------------------- MODULE ImportBatch ----------------------------
(***************************************************************************)
(* From a statement file to journals: the drafts and their commit.         *)
(*                                                                         *)
(*   apps/desktop/src/main/import/import-controller.ts  (the IPC calls)    *)
(*   apps/desktop/src/main/import/in-memory-import-controller.ts           *)
(*                                            (MemoryReviewService)        *)
(*   packages/storage/src/import/sql-import-draft-store.ts                 *)
(*   packages/storage/src/import/sql-import-repository.ts                  *)
(*   packages/application/src/import/commit-import-batch.ts                *)
(*                                                                         *)
(* A draft is kept twice, in memory and in a row of import_batch.  Reading *)
(* a file takes turns of the event loop; every other call runs in one, but *)
(* its statements may fail, and the process may die between them.          *)
(***************************************************************************)
EXTENDS Integers, FiniteSets

CONSTANTS
    Batches,      \* batch ids (randomUUID)
    Sources,      \* contents of statement files, as their SHA-256 tells them apart
    Records,      \* raw records of a statement
    Keys,         \* idempotency keys, one for every click on commit
    MaxRevision,  \* bound of the model: how often a draft is edited
    None          \* no source

ASSUME RecordsAssumption == Records # {} /\ IsFiniteSet(Records)
ASSUME MaxRevisionAssumption == MaxRevision \in Nat
ASSUME NoneAssumption == None \notin Sources

VARIABLES
    reading,   \* the files that createDraft calls are reading
    objects,   \* the source object store
    row,       \* import_batch: its columns, and the draft in draft_json
    drafts,    \* MemoryReviewService.drafts
    imported,  \* import_commit
    journals,  \* the ledger's journals, by commit and raw record
    commit,    \* the running commit call
    replies    \* history: what the commit with a key was answered

vars == <<reading, objects, row, drafts, imported, journals, commit, replies>>

stored == <<objects, row, imported, journals>>

Draft == [status : {"needs_ocr", "needs_review", "cancelled"},
          revision : 0..MaxRevision, candidates : SUBSET Records]

Row == [source : Sources, state : {"needs_ocr", "needs_review", "cancelled", "committed"},
        revision : 0..MaxRevision, draft : Draft]

Idle == [stage |-> "idle"]

With(f, x, y) == [z \in DOMAIN f \cup {x} |-> IF z = x THEN y ELSE f[z]]

-----------------------------------------------------------------------------
(* Drafts *)

\* createDraft: the bytes are put to the object store, then parsed.
PutSource(s) ==
    /\ commit = Idle
    /\ s \notin reading
    /\ reading' = reading \cup {s}
    /\ objects' = objects \cup {s}
    /\ UNCHANGED <<row, drafts, imported, journals, commit, replies>>

\* The parser has rejected the file: the object stays.
ReadFails(s) ==
    /\ commit = Idle
    /\ s \in reading
    /\ reading' = reading \ {s}
    /\ UNCHANGED <<stored, drafts, commit, replies>>

\* A new draft waits for a review of what was read, or for recognition.
NewDraft(status) ==
    [status |-> status, revision |-> 0,
     candidates |-> IF status = "needs_ocr" THEN {} ELSE Records]

\* start: the memory first, then the row.  When the insert fails, the call rejects: the
\* draft stays in memory and nobody has its id.
CreateDraft(b, s) ==
    /\ commit = Idle
    /\ s \in reading /\ b \notin DOMAIN row \cup DOMAIN drafts
    /\ \E status \in {"needs_ocr", "needs_review"} :
          /\ drafts' = With(drafts, b, NewDraft(status))
          /\ \/ row' = With(row, b, [source |-> s, state |-> status, revision |-> 0,
                                     draft |-> NewDraft(status)])
             \/ UNCHANGED row
    /\ reading' = reading \ {s}
    /\ UNCHANGED <<objects, imported, journals, commit, replies>>

\* MemoryReviewService.get: the memory's draft, or else the row's
Current(b) == IF b \in DOMAIN drafts THEN drafts[b] ELSE row[b].draft

GetDraft(b) ==
    /\ commit = Idle
    /\ b \in DOMAIN row
    /\ drafts' = With(drafts, b, Current(b))
    /\ UNCHANGED <<reading, stored, commit, replies>>

Written(b, draft) ==
    row' = [row EXCEPT ![b].state = draft.status, ![b].revision = draft.revision,
                       ![b].draft = draft]

\* A bug to check against: only the row is saved, when there is one.
SavePastMemory(b, draft) ==
    /\ drafts' = With(drafts, b, Current(b))
    /\ Written(b, draft) \/ UNCHANGED row

\* save: the memory first, then the row, unless its revision is not the expected one, or
\* the statement fails.
Save(b, draft) ==
    /\ drafts' = With(drafts, b, draft)
    /\ \/ row[b].revision = draft.revision - 1 /\ Written(b, draft)
       \/ UNCHANGED row

\* The next revision of b, which the user asks for by the current one
Revise(b, status, candidates) ==
    /\ commit = Idle
    /\ Current(b).revision < MaxRevision
    /\ Save(b, [status |-> status, revision |-> Current(b).revision + 1,
                candidates |-> candidates])
    /\ UNCHANGED <<reading, objects, imported, journals, commit, replies>>

UpdateCandidate(b) ==
    /\ b \in DOMAIN row /\ Current(b).candidates # {}
    /\ Revise(b, Current(b).status, Current(b).candidates)

SkipCandidate(b, record) ==
    /\ b \in DOMAIN row /\ record \in Current(b).candidates
    /\ Revise(b, Current(b).status, Current(b).candidates \ {record})

CancelDraft(b) ==
    /\ b \in DOMAIN row
    /\ Revise(b, "cancelled", Current(b).candidates)

-----------------------------------------------------------------------------
(* Commit *)

ImportOf(key) == {i \in imported : i.key = key}

\* commit: a key that was committed answers as it did, a source that was is refused.
RepeatCommit(key) ==
    /\ commit = Idle
    /\ ImportOf(key) # {}
    /\ commit' = [stage |-> "append", key |-> key]
    /\ UNCHANGED <<reading, stored, drafts, replies>>

SourceImported(s) == \E i \in imported : i.source = s

RefuseSource(b, key) ==
    /\ commit = Idle
    /\ b \in DOMAIN row /\ ImportOf(key) = {} /\ SourceImported(row[b].source)
    /\ replies' = With(replies, key, "duplicate")
    /\ UNCHANGED <<reading, stored, drafts, commit>>

\* The renderer sends the candidates it was shown: those of the draft as it is, or as it
\* was when it was made.
BeginCommit(b, key) ==
    /\ commit = Idle
    /\ b \in DOMAIN row /\ ImportOf(key) = {} /\ ~SourceImported(row[b].source)
    /\ \E records \in {Current(b).candidates, Records} \ {{}} :
          commit' = [stage |-> "rows", key |-> key, batch |-> b,
                     records |-> records, saved |-> {}]
    /\ UNCHANGED <<reading, stored, drafts, replies>>

\* A bug to check against: the journal is written outside the transaction.
SaveJournalAtOnce(record) ==
    /\ commit.stage = "rows"
    /\ record \in commit.records \ commit.saved
    /\ commit' = [commit EXCEPT !.saved = @ \cup {record}]
    /\ journals' = journals \cup {[key |-> commit.key, record |-> record]}
    /\ UNCHANGED <<reading, objects, row, drafts, imported, replies>>

\* saveJournal and linkRawRecord, in the transaction
SaveJournal(record) ==
    /\ commit.stage = "rows"
    /\ record \in commit.records \ commit.saved
    /\ commit' = [commit EXCEPT !.saved = @ \cup {record}]
    /\ UNCHANGED <<reading, stored, drafts, replies>>

\* A bug to check against: markCommitted is not given the source, which is optional.
CommittedWithoutSource(c) ==
    [key |-> c.key, source |-> None, batch |-> c.batch, records |-> c.records]

Committed(c) ==
    [key |-> c.key, source |-> row[c.batch].source, batch |-> c.batch, records |-> c.records]

\* markCommitted, and COMMIT: the state of a batch that has ended stays.
MarkCommitted ==
    /\ commit.stage = "rows" /\ commit.saved = commit.records
    /\ imported' = imported \cup {Committed(commit)}
    /\ journals' = journals \cup [key : {commit.key}, record : commit.saved]
    /\ row' = [row EXCEPT ![commit.batch].state =
                  IF @ \in {"committed", "cancelled"} THEN @ ELSE "committed"]
    /\ commit' = [stage |-> "append", key |-> commit.key]
    /\ UNCHANGED <<reading, objects, drafts, replies>>

\* A statement of the transaction fails: ROLLBACK.
RollBack ==
    /\ commit.stage = "rows"
    /\ replies' = With(replies, commit.key, "failed")
    /\ commit' = Idle
    /\ UNCHANGED <<reading, stored, drafts>>

\* The activity is recorded, or recording it fails, and the call with it.
AppendActivity ==
    /\ commit.stage = "append"
    /\ \E reply \in {"committed", "failed"} : replies' = With(replies, commit.key, reply)
    /\ commit' = Idle
    /\ UNCHANGED <<reading, stored, drafts>>

\* The process ends: an open transaction is gone, and so is the memory.
Restart ==
    /\ reading' = {} /\ commit' = Idle
    /\ drafts' = [b \in {} |-> Current(b)]
    /\ UNCHANGED <<stored, replies>>

-----------------------------------------------------------------------------

Init ==
    /\ reading = {} /\ objects = {} /\ imported = {} /\ journals = {}
    /\ row = [b \in {} |-> None] /\ drafts = [b \in {} |-> None]
    /\ commit = Idle
    /\ replies = [k \in {} |-> "failed"]

Next ==
    \/ \E s \in Sources : PutSource(s) \/ ReadFails(s)
    \/ \E b \in Batches, s \in Sources : CreateDraft(b, s)
    \/ \E b \in Batches : GetDraft(b) \/ UpdateCandidate(b) \/ CancelDraft(b)
    \/ \E b \in Batches, record \in Records : SkipCandidate(b, record)
    \/ \E b \in Batches, key \in Keys : RefuseSource(b, key) \/ BeginCommit(b, key)
    \/ \E key \in Keys : RepeatCommit(key)
    \/ \E record \in Records : SaveJournal(record)
    \/ MarkCommitted \/ RollBack \/ AppendActivity \/ Restart

Spec == Init /\ [][Next]_vars

-----------------------------------------------------------------------------
(* Properties *)

\* Every variable has its type; a draft's source document is in the object store, from
\* before the row is inserted.
TypeOK ==
    /\ reading \subseteq objects /\ objects \subseteq Sources
    /\ row \in [DOMAIN row -> Row] /\ DOMAIN row \subseteq Batches
    /\ \A b \in DOMAIN row :
          /\ row[b].source \in objects
          /\ row[b].revision = row[b].draft.revision
    /\ drafts \in [DOMAIN drafts -> Draft] /\ DOMAIN drafts \subseteq Batches
    /\ imported \subseteq [key : Keys, source : Sources \cup {None}, batch : DOMAIN row,
                           records : SUBSET Records]
    /\ journals \subseteq [key : Keys, record : Records]
    /\ commit.stage \in {"idle", "rows", "append"}
    /\ replies \in [DOMAIN replies -> {"committed", "failed", "duplicate"}]
    /\ DOMAIN replies \subseteq Keys

\* locales/en.json:53, "This source was already imported in this space; no duplicate rows
\* were added": whatever drafts were made of a file, and whatever became of them, one
\* commit takes its records to the ledger.
OneCommitPerSource ==
    \A i, j \in imported : row[i.batch].source = row[j.batch].source => i = j

\* locales/en.json:52, "Nothing was partially added": a commit has all the journals of its
\* request, and there are no others, whichever statement failed or never came.
NothingPartlyAdded ==
    journals = UNION {[key : {i.key}, record : i.records] : i \in imported}

\* The draft in memory is never older than the row, and is the row's at the same revision;
\* so an edit the user bases on what is shown undoes no edit that was stored.
MemoryNotBehind ==
    \A b \in DOMAIN drafts \cap DOMAIN row :
        /\ drafts[b].revision >= row[b].revision
        /\ drafts[b].revision = row[b].revision => drafts[b] = row[b].draft

-----------------------------------------------------------------------------
(* The inductive invariant *)

\* A transaction is open for a source that no commit has taken.
CommitSound ==
    \/ commit = Idle
    \/ commit \in [stage : {"append"}, key : Keys]
    \/ /\ commit \in [stage : {"rows"}, key : Keys, batch : DOMAIN row,
                       records : SUBSET Records, saved : SUBSET Records]
       /\ ~SourceImported(row[commit.batch].source)

\* A commit's source is that of its draft, which keeps it for ever.
ImportsNameSource == \A i \in imported : i.source = row[i.batch].source

\* What the proofs need beside the properties: the open transaction, and the sources of
\* the commits.
IInv ==
    /\ TypeOK /\ CommitSound /\ ImportsNameSource
    /\ OneCommitPerSource /\ NothingPartlyAdded /\ MemoryNotBehind

=============================================================================
