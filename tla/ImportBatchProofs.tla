------------------------- MODULE ImportBatchProofs -------------------------
(***************************************************************************)
(* Proofs about drafts and their commit: the inductive invariant IInv, and *)
(* from it the invariants of ImportBatch, for every number of statement    *)
(* files, drafts, records, clicks and edits.                               *)
(***************************************************************************)
EXTENDS ImportBatch, TLAPS

\* A function whose values are all in S, with one more of them
LEMMA WithType ==
    ASSUME NEW S, NEW f, f \in [DOMAIN f -> S], NEW x, NEW y \in S
    PROVE  With(f, x, y) \in [DOMAIN With(f, x, y) -> S]
    BY DEF With

\* The initial state has nothing in it.
LEMMA InitInvariant == Init => IInv
    BY DEF Init, IInv, TypeOK, CommitSound, ImportsNameSource, OneCommitPerSource,
           NothingPartlyAdded, MemoryNotBehind, Idle

\* What is kept of commits stays as it is when the sources of drafts do.
LEMMA CommitsStay ==
    ASSUME IInv, UNCHANGED <<imported, journals>>,
           DOMAIN row \subseteq DOMAIN row',
           \A b \in DOMAIN row : row'[b].source = row[b].source
    PROVE  /\ imported' \subseteq [key : Keys, source : Sources \cup {None},
                                   batch : DOMAIN row', records : SUBSET Records]
           /\ journals' \subseteq [key : Keys, record : Records]
           /\ ImportsNameSource' /\ OneCommitPerSource' /\ NothingPartlyAdded'
<1>1. imported \subseteq [key : Keys, source : Sources \cup {None},
                          batch : DOMAIN row, records : SUBSET Records]
    BY DEF IInv, TypeOK
<1>2. \A i \in imported : i.batch \in DOMAIN row /\ row'[i.batch].source = row[i.batch].source
    BY <1>1
<1>3. imported' \subseteq [key : Keys, source : Sources \cup {None},
                           batch : DOMAIN row', records : SUBSET Records]
    BY <1>1
<1>4. journals' \subseteq [key : Keys, record : Records]
    BY DEF IInv, TypeOK
<1>5. ImportsNameSource'
    BY <1>2 DEF IInv, ImportsNameSource
<1>6. OneCommitPerSource'
    BY <1>2 DEF IInv, OneCommitPerSource
<1>7. NothingPartlyAdded'
    BY DEF IInv, NothingPartlyAdded
<1> QED BY <1>3, <1>4, <1>5, <1>6, <1>7

\* Putting a source, and failing to read it, leaves drafts and commits alone.
LEMMA ReadingInvariant ==
    ASSUME IInv, NEW s \in Sources, PutSource(s) \/ ReadFails(s)
    PROVE  IInv'
    BY DEF IInv, TypeOK, CommitSound, ImportsNameSource, OneCommitPerSource, SourceImported,
           NothingPartlyAdded, MemoryNotBehind, PutSource, ReadFails, stored, Idle

\* A new draft is the same in memory and in its row, if it gets one.
LEMMA CreateInvariant ==
    ASSUME IInv, NEW b \in Batches, NEW s \in Sources, CreateDraft(b, s)
    PROVE  IInv'
<1>1. PICK status \in {"needs_ocr", "needs_review"} :
          /\ drafts' = With(drafts, b, NewDraft(status))
          /\ \/ row' = With(row, b, [source |-> s, state |-> status, revision |-> 0,
                                     draft |-> NewDraft(status)])
             \/ UNCHANGED row
    BY DEF CreateDraft
<1> DEFINE draft == NewDraft(status)
           new == [source |-> s, state |-> status, revision |-> 0, draft |-> draft]
<1>2. draft \in Draft /\ draft.revision = 0
    BY MaxRevisionAssumption DEF NewDraft, Draft
<1>3. new \in Row /\ new.revision = 0 /\ new.draft = draft /\ new.source = s
    BY <1>2, MaxRevisionAssumption DEF Row
<1>4. /\ s \in objects /\ b \notin DOMAIN row /\ b \notin DOMAIN drafts
      /\ reading' \subseteq objects /\ objects' = objects /\ objects \subseteq Sources
      /\ row \in [DOMAIN row -> Row] /\ DOMAIN row \subseteq Batches
      /\ drafts \in [DOMAIN drafts -> Draft] /\ DOMAIN drafts \subseteq Batches
    BY DEF CreateDraft, IInv, TypeOK
<1>5. drafts' = With(drafts, b, draft) /\ (row' = With(row, b, new) \/ row' = row)
    BY <1>1
<1> HIDE DEF new, draft
<1>6. /\ DOMAIN row \subseteq DOMAIN row' /\ DOMAIN row' \subseteq Batches
      /\ \A c \in DOMAIN row : row'[c] = row[c]
      /\ \A c \in DOMAIN row' \ DOMAIN row : c = b /\ row'[c] = new
      /\ row' \in [DOMAIN row' -> Row]
    <2>1. CASE row' = row
        BY <1>4, <2>1
    <2>2. CASE row' = With(row, b, new)
        <3>1. /\ DOMAIN row' = DOMAIN row \cup {b} /\ row'[b] = new
              /\ \A c \in DOMAIN row \ {b} : row'[c] = row[c]
            BY <2>2 DEF With
        <3>2. row' \in [DOMAIN row' -> Row]
            BY <1>3, <1>4, <2>2, WithType
        <3> QED BY <1>4, <3>1, <3>2
    <2> QED BY <1>5, <2>1, <2>2
<1>7. /\ DOMAIN drafts' = DOMAIN drafts \cup {b} /\ drafts'[b] = draft
      /\ \A c \in DOMAIN drafts : drafts'[c] = drafts[c]
      /\ drafts' \in [DOMAIN drafts' -> Draft]
    <2>1. /\ DOMAIN drafts' = DOMAIN drafts \cup {b} /\ drafts'[b] = draft
          /\ \A c \in DOMAIN drafts \ {b} : drafts'[c] = drafts[c]
        BY <1>5 DEF With
    <2>2. drafts' \in [DOMAIN drafts' -> Draft]
        BY <1>2, <1>4, <1>5, WithType
    <2> QED BY <1>4, <2>1, <2>2
<1>8. \A c \in DOMAIN row' :
          row'[c].source \in objects /\ row'[c].revision = row'[c].draft.revision
    BY <1>2, <1>3, <1>4, <1>6 DEF IInv, TypeOK
<1>9. /\ imported' \subseteq [key : Keys, source : Sources \cup {None},
                              batch : DOMAIN row', records : SUBSET Records]
      /\ journals' \subseteq [key : Keys, record : Records]
      /\ ImportsNameSource' /\ OneCommitPerSource' /\ NothingPartlyAdded'
    BY <1>6, CommitsStay DEF CreateDraft
<1>10. TypeOK'
    BY <1>4, <1>6, <1>7, <1>8, <1>9 DEF TypeOK, IInv, CreateDraft
<1>11. CommitSound'
    BY DEF CreateDraft, CommitSound, Idle
<1>12. MemoryNotBehind'
    <2>1. ASSUME NEW c \in DOMAIN drafts' \cap DOMAIN row'
          PROVE  \/ c \in DOMAIN drafts \cap DOMAIN row
                 \/ drafts'[c] = draft /\ row'[c] = new
        BY <1>4, <1>6, <1>7
    <2> QED BY <1>2, <1>3, <1>6, <1>7, <2>1 DEF IInv, MemoryNotBehind
<1> QED BY <1>9, <1>10, <1>11, <1>12 DEF IInv

\* The current draft of b
LEMMA CurrentDraft ==
    ASSUME IInv, NEW b \in DOMAIN row
    PROVE  /\ Current(b) \in Draft /\ Current(b).revision >= row[b].revision
           /\ Current(b).revision = row[b].revision => Current(b) = row[b].draft
<1>1. row[b] \in Row /\ row[b].draft \in Draft /\ row[b].revision = row[b].draft.revision
    BY DEF IInv, TypeOK, Row
<1>2. CASE b \in DOMAIN drafts
    BY <1>1, <1>2 DEF Current, IInv, TypeOK, MemoryNotBehind
<1>3. CASE b \notin DOMAIN drafts
    BY <1>1, <1>3, MaxRevisionAssumption DEF Current, Draft
<1> QED BY <1>2, <1>3

\* Memory takes a draft that is the row's, or ahead of it.
LEMMA DraftInvariant ==
    ASSUME IInv, commit = Idle, NEW b \in DOMAIN row, NEW draft \in Draft,
           drafts' = With(drafts, b, draft),
           UNCHANGED <<reading, objects, imported, journals, commit, replies>>,
           \/ UNCHANGED row /\ (draft.revision > row[b].revision \/ draft = Current(b))
           \/ Written(b, draft)
    PROVE  IInv'
<1>1. /\ row \in [DOMAIN row -> Row] /\ row[b] \in Row
      /\ drafts \in [DOMAIN drafts -> Draft] /\ DOMAIN drafts \subseteq Batches
    BY DEF IInv, TypeOK
<1>2. /\ DOMAIN drafts' = DOMAIN drafts \cup {b} /\ drafts'[b] = draft
      /\ \A c \in DOMAIN drafts \ {b} : drafts'[c] = drafts[c]
      /\ drafts' \in [DOMAIN drafts' -> Draft]
    <2>1. /\ DOMAIN drafts' = DOMAIN drafts \cup {b} /\ drafts'[b] = draft
          /\ \A c \in DOMAIN drafts \ {b} : drafts'[c] = drafts[c]
        BY DEF With
    <2>2. drafts' \in [DOMAIN drafts' -> Draft]
        BY <1>1, WithType
    <2> QED BY <2>1, <2>2
<1>3. /\ DOMAIN row' = DOMAIN row /\ row' \in [DOMAIN row' -> Row]
      /\ \A c \in DOMAIN row \ {b} : row'[c] = row[c]
      /\ row'[b].source = row[b].source
      /\ row'[b].revision = row'[b].draft.revision
      /\ \/ row'[b] = row[b] /\ (draft.revision > row[b].revision \/ draft = Current(b))
         \/ row'[b].draft = draft /\ row'[b].revision = draft.revision
    <2>1. CASE UNCHANGED row /\ (draft.revision > row[b].revision \/ draft = Current(b))
        BY <1>1, <2>1 DEF IInv, TypeOK
    <2>2. CASE Written(b, draft)
        <3>1. /\ draft.status \in {"needs_ocr", "needs_review", "cancelled"}
              /\ draft.revision \in 0..MaxRevision
            BY DEF Draft
        <3>2. /\ DOMAIN row' = DOMAIN row
              /\ \A c \in DOMAIN row \ {b} : row'[c] = row[c]
              /\ row'[b] = [row[b] EXCEPT !.state = draft.status, !.revision = draft.revision,
                                          !.draft = draft]
            BY <1>1, <2>2 DEF Written
        <3>3. row'[b] \in Row
            BY <1>1, <3>1, <3>2 DEF Row
        <3>4. /\ row'[b].draft = draft /\ row'[b].revision = draft.revision
              /\ row'[b].source = row[b].source
            BY <1>1, <3>2 DEF Row
        <3>5. row' \in [DOMAIN row' -> Row]
            BY <1>1, <2>2, <3>2, <3>3 DEF Written
        <3> QED BY <3>2, <3>4, <3>5
    <2> QED BY <2>1, <2>2
<1>4. /\ imported' \subseteq [key : Keys, source : Sources \cup {None},
                              batch : DOMAIN row', records : SUBSET Records]
      /\ journals' \subseteq [key : Keys, record : Records]
      /\ ImportsNameSource' /\ OneCommitPerSource' /\ NothingPartlyAdded'
    BY <1>3, CommitsStay
<1>5. \A c \in DOMAIN row' :
          row'[c].source \in objects' /\ row'[c].revision = row'[c].draft.revision
    BY <1>3 DEF IInv, TypeOK
<1>6. TypeOK'
    BY <1>1, <1>2, <1>3, <1>4, <1>5 DEF IInv, TypeOK
<1>7. CommitSound'
    BY DEF CommitSound, Idle
<1>8. MemoryNotBehind'
    <2>1. draft.revision \in Nat /\ row[b].revision \in Nat
        BY <1>1, MaxRevisionAssumption DEF Draft, Row
    <2>2. /\ draft.revision >= row'[b].revision
          /\ draft.revision = row'[b].revision => draft = row'[b].draft
        BY <1>3, <2>1, CurrentDraft
    <2> QED BY <1>1, <1>2, <1>3, <2>2 DEF IInv, MemoryNotBehind
<1> QED BY <1>4, <1>6, <1>7, <1>8 DEF IInv

\* get puts the current draft into memory.
LEMMA GetInvariant ==
    ASSUME IInv, NEW b \in Batches, GetDraft(b)
    PROVE  IInv'
<1>1. b \in DOMAIN row /\ commit = Idle
    BY DEF GetDraft
<1> QED BY <1>1, CurrentDraft, DraftInvariant DEF GetDraft, stored

\* Every edit is a next revision.
LEMMA ReviseInvariant ==
    ASSUME IInv, NEW b \in DOMAIN row, NEW status \in {"needs_ocr", "needs_review", "cancelled"},
           NEW candidates \in SUBSET Records, Revise(b, status, candidates)
    PROVE  IInv'
<1> DEFINE draft == [status |-> status, revision |-> Current(b).revision + 1,
                     candidates |-> candidates]
<1>1. /\ Current(b).revision \in 0..MaxRevision /\ Current(b).revision >= row[b].revision
      /\ row[b].revision \in 0..MaxRevision
    BY CurrentDraft DEF Draft, Row, IInv, TypeOK
<1>2. draft \in Draft /\ draft.revision > row[b].revision
    BY <1>1, MaxRevisionAssumption DEF Draft, Revise
<1>3. /\ commit = Idle /\ drafts' = With(drafts, b, draft)
      /\ UNCHANGED <<reading, objects, imported, journals, commit, replies>>
      /\ Written(b, draft) \/ UNCHANGED row
    BY DEF Revise, Save
<1> HIDE DEF draft
<1> QED BY <1>2, <1>3, DraftInvariant

\* Updating, skipping and cancelling are edits.
LEMMA EditInvariant ==
    ASSUME IInv, NEW b \in Batches,
           UpdateCandidate(b) \/ CancelDraft(b) \/ \E record \in Records : SkipCandidate(b, record)
    PROVE  IInv'
<1>1. b \in DOMAIN row
    BY DEF UpdateCandidate, CancelDraft, SkipCandidate
<1>2. /\ Current(b).status \in {"needs_ocr", "needs_review", "cancelled"}
      /\ Current(b).candidates \subseteq Records
    BY <1>1, CurrentDraft DEF Draft
<1>3. CASE UpdateCandidate(b)
    BY <1>1, <1>2, <1>3, ReviseInvariant DEF UpdateCandidate
<1>4. CASE CancelDraft(b)
    BY <1>1, <1>2, <1>4, ReviseInvariant DEF CancelDraft
<1>5. ASSUME NEW record \in Records, SkipCandidate(b, record) PROVE IInv'
    <2>1. Current(b).candidates \ {record} \in SUBSET Records
        BY <1>2
    <2> QED BY <1>1, <1>2, <1>5, <2>1, ReviseInvariant DEF SkipCandidate
<1> QED BY <1>3, <1>4, <1>5

-----------------------------------------------------------------------------
(* Commit *)

\* Repeated, refused and failed commits, and the activity record, change only the call
\* and its reply.
LEMMA AnswerInvariant ==
    ASSUME IInv,
           \/ \E key \in Keys : RepeatCommit(key)
           \/ \E b \in Batches, key \in Keys : RefuseSource(b, key)
           \/ RollBack \/ AppendActivity
    PROVE  IInv'
<1>1. UNCHANGED <<reading, objects, row, imported, journals, drafts>>
    BY DEF RepeatCommit, RefuseSource, RollBack, AppendActivity, stored
<1>2. commit' = Idle \/ commit' \in [stage : {"append"}, key : Keys]
    BY DEF RepeatCommit, RefuseSource, RollBack, AppendActivity, Idle
<1>3. /\ replies' \in [DOMAIN replies' -> {"committed", "failed", "duplicate"}]
      /\ DOMAIN replies' \subseteq Keys
    <2>1. /\ replies \in [DOMAIN replies -> {"committed", "failed", "duplicate"}]
          /\ DOMAIN replies \subseteq Keys
        BY DEF IInv, TypeOK
    <2>2. CASE UNCHANGED replies
        BY <2>1, <2>2
    <2>3. ASSUME NEW k \in Keys, NEW reply \in {"committed", "failed", "duplicate"},
                 replies' = With(replies, k, reply)
          PROVE  <1>3
        <3>1. DOMAIN replies' = DOMAIN replies \cup {k}
            BY <2>3 DEF With
        <3>2. replies' \in [DOMAIN replies' -> {"committed", "failed", "duplicate"}]
            BY <2>1, <2>3, WithType
        <3> QED BY <2>1, <3>1, <3>2
    <2>4. commit.stage # "idle" => commit.key \in Keys
        BY DEF IInv, CommitSound, Idle
    <2> QED BY <2>2, <2>3, <2>4 DEF RepeatCommit, RefuseSource, RollBack, AppendActivity
<1>4. TypeOK'
    BY <1>1, <1>2, <1>3 DEF IInv, TypeOK, Idle
<1>5. CommitSound'
    BY <1>2 DEF CommitSound, Idle
<1>6. ImportsNameSource' /\ OneCommitPerSource' /\ NothingPartlyAdded' /\ MemoryNotBehind'
    BY <1>1 DEF IInv, ImportsNameSource, OneCommitPerSource, NothingPartlyAdded, MemoryNotBehind
<1> QED BY <1>4, <1>5, <1>6 DEF IInv

\* A transaction begins for a source that was not committed, and collects its journals.
LEMMA TransactionInvariant ==
    ASSUME IInv,
           \/ \E b \in Batches, key \in Keys : BeginCommit(b, key)
           \/ \E record \in Records : SaveJournal(record)
    PROVE  IInv'
<1>1. UNCHANGED <<reading, objects, row, imported, journals, drafts, replies>>
    BY DEF BeginCommit, SaveJournal, stored
<1>2. /\ commit' \in [stage : {"rows"}, key : Keys, batch : DOMAIN row,
                       records : SUBSET Records, saved : SUBSET Records]
      /\ ~SourceImported(row[commit'.batch].source)
    <2>1. ASSUME NEW b \in Batches, NEW key \in Keys, BeginCommit(b, key) PROVE <1>2
        <3>1. b \in DOMAIN row /\ ~SourceImported(row[b].source)
            BY <2>1 DEF BeginCommit
        <3>2. Current(b).candidates \in SUBSET Records
            BY <3>1, CurrentDraft DEF Draft
        <3> QED BY <2>1, <3>1, <3>2 DEF BeginCommit
    <2>2. ASSUME NEW record \in Records, SaveJournal(record) PROVE <1>2
        <3>1. /\ commit \in [stage : {"rows"}, key : Keys, batch : DOMAIN row,
                              records : SUBSET Records, saved : SUBSET Records]
              /\ ~SourceImported(row[commit.batch].source)
            BY <2>2 DEF SaveJournal, IInv, CommitSound, Idle
        <3>2. commit' = [commit EXCEPT !.saved = @ \cup {record}]
            BY <2>2 DEF SaveJournal
        <3> QED BY <3>1, <3>2
    <2> QED BY <2>1, <2>2
<1>3. TypeOK'
    BY <1>1, <1>2 DEF IInv, TypeOK
<1>4. CommitSound'
    BY <1>1, <1>2 DEF CommitSound, SourceImported
<1>5. ImportsNameSource' /\ OneCommitPerSource' /\ NothingPartlyAdded' /\ MemoryNotBehind'
    BY <1>1 DEF IInv, ImportsNameSource, OneCommitPerSource, NothingPartlyAdded, MemoryNotBehind
<1> QED BY <1>3, <1>4, <1>5 DEF IInv

\* COMMIT adds one commit, of a source that had none, with all its journals.
LEMMA MarkInvariant ==
    ASSUME IInv, MarkCommitted
    PROVE  IInv'
<1> DEFINE new == Committed(commit)
           b == commit.batch
<1>1. /\ commit \in [stage : {"rows"}, key : Keys, batch : DOMAIN row,
                      records : SUBSET Records, saved : SUBSET Records]
      /\ ~SourceImported(row[b].source)
      /\ commit.saved = commit.records
    BY DEF MarkCommitted, IInv, CommitSound, Idle
<1>2. /\ new.key = commit.key /\ new.batch = b /\ new.records = commit.records
      /\ new.source = row[b].source
      /\ new \in [key : Keys, source : Sources \cup {None}, batch : DOMAIN row,
                   records : SUBSET Records]
    <2>1. row[b].source \in Sources
        BY <1>1 DEF IInv, TypeOK
    <2> QED BY <1>1, <2>1 DEF Committed
<1> HIDE DEF new
<1>3. /\ imported' = imported \cup {new}
      /\ journals' = journals \cup [key : {commit.key}, record : commit.records]
      /\ commit' = [stage |-> "append", key |-> commit.key]
      /\ UNCHANGED <<reading, objects, drafts, replies>>
    BY <1>1 DEF MarkCommitted, new
<1>4. /\ row \in [DOMAIN row -> Row] /\ b \in DOMAIN row
      /\ DOMAIN row' = DOMAIN row /\ row' \in [DOMAIN row' -> Row]
      /\ \A c \in DOMAIN row : /\ row'[c].source = row[c].source
                                /\ row'[c].revision = row[c].revision
                                /\ row'[c].draft = row[c].draft
    <2>1. row \in [DOMAIN row -> Row] /\ b \in DOMAIN row
        BY <1>1 DEF IInv, TypeOK
    <2>2. PICK state \in {"cancelled", "committed"} :
             row' = [row EXCEPT ![b].state = state]
        BY DEF MarkCommitted
    <2>3. /\ DOMAIN row' = DOMAIN row
          /\ \A c \in DOMAIN row \ {b} : row'[c] = row[c]
          /\ row'[b] = [row[b] EXCEPT !.state = state]
        BY <2>1, <2>2
    <2>4. row[b] \in Row
        BY <2>1
    <2>5. /\ row'[b] \in Row /\ row'[b].source = row[b].source
          /\ row'[b].revision = row[b].revision /\ row'[b].draft = row[b].draft
        BY <2>2, <2>3, <2>4 DEF Row
    <2>6. row' \in [DOMAIN row' -> Row]
        BY <2>1, <2>2, <2>3, <2>5
    <2> QED BY <2>1, <2>3, <2>5, <2>6
<1>5. TypeOK'
    <2>1. imported' \subseteq [key : Keys, source : Sources \cup {None}, batch : DOMAIN row',
                               records : SUBSET Records]
        BY <1>2, <1>3, <1>4 DEF IInv, TypeOK
    <2>2. journals' \subseteq [key : Keys, record : Records]
        BY <1>1, <1>3 DEF IInv, TypeOK
    <2>3. \A c \in DOMAIN row' :
              row'[c].source \in objects' /\ row'[c].revision = row'[c].draft.revision
        BY <1>3, <1>4 DEF IInv, TypeOK
    <2>4. commit'.stage = "append"
        BY <1>3
    <2> QED BY <1>3, <1>4, <2>1, <2>2, <2>3, <2>4 DEF IInv, TypeOK
<1>6. CommitSound'
    BY <1>1, <1>3 DEF CommitSound
<1>7. \A i \in imported : i.batch \in DOMAIN row /\ i.source = row[i.batch].source
    BY DEF IInv, TypeOK, ImportsNameSource
<1>8. ImportsNameSource'
    BY <1>1, <1>2, <1>3, <1>4, <1>7 DEF ImportsNameSource
<1>9. OneCommitPerSource'
    <2>1. \A i \in imported : row[i.batch].source # row[b].source
        BY <1>1, <1>7 DEF SourceImported
    <2> QED BY <1>1, <1>2, <1>3, <1>4, <1>7, <2>1 DEF IInv, OneCommitPerSource
<1>10. NothingPartlyAdded'
    <2>1. journals = UNION {[key : {i.key}, record : i.records] : i \in imported}
        BY DEF IInv, NothingPartlyAdded
    <2>2. [key : {commit.key}, record : commit.records] = [key : {new.key}, record : new.records]
        BY <1>2
    <2> QED BY <1>3, <2>1, <2>2 DEF NothingPartlyAdded
<1>11. MemoryNotBehind'
    BY <1>3, <1>4 DEF IInv, TypeOK, MemoryNotBehind
<1> QED BY <1>5, <1>6, <1>8, <1>9, <1>10, <1>11 DEF IInv

\* A restart forgets the memory and an open transaction.
LEMMA RestartInvariant ==
    ASSUME IInv, Restart
    PROVE  IInv'
<1>1. DOMAIN drafts' = {} /\ commit' = Idle /\ reading' = {}
      /\ UNCHANGED <<objects, row, imported, journals, replies>>
    BY DEF Restart, stored
<1>2. drafts' \in [DOMAIN drafts' -> Draft]
    BY DEF Restart
<1>3. TypeOK'
    BY <1>1, <1>2 DEF IInv, TypeOK, Idle
<1>4. /\ CommitSound' /\ ImportsNameSource' /\ OneCommitPerSource'
      /\ NothingPartlyAdded' /\ MemoryNotBehind'
    BY <1>1 DEF IInv, CommitSound, Idle, ImportsNameSource, OneCommitPerSource,
                NothingPartlyAdded, MemoryNotBehind
<1> QED BY <1>3, <1>4 DEF IInv

\* A step that changes nothing
LEMMA StutterInvariant == IInv /\ UNCHANGED vars => IInv'
    BY DEF vars, IInv, TypeOK, CommitSound, SourceImported, ImportsNameSource,
           OneCommitPerSource, NothingPartlyAdded, MemoryNotBehind

\* Every step keeps the inductive invariant.
LEMMA StepInvariant == IInv /\ [Next]_vars => IInv'
<1> SUFFICES ASSUME IInv, [Next]_vars PROVE IInv'
    OBVIOUS
<1>1. ASSUME NEW s \in Sources, PutSource(s) \/ ReadFails(s) PROVE IInv'
    BY <1>1, ReadingInvariant
<1>2. ASSUME NEW b \in Batches, NEW s \in Sources, CreateDraft(b, s) PROVE IInv'
    BY <1>2, CreateInvariant
<1>3. ASSUME NEW b \in Batches, GetDraft(b) PROVE IInv'
    BY <1>3, GetInvariant
<1>4. ASSUME NEW b \in Batches,
             UpdateCandidate(b) \/ CancelDraft(b) \/ \E record \in Records : SkipCandidate(b, record)
      PROVE  IInv'
    BY <1>4, EditInvariant
<1>5. CASE \/ \E key \in Keys : RepeatCommit(key)
           \/ \E b \in Batches, key \in Keys : RefuseSource(b, key)
           \/ RollBack \/ AppendActivity
    BY <1>5, AnswerInvariant
<1>6. CASE \/ \E b \in Batches, key \in Keys : BeginCommit(b, key)
           \/ \E record \in Records : SaveJournal(record)
    BY <1>6, TransactionInvariant
<1>7. CASE MarkCommitted
    BY <1>7, MarkInvariant
<1>8. CASE Restart
    BY <1>8, RestartInvariant
<1>9. CASE UNCHANGED vars
    BY <1>9, StutterInvariant
<1> QED BY <1>1, <1>2, <1>3, <1>4, <1>5, <1>6, <1>7, <1>8, <1>9 DEF Next

-----------------------------------------------------------------------------

\* The inductive invariant holds in every reachable state.
THEOREM Invariant == Spec => []IInv
<1>1. Init => IInv
    BY InitInvariant
<1>2. IInv /\ [Next]_vars => IInv'
    BY StepInvariant
<1> QED BY <1>1, <1>2, PTL DEF Spec

\* Every variable keeps its type, and a draft's source is in the object store.
THEOREM TypeCorrect == Spec => []TypeOK
<1>1. IInv => TypeOK
    BY DEF IInv
<1> QED BY <1>1, Invariant, PTL

\* However many drafts are made of a statement, one commit takes it to the ledger.
THEOREM SourceCommittedOnce == Spec => []OneCommitPerSource
<1>1. IInv => OneCommitPerSource
    BY DEF IInv
<1> QED BY <1>1, Invariant, PTL

\* The journals are those of the commits, all of them and no others.
THEOREM CommitsAreWhole == Spec => []NothingPartlyAdded
<1>1. IInv => NothingPartlyAdded
    BY DEF IInv
<1> QED BY <1>1, Invariant, PTL

\* The draft in memory is never older than the one that is stored.
THEOREM MemoryIsCurrent == Spec => []MemoryNotBehind
<1>1. IInv => MemoryNotBehind
    BY DEF IInv
<1> QED BY <1>1, Invariant, PTL

-----------------------------------------------------------------------------
(* Idempotency keys *)

\* What a running commit knows of its key
KeySound ==
    /\ commit.stage = "rows" => ImportOf(commit.key) = {}
    /\ commit.stage = "append" => ImportOf(commit.key) # {}

\* One commit for each key, and one that was answered to have been made was made.
ClicksAnswered ==
    /\ \A i, j \in imported : i.key = j.key => i = j
    /\ \A key \in DOMAIN replies : replies[key] = "committed" => ImportOf(key) # {}

KeyInv == KeySound /\ ClicksAnswered

\* A step commits nothing, starts a commit only as its key allows, and answers truly.
CommitsNothing ==
    /\ imported' = imported
    /\ \/ commit'.stage = "idle"
       \/ commit'.stage = commit.stage /\ commit'.key = commit.key
       \/ commit'.stage = "append" /\ ImportOf(commit'.key) # {}
       \/ commit'.stage = "rows" /\ ImportOf(commit'.key) = {}
    /\ \A key \in DOMAIN replies' :
          replies'[key] = "committed" =>
             \/ key \in DOMAIN replies /\ replies[key] = "committed"
             \/ ImportOf(key) # {}

LEMMA NothingCommitted ==
    ASSUME KeyInv, CommitsNothing
    PROVE  KeyInv'
<1> USE DEF CommitsNothing
<1>1. \A key : {i \in imported' : i.key = key} = ImportOf(key)
    BY DEF ImportOf
<1>2. KeySound'
    BY <1>1 DEF KeyInv, KeySound, ImportOf
<1>3. ClicksAnswered'
    BY <1>1 DEF KeyInv, ClicksAnswered, ImportOf
<1> QED BY <1>2, <1>3 DEF KeyInv

\* markCommitted adds the one commit of its key.
LEMMA MarkKept ==
    ASSUME KeyInv, MarkCommitted
    PROVE  KeyInv'
<1>1. PICK new : new = Committed(commit)
    OBVIOUS
<1>2. /\ imported' = imported \cup {new} /\ new.key = commit.key
      /\ commit'.stage = "append" /\ commit'.key = commit.key /\ replies' = replies
    BY <1>1 DEF MarkCommitted, Committed
<1>3. \A i \in imported : i.key # commit.key
    BY DEF KeyInv, KeySound, MarkCommitted, ImportOf
<1>4. KeySound'
    BY <1>2 DEF KeySound, ImportOf
<1>5. \A i, j \in imported' : i.key = j.key => i = j
    BY <1>2, <1>3 DEF KeyInv, ClicksAnswered
<1>6. \A key \in DOMAIN replies' : replies'[key] = "committed" => ImportOf(key)' # {}
    BY <1>2 DEF KeyInv, ClicksAnswered, ImportOf
<1> QED BY <1>4, <1>5, <1>6 DEF KeyInv, ClicksAnswered

LEMMA KeyStep == KeyInv /\ [Next]_vars => KeyInv'
<1> SUFFICES ASSUME KeyInv, [Next]_vars PROVE KeyInv'
    OBVIOUS
<1>1. CASE UNCHANGED <<imported, commit, replies>>
    <2>1. CommitsNothing
        BY <1>1 DEF CommitsNothing
    <2> QED BY <2>1, NothingCommitted
<1>2. ASSUME NEW key \in Keys, RepeatCommit(key) PROVE KeyInv'
    <2>1. /\ UNCHANGED <<imported, replies>> /\ commit'.stage = "append" /\ commit'.key = key
          /\ ImportOf(key) # {}
        BY <1>2 DEF RepeatCommit, stored
    <2>2. CommitsNothing
        BY <2>1 DEF CommitsNothing
    <2> QED BY <2>2, NothingCommitted
<1>3. ASSUME NEW b \in Batches, NEW key \in Keys, RefuseSource(b, key) PROVE KeyInv'
    <2>1. UNCHANGED <<imported, commit>> /\ replies' = With(replies, key, "duplicate")
        BY <1>3 DEF RefuseSource, stored
    <2>2. CommitsNothing
        BY <2>1 DEF CommitsNothing, With
    <2> QED BY <2>2, NothingCommitted
<1>4. ASSUME NEW b \in Batches, NEW key \in Keys, BeginCommit(b, key) PROVE KeyInv'
    <2>1. /\ UNCHANGED <<imported, replies>> /\ commit'.stage = "rows" /\ commit'.key = key
          /\ ImportOf(key) = {}
        BY <1>4 DEF BeginCommit, stored
    <2>2. CommitsNothing
        BY <2>1 DEF CommitsNothing
    <2> QED BY <2>2, NothingCommitted
<1>5. ASSUME NEW record \in Records, SaveJournal(record) PROVE KeyInv'
    <2>1. PICK saved : /\ commit' = [commit EXCEPT !.saved = saved]
                       /\ UNCHANGED <<imported, replies>> /\ commit.stage = "rows"
        BY <1>5 DEF SaveJournal, stored
    <2>2. commit'.stage = "rows" /\ commit'.key = commit.key
        BY <2>1
    <2>3. CommitsNothing
        BY <2>1, <2>2 DEF CommitsNothing
    <2> QED BY <2>3, NothingCommitted
<1>6. CASE MarkCommitted
    BY <1>6, MarkKept
<1>7. CASE RollBack
    <2>1. /\ UNCHANGED imported /\ commit'.stage = "idle"
          /\ replies' = With(replies, commit.key, "failed")
        BY <1>7 DEF RollBack, stored, Idle
    <2>2. CommitsNothing
        BY <2>1 DEF CommitsNothing, With
    <2> QED BY <2>2, NothingCommitted
<1>8. CASE AppendActivity
    <2>1. PICK reply : /\ UNCHANGED imported /\ commit'.stage = "idle"
                       /\ replies' = With(replies, commit.key, reply)
                       /\ ImportOf(commit.key) # {}
        BY <1>8 DEF AppendActivity, stored, Idle, KeyInv, KeySound
    <2>2. CommitsNothing
        BY <2>1 DEF CommitsNothing, With
    <2> QED BY <2>2, NothingCommitted
<1>9. CASE Restart
    <2>1. UNCHANGED <<imported, replies>> /\ commit'.stage = "idle"
        BY <1>9 DEF Restart, stored, Idle
    <2>2. CommitsNothing
        BY <2>1 DEF CommitsNothing
    <2> QED BY <2>2, NothingCommitted
<1>10. ASSUME \/ \E s \in Sources : PutSource(s) \/ ReadFails(s)
              \/ \E b \in Batches, s \in Sources : CreateDraft(b, s)
              \/ \E b \in Batches : GetDraft(b) \/ UpdateCandidate(b) \/ CancelDraft(b)
              \/ \E b \in Batches, record \in Records : SkipCandidate(b, record)
              \/ UNCHANGED vars
       PROVE  UNCHANGED <<imported, commit, replies>>
    BY <1>10 DEF PutSource, ReadFails, CreateDraft, GetDraft, UpdateCandidate, CancelDraft,
                 SkipCandidate, Revise, stored, vars
<1> QED BY <1>1, <1>2, <1>3, <1>4, <1>5, <1>6, <1>7, <1>8, <1>9, <1>10 DEF Next

\* commit of MemoryReviewService is idempotent: a key that comes again, also after a failed
\* answer or a restart, has one commit at most, and one that was answered has been made.
THEOREM ClicksCommitOnce == Spec => []ClicksAnswered
<1>1. Init => KeyInv
    BY DEF Init, KeyInv, KeySound, ClicksAnswered, Idle
<1>2. KeyInv => ClicksAnswered
    BY DEF KeyInv
<1> QED BY <1>1, <1>2, KeyStep, PTL DEF Spec

=============================================================================
