---------------------------- MODULE LedgerProofs ----------------------------
(***************************************************************************)
(* Proofs about the ledger: the inductive invariant IInv, and from it the  *)
(* invariants and action properties of Ledger, for every set of journals,  *)
(* links, texts and categories and for every bound.                        *)
(***************************************************************************)
EXTENDS Ledger, TLAPS, SequenceTheorems

-----------------------------------------------------------------------------
(* Sequences as TypeOK states them: by the set of their own elements *)

Elements(l) == {l[i] : i \in 1..Len(l)}

\* A sequence is a function on 1..Len, whatever set its elements are taken from.
LEMMA SequenceShape ==
    \A S : \A l \in Seq(S) : /\ Len(l) \in Nat
                             /\ DOMAIN l = 1..Len(l)
                             /\ l \in Seq(Elements(l))
    BY DEF Elements

\* What Append leaves in the log
LEMMA AppendShape ==
    ASSUME NEW l, l \in Seq(Elements(l)), NEW e
    PROVE  /\ Append(l, e) \in Seq(Elements(Append(l, e)))
           /\ Len(Append(l, e)) = Len(l) + 1
           /\ \A i \in 1..Len(l) : Append(l, e)[i] = l[i]
           /\ Append(l, e)[Len(l) + 1] = e
<1> DEFINE S == Elements(l) \cup {e}
<1>1. l \in Seq(S)
    BY DEF Elements
<1>2. e \in S
    OBVIOUS
<1>3. /\ Append(l, e) \in Seq(S)
      /\ Len(Append(l, e)) = Len(l) + 1
      /\ \A i \in 1..Len(l) : Append(l, e)[i] = l[i]
      /\ Append(l, e)[Len(l) + 1] = e
    <2> HIDE DEF S
    <2> QED BY <1>1, <1>2, AppendProperties
<1> QED
    <2> HIDE DEF S
    <2> QED BY <1>3, SequenceShape

\* A function on 1..n is a sequence.
LEMMA FunctionShape ==
    ASSUME NEW n \in Nat, NEW f, DOMAIN f = 1..n, f = [i \in 1..n |-> f[i]]
    PROVE  f \in Seq(Elements(f)) /\ Len(f) = n
    BY DEF Elements

-----------------------------------------------------------------------------
(* Rows *)

\* Bumped moves the version on and keeps the rest of a row.
LEMMA BumpedRow ==
    \A r \in Row : /\ Bumped(r) \in Row
                   /\ Bumped(r).version = r.version + 1
                   /\ Bumped(r).text = r.text /\ Bumped(r).category = r.category
                   /\ Bumped(r).deleted = r.deleted /\ Bumped(r).link = r.link
    BY DEF Row, Bumped

\* A row is known by its fields.
LEMMA RowFields ==
    \A r, s \in Row :
        (/\ r.version = s.version /\ r.text = s.text /\ r.category = s.category
         /\ r.deleted = s.deleted /\ r.link = s.link) => r = s
    BY DEF Row

\* Row s is row r but for the fields in F.
Agree(r, s, F) ==
    /\ s \in Row
    /\ "version" \in F \/ s.version = r.version
    /\ "text" \in F \/ s.text = r.text
    /\ "category" \in F \/ s.category = r.category
    /\ "deleted" \in F \/ s.deleted = r.deleted
    /\ "link" \in F \/ s.link = r.link

\* What the field updates of the requests and of undo return
LEMMA UpdatedRow ==
    ASSUME NEW r \in Row
    PROVE  /\ Agree(r, [r EXCEPT !.deleted = TRUE], {"deleted"})
           /\ [r EXCEPT !.deleted = TRUE].deleted
           /\ \A category \in Categories :
                Agree(r, [r EXCEPT !.category = category], {"category"})
           /\ \A text \in Texts, category \in Categories :
                Agree(r, [r EXCEPT !.text = text, !.category = category],
                      {"text", "category"})
           /\ \A link \in Links \cup {NoLink} :
                /\ Agree(r, [r EXCEPT !.link = link], {"link"})
                /\ [r EXCEPT !.link = link].link = link
           /\ \A version \in Nat :
                /\ Agree(r, [r EXCEPT !.version = version], {"version"})
                /\ [r EXCEPT !.version = version].version = version
    BY DEF Row, Agree

-----------------------------------------------------------------------------
(* What the steps of the ledger have in common *)

\* A transaction replaces the rows in the domain of next, each by its next version.
Advance(next) ==
    /\ DOMAIN next \subseteq DOMAIN journal
    /\ \A j \in DOMAIN next :
          next[j] \in Row /\ next[j].version = journal[j].version + 1
    /\ journal' = [j \in DOMAIN journal |->
                     IF j \in DOMAIN next THEN next[j] ELSE journal[j]]
    /\ Remember

\* A deletion, an edit, a classification or a merge: one row changes and keeps its link.
EditStep(next, kind, operation, j) ==
    /\ pending = Idle
    /\ Advance(next)
    /\ DOMAIN next = {j} /\ next[j].link = journal[j].link
    /\ kind \in SnapshotKinds /\ operation \in OperationKinds
    /\ Record(operation, j, Snapshot(kind, j))
    /\ UNCHANGED <<log, commits, applied>>

\* The transfer link of two journals changes from one value to another.
LinkStep(next, j, k, from, to) ==
    /\ pending = Idle
    /\ Advance(next)
    /\ j # k /\ DOMAIN next = {j, k}
    /\ \A i \in {j, k} : /\ journal[i].link = from
                         /\ next[i] = [Bumped(journal[i]) EXCEPT !.link = to]
    /\ Record("edit", j, SetLink(j, k, from))
    /\ UNCHANGED <<log, commits, applied>>

\* Undo replaces the targets of an inverse whose versions match.
UndoStep(next, i) ==
    /\ pending = Idle
    /\ Advance(next)
    /\ i \in 1..Len(log) /\ HasInverse(log, i)
    /\ VersionsMatch(log[i].inverse)
    /\ DOMAIN next = DOMAIN log[i].inverse.expected
    /\ \A j \in DOMAIN next : next[j] = Inverted(log[i].inverse, j)
    /\ pending' = [stage |-> "mark", operation |-> i]
    /\ applied' = applied \cup {i}
    /\ UNCHANGED <<log, commits>>

\* An operation as TypeOK has it, without its inverse, and marked undone
Operation(op) == IsOperation(op) /\ (op.undoable <=> op.inverse.kind # "none")
Pruned(op) == [op EXCEPT !.inverse = NoInverse, !.undoable = FALSE]
Marked(op) == [op EXCEPT !.undone = TRUE]

\* The other steps leave the journals alone; the log keeps its operations, and loses
\* inverses by the retention only.
LogStep ==
    /\ UNCHANGED <<journal, commits, past, applied>>
    /\ log' \in Seq(Elements(log'))
    /\ Len(log) <= Len(log')
    /\ \A i \in 1..Len(log') : Operation(log'[i])
    /\ \A i \in 1..Len(log) : log'[i].inverse \in {log[i].inverse, NoInverse}
    /\ \A i \in 1..Len(log') : HasInverse(log', i)
                               => log'[i].inverse \in LiveInverses
    /\ pending' = Idle \/ pending' = [stage |-> "marker"]

-----------------------------------------------------------------------------
(* Every step has one of these shapes *)

\* A transaction on one row is an edit when it keeps the row's link.
LEMMA OneRow ==
    ASSUME TypeOK, NEW j \in DOMAIN journal, NEW kind \in SnapshotKinds,
           NEW operation \in OperationKinds, NEW row \in Row, pending = Idle,
           row.version = journal[j].version + 1, row.link = journal[j].link,
           ReplaceJournals([i \in {j} |-> row]), Remember,
           Record(operation, j, Snapshot(kind, j)), UNCHANGED <<log, commits, applied>>
    PROVE  \E next : EditStep(next, kind, operation, j)
<1> WITNESS [i \in {j} |-> row]
<1> QED
    BY DEF EditStep, Advance, ReplaceJournals

\* Delete is an edit.
LEMMA DeleteShape ==
    ASSUME TypeOK, NEW j \in Journals, DeleteJournal(j)
    PROVE  \E next : EditStep(next, "restore-journals", "delete", j)
<1> DEFINE row == [Bumped(journal[j]) EXCEPT !.deleted = TRUE]
<1>1. j \in DOMAIN journal /\ journal[j] \in Row /\ Bumped(journal[j]) \in Row
    BY BumpedRow DEF DeleteJournal, TypeOK, OnJournals
<1>2. /\ row \in Row /\ row.version = journal[j].version + 1
      /\ row.link = journal[j].link
    BY <1>1, BumpedRow, UpdatedRow DEF Agree
<1>3. ReplaceJournals([i \in {j} |-> row])
    <2>1. [i \in {j} |-> row] = [i \in {j} |-> [Bumped(journal[i]) EXCEPT !.deleted = TRUE]]
        OBVIOUS
    <2> QED BY <2>1 DEF DeleteJournal
<1> HIDE DEF row
<1> QED
    BY <1>1, <1>2, <1>3, OneRow
       DEF DeleteJournal, Ready, SnapshotKinds, OperationKinds

\* Update is an edit.
LEMMA UpdateShape ==
    ASSUME TypeOK, NEW j \in Journals, UpdateJournal(j)
    PROVE  \E next : EditStep(next, "replace-journals", "edit", j)
<1>1. j \in DOMAIN journal /\ journal[j] \in Row /\ Bumped(journal[j]) \in Row
    BY BumpedRow DEF UpdateJournal, TypeOK, OnJournals
<1>2. PICK text \in Texts, category \in Categories :
         ReplaceJournals([i \in {j} |->
            [Bumped(journal[i]) EXCEPT !.text = text, !.category = category]])
    BY DEF UpdateJournal
<1> DEFINE row == [Bumped(journal[j]) EXCEPT !.text = text, !.category = category]
<1>3. /\ row \in Row /\ row.version = journal[j].version + 1
      /\ row.link = journal[j].link
    <2> DEFINE b == Bumped(journal[j])
    <2>1. b \in Row /\ b.version = journal[j].version + 1 /\ b.link = journal[j].link
        BY <1>1, BumpedRow
    <2> HIDE DEF b
    <2>2. /\ [b EXCEPT !.text = text, !.category = category] \in Row
          /\ [b EXCEPT !.text = text, !.category = category].version = b.version
          /\ [b EXCEPT !.text = text, !.category = category].link = b.link
        BY <2>1 DEF Row
    <2> USE DEF b
    <2> QED BY <2>1, <2>2
<1>4. ReplaceJournals([i \in {j} |-> row])
    <2>1. [i \in {j} |-> row]
            = [i \in {j} |->
                 [Bumped(journal[i]) EXCEPT !.text = text, !.category = category]]
        OBVIOUS
    <2> QED BY <1>2, <2>1
<1> HIDE DEF row
<1> QED
    BY <1>1, <1>3, <1>4, OneRow
       DEF UpdateJournal, Ready, SnapshotKinds, OperationKinds

\* Classify is an edit.
LEMMA ClassifyShape ==
    ASSUME TypeOK, NEW j \in Journals, ClassifyJournal(j)
    PROVE  \E next : EditStep(next, "replace-journals", "classification", j)
<1>1. j \in DOMAIN journal /\ journal[j] \in Row /\ Bumped(journal[j]) \in Row
    BY BumpedRow DEF ClassifyJournal, TypeOK, OnJournals
<1>2. PICK category \in Categories :
         ReplaceJournals([i \in {j} |-> [Bumped(journal[i]) EXCEPT !.category = category]])
    BY DEF ClassifyJournal
<1> DEFINE row == [Bumped(journal[j]) EXCEPT !.category = category]
<1>3. /\ row \in Row /\ row.version = journal[j].version + 1
      /\ row.link = journal[j].link
    <2> DEFINE b == Bumped(journal[j])
    <2>1. b \in Row /\ b.version = journal[j].version + 1 /\ b.link = journal[j].link
        BY <1>1, BumpedRow
    <2> HIDE DEF b
    <2>2. /\ [b EXCEPT !.category = category] \in Row
          /\ [b EXCEPT !.category = category].version = b.version
          /\ [b EXCEPT !.category = category].link = b.link
        BY <2>1 DEF Row
    <2> USE DEF b
    <2> QED BY <2>1, <2>2
<1>4. ReplaceJournals([i \in {j} |-> row])
    <2>1. [i \in {j} |-> row]
            = [i \in {j} |-> [Bumped(journal[i]) EXCEPT !.category = category]]
        OBVIOUS
    <2> QED BY <1>2, <2>1
<1> HIDE DEF row
<1> QED
    BY <1>1, <1>3, <1>4, OneRow
       DEF ClassifyJournal, Ready, SnapshotKinds, OperationKinds

\* Merge is an edit of the duplicate.
LEMMA MergeShape ==
    ASSUME TypeOK, NEW j \in Journals, NEW k \in Journals, MergeJournals(j, k)
    PROVE  \E next : EditStep(next, "restore-journals", "merge", k)
<1> DEFINE row == [Bumped(journal[k]) EXCEPT !.deleted = TRUE]
<1>1. k \in DOMAIN journal /\ journal[k] \in Row /\ Bumped(journal[k]) \in Row
    BY BumpedRow DEF MergeJournals, TypeOK, OnJournals
<1>2. /\ row \in Row /\ row.version = journal[k].version + 1
      /\ row.link = journal[k].link
    BY <1>1, BumpedRow, UpdatedRow DEF Agree
<1>3. ReplaceJournals([i \in {k} |-> row])
    <2>1. [i \in {k} |-> row] = [i \in {k} |-> [Bumped(journal[i]) EXCEPT !.deleted = TRUE]]
        OBVIOUS
    <2> QED BY <2>1 DEF MergeJournals
<1> HIDE DEF row
<1> QED
    BY <1>1, <1>2, <1>3, OneRow
       DEF MergeJournals, Ready, SnapshotKinds, OperationKinds

\* Two rows change their link together.
LEMMA TwoRows ==
    ASSUME TypeOK, NEW j \in DOMAIN journal, NEW k \in DOMAIN journal, j # k,
           NEW from, NEW to \in Links \cup {NoLink}, pending = Idle,
           journal[j].link = from, journal[k].link = from,
           ReplaceJournals([i \in {j, k} |-> [Bumped(journal[i]) EXCEPT !.link = to]]),
           Remember, Record("edit", j, SetLink(j, k, from)),
           UNCHANGED <<log, commits, applied>>
    PROVE  \E next : LinkStep(next, j, k, from, to)
<1> DEFINE next == [i \in {j, k} |-> [Bumped(journal[i]) EXCEPT !.link = to]]
<1>1. \A i \in {j, k} : journal[i] \in Row /\ Bumped(journal[i]) \in Row
    BY BumpedRow DEF TypeOK, OnJournals
<1>2. \A i \in {j, k} : /\ next[i] \in Row
                        /\ next[i].version = journal[i].version + 1
    <2> TAKE i \in {j, k}
    <2> DEFINE b == Bumped(journal[i])
    <2>1. b \in Row /\ b.version = journal[i].version + 1
        BY <1>1, BumpedRow
    <2> HIDE DEF b
    <2>2. [b EXCEPT !.link = to] \in Row /\ [b EXCEPT !.link = to].version = b.version
        BY <2>1 DEF Row
    <2> USE DEF b
    <2> QED BY <2>1, <2>2
<1>3. /\ DOMAIN next = {j, k}
      /\ \A i \in {j, k} : next[i] = [Bumped(journal[i]) EXCEPT !.link = to]
    OBVIOUS
<1>4. ReplaceJournals(next)
    OBVIOUS
<1> HIDE DEF next
<1>5. Advance(next)
    BY <1>2, <1>3, <1>4 DEF Advance, ReplaceJournals
<1> QED
    BY <1>3, <1>5 DEF LinkStep

\* Link changes the link of two rows.
LEMMA LinkShape ==
    ASSUME TypeOK, NEW j \in Journals, NEW k \in Journals, NEW link \in Links,
           LinkTransfer(j, k, link)
    PROVE  /\ \E next : LinkStep(next, j, k, NoLink, link)
           /\ \A p \in past : p[2].link # link
<1>1. /\ j \in DOMAIN journal /\ k \in DOMAIN journal /\ j # k /\ pending = Idle
      /\ journal[j].link = NoLink /\ journal[k].link = NoLink
    BY DEF LinkTransfer, Linkable, Ready
<1> QED
    BY <1>1, TwoRows DEF LinkTransfer

\* Unlink changes the link of two rows.
LEMMA UnlinkShape ==
    ASSUME TypeOK, NEW j \in Journals, NEW k \in Journals, UnlinkTransfer(j, k)
    PROVE  \E next, link : link # NoLink /\ LinkStep(next, j, k, link, NoLink)
<1>1. /\ j \in DOMAIN journal /\ k \in DOMAIN journal /\ j # k /\ pending = Idle
      /\ journal[j].link # NoLink /\ journal[k].link = journal[j].link
    BY DEF UnlinkTransfer, Ready
<1>2. \E next : LinkStep(next, j, k, journal[j].link, NoLink)
    BY <1>1, TwoRows DEF UnlinkTransfer
<1> QED
    BY <1>1, <1>2

\* The row that undo leaves is a row, one version on.
LEMMA InvertedRow ==
    ASSUME TypeOK, NEW inv, IsInverse(inv), inv.kind # "none",
           NEW j \in DOMAIN inv.expected, j \in DOMAIN journal
    PROVE  /\ Inverted(inv, j) \in Row
           /\ Inverted(inv, j).version = journal[j].version + 1
<1>1. journal[j] \in Row /\ journal[j].version \in Nat
    BY DEF TypeOK, OnJournals, Row
<1>2. CASE inv.kind \in SnapshotKinds
    <2> DEFINE r == inv.snapshots[j]   v == journal[j].version + 1
    <2>1. r \in Row /\ v \in Nat
        BY <1>1, <1>2 DEF IsInverse, OnJournals
    <2> HIDE DEF r, v
    <2>2. [r EXCEPT !.version = v] \in Row /\ [r EXCEPT !.version = v].version = v
        BY <2>1 DEF Row
    <2> USE DEF r, v
    <2> QED BY <1>2, <2>2 DEF Inverted, applySnapshotVersion
<1>3. CASE inv.kind \notin SnapshotKinds
    <2> DEFINE b == Bumped(journal[j])
    <2>1. b \in Row /\ b.version = journal[j].version + 1
        BY <1>1, BumpedRow
    <2>2. inv.link \in Links \cup {NoLink}
        BY DEF IsInverse
    <2> HIDE DEF b
    <2>3. /\ [b EXCEPT !.deleted = TRUE] \in Row
          /\ [b EXCEPT !.deleted = TRUE].version = b.version
          /\ [b EXCEPT !.link = inv.link] \in Row
          /\ [b EXCEPT !.link = inv.link].version = b.version
        BY <2>1, <2>2 DEF Row
    <2>4. Inverted(inv, j) \in {[b EXCEPT !.deleted = TRUE], [b EXCEPT !.link = inv.link]}
        BY <1>3 DEF Inverted, b
    <2> QED BY <2>1, <2>3, <2>4
<1> QED
    BY <1>2, <1>3

\* Undo applies the inverse of one operation.
LEMMA UndoShape ==
    ASSUME TypeOK, NEW i \in 1..Len(log), HasInverse(log, i), ApplyInverse(i)
    PROVE  \E next : UndoStep(next, i)
<1> DEFINE inv  == log[i].inverse
           next == [j \in DOMAIN inv.expected |-> Inverted(inv, j)]
<1>1. IsInverse(inv) /\ inv.kind # "none"
    BY DEF TypeOK, IsOperation, HasInverse
<1>2. /\ VersionsMatch(inv) /\ DOMAIN inv.expected \subseteq DOMAIN journal
      /\ pending = Idle /\ ReplaceJournals(next) /\ Remember
      /\ pending' = [stage |-> "mark", operation |-> i]
      /\ applied' = applied \cup {i} /\ UNCHANGED <<log, commits>>
    BY DEF ApplyInverse, VersionsMatch
<1>3. \A j \in DOMAIN inv.expected : /\ Inverted(inv, j) \in Row
                                     /\ Inverted(inv, j).version = journal[j].version + 1
    BY <1>1, <1>2, InvertedRow
<1>4. /\ DOMAIN next = DOMAIN inv.expected
      /\ \A j \in DOMAIN next : next[j] = Inverted(inv, j)
    OBVIOUS
<1> HIDE DEF next
<1>5. Advance(next)
    BY <1>2, <1>3, <1>4 DEF Advance, ReplaceJournals
<1> QED
    BY <1>1, <1>2, <1>4, <1>5 DEF UndoStep, HasInverse

\* The retention drops inverses together with the undoable flag, and nothing else.
LEMMA PruneShape ==
    ASSUME NEW l, l \in Seq(Elements(l)), NEW rows
    PROVE  /\ Prune(l, rows) \in Seq(Elements(Prune(l, rows)))
           /\ Len(Prune(l, rows)) = Len(l)
           /\ \A i \in 1..Len(l) : Prune(l, rows)[i] \in {l[i], Pruned(l[i])}
<1>1. Len(l) \in Nat
    BY SequenceShape
<1>2. DOMAIN Prune(l, rows) = 1..Len(l) /\ Prune(l, rows) = [i \in 1..Len(l) |-> Prune(l, rows)[i]]
    BY DEF Prune
<1>3. Prune(l, rows) \in Seq(Elements(Prune(l, rows))) /\ Len(Prune(l, rows)) = Len(l)
    BY <1>1, <1>2, FunctionShape
<1>4. ASSUME NEW i \in 1..Len(l)
      PROVE  Prune(l, rows)[i] \in {l[i], Pruned(l[i])}
    BY DEF Prune, Pruned
<1> QED
    BY <1>3, <1>4

\* An operation stays one without its inverse, and when it is marked undone.
LEMMA ChangedOperation ==
    ASSUME NEW op, Operation(op)
    PROVE  /\ Operation(Pruned(op)) /\ Pruned(op).inverse = NoInverse
           /\ Operation(Marked(op)) /\ Marked(op).inverse = op.inverse
<1>1. IsInverse(NoInverse) /\ NoInverse.kind = "none"
    BY DEF IsInverse, NoInverse, OnJournals, Empty, InverseKinds, SnapshotKinds
<1>2. /\ op \in [kind : OperationKinds, entity : Journals \cup {NoEntity}, at : Clock,
                 undoable : BOOLEAN, undone : BOOLEAN, inverse : {op.inverse}]
      /\ IsInverse(op.inverse)
      /\ op.undoable <=> op.inverse.kind # "none"
    BY DEF Operation, IsOperation
<1>3. Operation(Pruned(op)) /\ Pruned(op).inverse = NoInverse
    BY <1>1, <1>2 DEF Operation, IsOperation, Pruned
<1>4. Operation(Marked(op)) /\ Marked(op).inverse = op.inverse
    BY <1>1, <1>2 DEF Operation, IsOperation, Marked
<1> QED
    BY <1>3, <1>4

\* Appending one operation, whose inverse is the pending one or none
LEMMA AppendedLog ==
    ASSUME TypeOK, NEW op, Operation(op),
           op.inverse.kind # "none" => op.inverse \in LiveInverses
    PROVE  LET l == Append(log, op)
           IN  /\ l \in Seq(Elements(l))
               /\ Len(l) = Len(log) + 1
               /\ \A i \in 1..Len(l) :
                     /\ Operation(l[i])
                     /\ l[i].inverse.kind # "none" => l[i].inverse \in LiveInverses
               /\ \A i \in 1..Len(log) : l[i] = log[i]
<1> DEFINE l == Append(log, op)
<1>1. log \in Seq(Elements(log)) /\ Len(log) \in Nat
    BY SequenceShape DEF TypeOK, Elements
<1>2. /\ l \in Seq(Elements(l))
      /\ Len(l) = Len(log) + 1
      /\ \A i \in 1..Len(log) : l[i] = log[i]
      /\ l[Len(log) + 1] = op
    BY <1>1, AppendShape
<1> HIDE DEF l
<1>3. ASSUME NEW i \in 1..Len(log)
      PROVE  /\ Operation(l[i])
             /\ l[i].inverse.kind # "none" => l[i].inverse \in LiveInverses
    BY <1>2 DEF TypeOK, HasInverse, LiveInverses, Operation
<1>4. \A i \in 1..Len(l) : i \in 1..Len(log) \/ i = Len(log) + 1
    BY <1>1, <1>2
<1>5. ASSUME NEW i \in 1..Len(l)
      PROVE  /\ Operation(l[i])
             /\ l[i].inverse.kind # "none" => l[i].inverse \in LiveInverses
    BY <1>2, <1>3, <1>4
<1> QED
    BY <1>2, <1>5 DEF l

\* The operation that record() appends
LEMMA RecordedOperation ==
    ASSUME TypeOK, pending.stage = "record", NEW at \in Clock
    PROVE  /\ Operation(Recorded(at))
           /\ Recorded(at).inverse \in LiveInverses
<1>1. /\ pending.kind \in OperationKinds /\ pending.entity \in Journals \cup {NoEntity}
      /\ IsInverse(pending.inverse) /\ pending.inverse.kind # "none"
    BY DEF TypeOK, IsPending, Idle
<1>2. pending.inverse \in LiveInverses
    BY DEF LiveInverses
<1> QED
    BY <1>1, <1>2 DEF Recorded, IsOperation, Operation

\* record() appends one operation; the retention only drops inverses, of all or of some.
LEMMA RecordShape ==
    ASSUME TypeOK, RecordOperation \/ CrashInPrune
    PROVE  LogStep
<1>0. PICK at \in Clock : \E rows : log' = Prune(Append(log, Recorded(at)), rows)
    BY DEF RecordOperation, CrashInPrune
<1>1. PICK rows : log' = Prune(Append(log, Recorded(at)), rows)
    BY <1>0
<1> DEFINE op == Recorded(at)
           l  == Append(log, op)
<1>2. Operation(op) /\ op.inverse \in LiveInverses
    BY RecordedOperation DEF RecordOperation, CrashInPrune
<1>3. Len(log) \in Nat
    BY SequenceShape DEF TypeOK
<1> HIDE DEF op
<1>4. /\ l \in Seq(Elements(l)) /\ Len(l) = Len(log) + 1
      /\ \A i \in 1..Len(l) :
            /\ Operation(l[i])
            /\ l[i].inverse.kind # "none" => l[i].inverse \in LiveInverses
      /\ \A i \in 1..Len(log) : l[i] = log[i]
    BY <1>2, AppendedLog
<1> HIDE DEF l
<1>5. /\ log' \in Seq(Elements(log')) /\ Len(log') = Len(l)
      /\ \A i \in 1..Len(l) :
            log'[i] \in {l[i], Pruned(l[i])}
    BY <1>1, <1>4, PruneShape DEF l, op
<1>6. ASSUME NEW i \in 1..Len(l)
      PROVE  /\ Operation(log'[i])
             /\ log'[i].inverse.kind # "none" => log'[i].inverse \in LiveInverses
             /\ log'[i].inverse \in {l[i].inverse, NoInverse}
    <2>1. NoInverse.kind = "none"
        BY DEF NoInverse
    <2> QED BY <1>4, <1>5, <2>1, ChangedOperation
<1>7. UNCHANGED <<journal, commits, past, applied>> /\ pending' = Idle
    BY DEF RecordOperation, CrashInPrune
<1>8. \A i \in 1..Len(log) : log'[i].inverse \in {log[i].inverse, NoInverse}
    BY <1>3, <1>4, <1>6
<1> QED
    BY <1>3, <1>4, <1>5, <1>6, <1>7, <1>8 DEF LogStep, HasInverse

\* The marker of an undo has no inverse.
LEMMA MarkerShape ==
    ASSUME TypeOK, AppendMarker
    PROVE  LogStep
<1>1. PICK at \in Clock :
         log' = Append(log, [kind |-> "edit", entity |-> NoEntity, at |-> at,
                             undoable |-> FALSE, undone |-> FALSE, inverse |-> NoInverse])
    BY DEF AppendMarker
<1> DEFINE op == [kind |-> "edit", entity |-> NoEntity, at |-> at,
                  undoable |-> FALSE, undone |-> FALSE, inverse |-> NoInverse]
<1>2. Operation(op) /\ op.inverse.kind = "none"
    BY DEF Operation, IsOperation, IsInverse, NoInverse, OnJournals, Empty, InverseKinds,
           SnapshotKinds, OperationKinds
<1>3. Len(log) \in Nat
    BY SequenceShape DEF TypeOK
<1> HIDE DEF op
<1>4. /\ log' \in Seq(Elements(log')) /\ Len(log') = Len(log) + 1
      /\ \A i \in 1..Len(log') :
            Operation(log'[i])
            /\ (log'[i].inverse.kind # "none" => log'[i].inverse \in LiveInverses)
      /\ \A i \in 1..Len(log) : log'[i] = log[i]
    BY <1>1, <1>2, AppendedLog DEF op
<1>5. UNCHANGED <<journal, commits, past, applied>> /\ pending' = Idle
    BY DEF AppendMarker
<1> QED
    BY <1>3, <1>4, <1>5 DEF LogStep, HasInverse

\* Marking an operation undone keeps its inverse.
LEMMA MarkShape ==
    ASSUME TypeOK, MarkUndone
    PROVE  LogStep
<1>1. pending.operation \in 1..Len(log)
    BY DEF MarkUndone, TypeOK, IsPending, Idle
<1>2. log \in Seq(Elements(log)) /\ Len(log) \in Nat /\ DOMAIN log = 1..Len(log)
    BY SequenceShape DEF TypeOK, Elements
<1>3. /\ log' = [i \in 1..Len(log) |-> log'[i]] /\ DOMAIN log' = 1..Len(log)
      /\ \A i \in 1..Len(log) : log'[i] \in {log[i], Marked(log[i])}
    BY <1>1, <1>2 DEF MarkUndone, Marked
<1>4. log' \in Seq(Elements(log')) /\ Len(log') = Len(log)
    BY <1>2, <1>3, FunctionShape
<1>5. ASSUME NEW i \in 1..Len(log)
      PROVE  /\ Operation(log'[i]) /\ log'[i].inverse = log[i].inverse
             /\ log'[i].inverse.kind # "none" => log'[i].inverse \in LiveInverses
    <2>1. Operation(log[i])
        BY DEF TypeOK, HasInverse, Operation
    <2>2. Operation(log'[i]) /\ log'[i].inverse = log[i].inverse
        BY <1>3, <2>1, ChangedOperation
    <2> QED BY <2>2 DEF LiveInverses, HasInverse
<1>6. /\ UNCHANGED <<journal, commits, past, applied>>
      /\ pending' = [stage |-> "marker"]
    BY DEF MarkUndone
<1> QED
    BY <1>2, <1>4, <1>5, <1>6 DEF LogStep, HasInverse

\* A crash forgets what the request had still to do.
LEMMA CrashShape ==
    ASSUME TypeOK, Crash
    PROVE  LogStep
<1>1. log \in Seq(Elements(log)) /\ Len(log) \in Nat
    BY SequenceShape DEF TypeOK, Elements
<1> QED
    BY <1>1 DEF LogStep, Crash, TypeOK, HasInverse, LiveInverses, Elements, Operation

\* Every step has one of the shapes.
LEMMA StepShape ==
    ASSUME TypeOK, Next
    PROVE  \/ \E ids \in SUBSET Journals : CommitImport(ids) \/ RepeatCommit(ids)
           \/ \E next, kind, operation : \E j \in Journals :
                 EditStep(next, kind, operation, j)
           \/ \E next : \E j, k \in Journals, link \in Links :
                 /\ LinkStep(next, j, k, NoLink, link)
                 /\ \A p \in past : p[2].link # link
           \/ \E next, link : \E j, k \in Journals :
                 link # NoLink /\ LinkStep(next, j, k, link, NoLink)
           \/ \E next, i : UndoStep(next, i)
           \/ LogStep
<1>1. CASE \E ids \in SUBSET Journals : CommitImport(ids) \/ RepeatCommit(ids)
    BY <1>1
<1>2. CASE \E j \in Journals : DeleteJournal(j) \/ UpdateJournal(j) \/ ClassifyJournal(j)
    BY <1>2, DeleteShape, UpdateShape, ClassifyShape
<1>3. CASE \E j, k \in Journals : MergeJournals(j, k)
    BY <1>3, MergeShape
<1>4. CASE \E j, k \in Journals : UnlinkTransfer(j, k)
    BY <1>4, UnlinkShape
<1>5. CASE \E j, k \in Journals, link \in Links : LinkTransfer(j, k, link)
    BY <1>5, LinkShape
<1>6. CASE \E i \in 1..Len(log) : UndoOperation(i)
    BY <1>6, UndoShape DEF UndoOperation, Undoable
<1>7. CASE UndoLatest
    <2>1. PICK cutoff \in Clock : \E i \in latestForUndo(cutoff) : ApplyInverse(i)
        BY <1>7 DEF UndoLatest
    <2>2. PICK i \in latestForUndo(cutoff) : ApplyInverse(i)
        BY <2>1
    <2>3. i \in 1..Len(log) /\ HasInverse(log, i)
        BY DEF latestForUndo
    <2> QED BY <2>2, <2>3, UndoShape
<1>8. CASE RecordOperation \/ CrashInPrune \/ MarkUndone \/ AppendMarker \/ Crash
    BY <1>8, RecordShape, MarkShape, MarkerShape, CrashShape
<1> QED
    BY <1>1, <1>2, <1>3, <1>4, <1>5, <1>6, <1>7, <1>8 DEF Next

-----------------------------------------------------------------------------
(* Type correctness *)

\* A transaction keeps the types of the rows and of the history.
LEMMA AdvanceTypes ==
    ASSUME TypeOK, NEW next, Advance(next)
    PROVE  /\ OnJournals(journal, Row)' /\ DOMAIN journal' = DOMAIN journal
           /\ (past \subseteq Journals \X Row)'
<1>1. DOMAIN journal \subseteq Journals /\ journal \in [DOMAIN journal -> Row]
    BY DEF TypeOK, OnJournals
<1>2. /\ DOMAIN journal' = DOMAIN journal
      /\ \A j \in DOMAIN journal : journal'[j] \in Row
      /\ journal' = [j \in DOMAIN journal |-> journal'[j]]
    BY <1>1 DEF Advance
<1>3. past' = past \cup {<<j, journal'[j]>> : j \in DOMAIN journal'}
    BY DEF Advance, Remember
<1> QED
    BY <1>1, <1>2, <1>3 DEF OnJournals, TypeOK

\* The inverses that requests leave are inverses.
LEMMA InverseTypes ==
    ASSUME TypeOK
    PROVE  /\ \A j \in DOMAIN journal, kind \in SnapshotKinds :
                 IsInverse(Snapshot(kind, j)) /\ Snapshot(kind, j).kind # "none"
           /\ \A j, k \in DOMAIN journal : \A link \in Links \cup {NoLink} :
                 IsInverse(SetLink(j, k, link)) /\ SetLink(j, k, link).kind # "none"
           /\ \A ids \in SUBSET Journals :
                 IsInverse(SoftDelete(ids)) /\ SoftDelete(ids).kind # "none"
<1>1. /\ DOMAIN journal \subseteq Journals
      /\ \A j \in DOMAIN journal : journal[j] \in Row /\ journal[j].version + 1 \in Nat
    BY DEF TypeOK, OnJournals, Row
<1>2. ASSUME NEW j \in DOMAIN journal, NEW kind \in SnapshotKinds
      PROVE  IsInverse(Snapshot(kind, j)) /\ Snapshot(kind, j).kind # "none"
    BY <1>1 DEF IsInverse, OnJournals, Snapshot, SnapshotKinds, InverseKinds
<1>3. ASSUME NEW j \in DOMAIN journal, NEW k \in DOMAIN journal,
             NEW link \in Links \cup {NoLink}
      PROVE  IsInverse(SetLink(j, k, link)) /\ SetLink(j, k, link).kind # "none"
    BY <1>1 DEF IsInverse, OnJournals, SetLink, SnapshotKinds, InverseKinds, Empty
<1>4. ASSUME NEW ids \in SUBSET Journals
      PROVE  IsInverse(SoftDelete(ids)) /\ SoftDelete(ids).kind # "none"
    BY DEF IsInverse, OnJournals, SoftDelete, SnapshotKinds, InverseKinds, Empty
<1> QED
    BY <1>2, <1>3, <1>4

\* What a request leaves for record() has its type.
LEMMA RecordTypes ==
    ASSUME NEW kind \in OperationKinds, NEW entity \in Journals \cup {NoEntity},
           NEW inv, IsInverse(inv), inv.kind # "none", Record(kind, entity, inv)
    PROVE  IsPending(pending)'
    BY DEF Record, IsPending

\* A committed batch adds rows of version 0 for ids that had none.
LEMMA CommitTypes ==
    ASSUME TypeOK, NEW ids \in SUBSET Journals, CommitImport(ids)
    PROVE  /\ DOMAIN journal' = DOMAIN journal \cup ids
           /\ \A j \in DOMAIN journal : journal'[j] = journal[j]
           /\ \A j \in ids : /\ journal'[j] \in Row /\ journal'[j].version = 0
                             /\ journal'[j].link = NoLink
           /\ OnJournals(journal, Row)' /\ (past \subseteq Journals \X Row)'
<1>1. DOMAIN journal \subseteq Journals /\ journal \in [DOMAIN journal -> Row]
    BY DEF TypeOK, OnJournals
<1>2. PICK text \in Texts, category \in Categories :
         journal' = [j \in DOMAIN journal \cup ids |->
                       IF j \in ids
                       THEN [version |-> 0, text |-> text, category |-> category,
                             deleted |-> FALSE, link |-> NoLink]
                       ELSE journal[j]]
    BY DEF CommitImport
<1>3. /\ DOMAIN journal' = DOMAIN journal \cup ids
      /\ ids \cap DOMAIN journal = {}
      /\ \A j \in DOMAIN journal : journal'[j] = journal[j]
    BY <1>2 DEF CommitImport
<1>4. \A j \in ids : /\ journal'[j] \in Row /\ journal'[j].version = 0
                     /\ journal'[j].link = NoLink
    BY <1>2 DEF Row
<1>5. /\ journal' = [j \in DOMAIN journal' |-> journal'[j]]
      /\ \A j \in DOMAIN journal' : journal'[j] \in Row
    BY <1>1, <1>2, <1>3, <1>4
<1>6. past' = past \cup {<<j, journal'[j]>> : j \in DOMAIN journal'}
    BY DEF CommitImport, Remember
<1> QED
    BY <1>1, <1>3, <1>4, <1>5, <1>6 DEF OnJournals, TypeOK

\* The variables start with their types.
LEMMA InitTypes == Init => TypeOK
<1> SUFFICES ASSUME Init PROVE TypeOK
    OBVIOUS
<1>1. Len(log) = 0 /\ log \in Seq({log[i] : i \in 1..Len(log)})
    BY DEF Init
<1>2. \A i \in 1..Len(log) : FALSE
    BY <1>1
<1>3. OnJournals(journal, Row)
    BY DEF Init, OnJournals, Empty
<1> QED
    BY <1>1, <1>2, <1>3 DEF Init, TypeOK, IsPending

\* Every step keeps the types.
LEMMA StepTypes == TypeOK /\ [Next]_vars => TypeOK'
<1> SUFFICES ASSUME TypeOK, [Next]_vars PROVE TypeOK'
    OBVIOUS
<1>1. \* the parts of TypeOK about the log, when it stays
      ASSUME UNCHANGED log
      PROVE  /\ (log \in Seq({log[i] : i \in 1..Len(log)}))'
             /\ (\A i \in 1..Len(log) :
                    IsOperation(log[i]) /\ (log[i].undoable <=> HasInverse(log, i)))'
    BY <1>1 DEF TypeOK, HasInverse
<1>2. ASSUME NEW ids \in SUBSET Journals, CommitImport(ids)
      PROVE  TypeOK'
    <2>1. IsPending(pending)'
        BY <1>2, InverseTypes, RecordTypes DEF CommitImport, OperationKinds
    <2>2. commits' = commits \cup {ids} /\ ids # {} /\ UNCHANGED <<log, applied>>
        BY <1>2 DEF CommitImport
    <2>3. (commits \subseteq (SUBSET DOMAIN journal) \ {{}})'
        <3>1. DOMAIN journal' = DOMAIN journal \cup ids
            BY <1>2, CommitTypes
        <3>2. \A c \in commits : c \subseteq DOMAIN journal /\ c # {}
            BY DEF TypeOK
        <3>3. \A c \in commits' : c \subseteq DOMAIN journal' /\ c # {}
            BY <2>2, <3>1, <3>2
        <3> QED BY <3>3
    <2> QED BY <1>1, <1>2, <2>1, <2>2, <2>3, CommitTypes DEF TypeOK
<1>3. ASSUME NEW ids \in SUBSET Journals, RepeatCommit(ids)
      PROVE  TypeOK'
    <2>1. IsPending(pending)'
        BY <1>3, InverseTypes, RecordTypes DEF RepeatCommit, OperationKinds
    <2>2. UNCHANGED <<journal, log, commits, past, applied>>
        BY <1>3 DEF RepeatCommit
    <2> QED BY <1>1, <2>1, <2>2 DEF TypeOK, OnJournals
<1>4. ASSUME NEW next, NEW kind, NEW operation, NEW j \in Journals,
             EditStep(next, kind, operation, j)
      PROVE  TypeOK'
    <2>1. Advance(next) /\ j \in DOMAIN journal /\ UNCHANGED <<log, commits, applied>>
        BY <1>4 DEF EditStep, Advance
    <2>2. IsPending(pending)'
        BY <1>4, <2>1, InverseTypes, RecordTypes DEF EditStep
    <2> QED BY <1>1, <2>1, <2>2, AdvanceTypes DEF TypeOK
<1>5. ASSUME NEW next, NEW j \in Journals, NEW k \in Journals,
             NEW from, NEW to, LinkStep(next, j, k, from, to)
      PROVE  TypeOK'
    <2>1. /\ Advance(next) /\ j \in DOMAIN journal /\ k \in DOMAIN journal
          /\ UNCHANGED <<log, commits, applied>>
        BY <1>5 DEF LinkStep, Advance
    <2>2. from \in Links \cup {NoLink}
        BY <1>5, <2>1 DEF LinkStep, TypeOK, OnJournals, Row
    <2>3. IsPending(pending)'
        BY <1>5, <2>1, <2>2, InverseTypes, RecordTypes DEF LinkStep, OperationKinds
    <2> QED BY <1>1, <2>1, <2>3, AdvanceTypes DEF TypeOK
<1>6. ASSUME NEW next, NEW i, UndoStep(next, i)
      PROVE  TypeOK'
    <2>1. /\ Advance(next) /\ i \in 1..Len(log) /\ UNCHANGED <<log, commits>>
          /\ pending' = [stage |-> "mark", operation |-> i]
          /\ applied' = applied \cup {i}
        BY <1>6 DEF UndoStep
    <2>2. IsPending(pending)' /\ (applied \subseteq 1..Len(log))'
        BY <2>1 DEF IsPending, TypeOK
    <2> QED BY <1>1, <2>1, <2>2, AdvanceTypes DEF TypeOK
<1>7. CASE LogStep
    <2>1. /\ (log \in Seq({log[i] : i \in 1..Len(log)}))'
          /\ (\A i \in 1..Len(log) :
                 IsOperation(log[i]) /\ (log[i].undoable <=> HasInverse(log, i)))'
        BY <1>7 DEF LogStep, Operation, HasInverse, Elements
    <2>2. IsPending(pending)'
        BY <1>7 DEF LogStep, IsPending
    <2>3. Len(log) \in Nat /\ Len(log') \in Nat /\ Len(log) <= Len(log')
        BY <1>7, SequenceShape DEF LogStep, TypeOK
    <2>4. UNCHANGED <<journal, commits, past, applied>>
        BY <1>7 DEF LogStep
    <2> QED BY <2>1, <2>2, <2>3, <2>4 DEF TypeOK, OnJournals
<1>8. CASE UNCHANGED vars
    BY <1>8 DEF vars, TypeOK, OnJournals, HasInverse, IsPending
<1> QED
    BY <1>2, <1>3, <1>4, <1>5, <1>6, <1>7, <1>8, StepShape

\* Every variable keeps its type, and an operation is offered for undo exactly when its
\* inverse is still there: record() and the retention change the two columns together.
THEOREM TypeCorrect == Spec => []TypeOK
<1>1. Init => TypeOK
    BY InitTypes
<1>2. TypeOK /\ [Next]_vars => TypeOK'
    BY StepTypes
<1> QED
    BY <1>1, <1>2, PTL DEF Spec

-----------------------------------------------------------------------------
(* The history *)

\* A step adds "new" to the history: the rows that replace a journal's row, with a later
\* version, and the first rows of new journals.
Grows(new) ==
    /\ DOMAIN journal \subseteq DOMAIN journal'
    /\ past' = past \cup new
    /\ \A p \in new : /\ p \in Journals \X Row
                      /\ p[1] \in DOMAIN journal' /\ p[2] = journal'[p[1]]
                      /\ p[1] \in DOMAIN journal => journal[p[1]].version < p[2].version
    /\ \A j \in DOMAIN journal' :
          \/ j \in DOMAIN journal /\ journal'[j] = journal[j]
          \/ <<j, journal'[j]>> \in new

\* A transaction adds the new rows to the history, each one version on.
LEMMA AdvanceGrows ==
    ASSUME TypeOK, PastEndsInJournal, NEW next, Advance(next)
    PROVE  Grows({<<j, next[j]>> : j \in DOMAIN next})
<1> DEFINE new == {<<j, next[j]>> : j \in DOMAIN next}
<1>1. /\ DOMAIN journal \subseteq Journals
      /\ \A j \in DOMAIN journal : journal[j] \in Row /\ journal[j].version \in Nat
    BY DEF TypeOK, OnJournals, Row
<1>2. /\ DOMAIN next \subseteq DOMAIN journal /\ DOMAIN journal' = DOMAIN journal
      /\ \A j \in DOMAIN next : /\ next[j] \in Row /\ journal'[j] = next[j]
                                /\ next[j].version = journal[j].version + 1
      /\ \A j \in DOMAIN journal \ DOMAIN next : journal'[j] = journal[j]
      /\ past' = past \cup {<<j, journal'[j]>> : j \in DOMAIN journal}
    BY DEF Advance, Remember
<1>3. past' = past \cup new
    BY <1>2 DEF PastEndsInJournal
<1>4. ASSUME NEW p \in new
      PROVE  /\ p \in Journals \X Row
             /\ p[1] \in DOMAIN journal' /\ p[2] = journal'[p[1]]
             /\ p[1] \in DOMAIN journal => journal[p[1]].version < p[2].version
    <2>1. PICK j \in DOMAIN next : p = <<j, next[j]>>
        OBVIOUS
    <2> QED BY <1>1, <1>2, <2>1
<1>5. \A j \in DOMAIN journal' :
          \/ j \in DOMAIN journal /\ journal'[j] = journal[j]
          \/ <<j, journal'[j]>> \in new
    BY <1>2
<1> QED
    BY <1>2, <1>3, <1>4, <1>5 DEF Grows

\* A committed batch adds rows for ids that had none.
LEMMA CommitGrows ==
    ASSUME TypeOK, PastEndsInJournal, NEW ids \in SUBSET Journals, CommitImport(ids)
    PROVE  Grows({<<j, journal'[j]>> : j \in ids})
<1> DEFINE new == {<<j, journal'[j]>> : j \in ids}
<1>1. /\ DOMAIN journal' = DOMAIN journal \cup ids
      /\ \A j \in DOMAIN journal : journal'[j] = journal[j]
      /\ \A j \in ids : journal'[j] \in Row
    BY CommitTypes
<1>2. past' = past \cup {<<j, journal'[j]>> : j \in DOMAIN journal'}
    BY DEF CommitImport, Remember
<1>3. past' = past \cup new
    BY <1>1, <1>2 DEF PastEndsInJournal
<1>4. ids \cap DOMAIN journal = {}
    BY DEF CommitImport
<1>5. ASSUME NEW p \in new
      PROVE  /\ p \in Journals \X Row
             /\ p[1] \in DOMAIN journal' /\ p[2] = journal'[p[1]]
             /\ p[1] \in DOMAIN journal => journal[p[1]].version < p[2].version
    <2>1. PICK j \in ids : p = <<j, journal'[j]>>
        OBVIOUS
    <2> QED BY <1>1, <1>4, <2>1
<1>6. \A j \in DOMAIN journal' :
          \/ j \in DOMAIN journal /\ journal'[j] = journal[j]
          \/ <<j, journal'[j]>> \in new
    BY <1>1
<1> QED
    BY <1>1, <1>3, <1>5, <1>6 DEF Grows

\* No journal disappears and no version goes back.
LEMMA GrowsVersions ==
    ASSUME NEW new, Grows(new), TypeOK, TypeOK'
    PROVE  \A j \in DOMAIN journal : /\ j \in DOMAIN journal'
                                     /\ journal[j].version <= journal'[j].version
<1> SUFFICES ASSUME NEW j \in DOMAIN journal
             PROVE  j \in DOMAIN journal' /\ journal[j].version <= journal'[j].version
    OBVIOUS
<1>1. /\ j \in DOMAIN journal'
      /\ journal[j].version \in Nat /\ journal'[j].version \in Nat
    BY DEF Grows, TypeOK, OnJournals, Row
<1>2. CASE journal'[j] = journal[j]
    BY <1>1, <1>2
<1>3. CASE <<j, journal'[j]>> \in new
    BY <1>1, <1>3 DEF Grows
<1> QED
    BY <1>1, <1>2, <1>3 DEF Grows

\* Versions only grow, so a version keeps naming one row.
LEMMA GrowsHistory ==
    ASSUME TypeOK, TypeOK', PastEndsInJournal, VersionIdentifiesRow,
           NEW new, Grows(new)
    PROVE  PastEndsInJournal' /\ VersionIdentifiesRow'
<1>1. /\ \A p \in past : /\ p = <<p[1], p[2]>> /\ p[2].version \in Nat
      /\ \A j \in DOMAIN journal : journal[j].version \in Nat
      /\ \A j \in DOMAIN journal' : journal'[j].version \in Nat
      /\ \A p \in new : p = <<p[1], p[2]>>
    BY DEF TypeOK, OnJournals, Row, Grows
<1>2. \A j \in DOMAIN journal' : <<j, journal'[j]>> \in past'
    BY DEF Grows, PastEndsInJournal
<1>3. ASSUME NEW p \in past
      PROVE  /\ p[1] \in DOMAIN journal'
             /\ p[2].version <= journal'[p[1]].version
             /\ p[2].version = journal'[p[1]].version => p[2] = journal'[p[1]]
    <2>1. /\ p[1] \in DOMAIN journal /\ p[2].version <= journal[p[1]].version
          /\ p[2].version = journal[p[1]].version => p[2] = journal[p[1]]
        BY DEF PastEndsInJournal
    <2>2. \/ journal'[p[1]] = journal[p[1]]
          \/ journal[p[1]].version < journal'[p[1]].version
        BY <2>1 DEF Grows
    <2> QED BY <1>1, <2>1, <2>2 DEF Grows
<1>4. \A p \in new : /\ p[1] \in DOMAIN journal' /\ p[2] = journal'[p[1]]
                     /\ p[2].version <= journal'[p[1]].version
    BY <1>1 DEF Grows
<1>5. past' = past \cup new
    BY DEF Grows
<1>6. PastEndsInJournal'
    BY <1>2, <1>3, <1>4, <1>5 DEF PastEndsInJournal
<1>7. ASSUME NEW p \in past', NEW q \in past', p[1] = q[1], p[2].version = q[2].version
      PROVE  p = q
    <2>1. CASE p \in past /\ q \in past
        BY <1>7, <2>1 DEF VersionIdentifiesRow
    <2>2. CASE p \in new /\ q \in new
        BY <1>1, <1>4, <1>7, <2>2
    <2>3. \A r \in past, s \in new : r[1] = s[1] => r[2].version < s[2].version
        BY <1>1 DEF Grows, PastEndsInJournal, TypeOK, Row
    <2> QED BY <1>1, <1>5, <1>7, <2>1, <2>2, <2>3
<1> QED
    BY <1>6, <1>7 DEF VersionIdentifiesRow

\* A sound inverse stays sound as long as no other journal takes the link it restores.
LEMMA SoundStays ==
    ASSUME TypeOK, TypeOK', PastEndsInJournal, NEW new, Grows(new),
           NEW inv, IsInverse(inv), InverseSound(inv),
           inv.kind = "set-transfer-link" /\ inv.link # NoLink
             => Holders(inv.link)' \subseteq DOMAIN inv.expected
    PROVE  InverseSound(inv)'
<1>1. /\ \A j \in DOMAIN journal : journal[j].version \in Nat
      /\ \A j \in DOMAIN journal' : journal'[j].version \in Nat
      /\ \A j \in DOMAIN inv.expected : inv.expected[j] \in Nat
    BY DEF TypeOK, OnJournals, Row, IsInverse
<1>2. \A j \in DOMAIN inv.expected :
         /\ j \in DOMAIN journal /\ inv.expected[j] <= journal[j].version
         /\ j \in DOMAIN journal' /\ inv.expected[j] <= journal'[j].version
    <2>1. \A j \in DOMAIN journal : /\ j \in DOMAIN journal'
                                    /\ journal[j].version <= journal'[j].version
        BY <1>1, GrowsVersions
    <2> QED BY <1>1, <2>1 DEF InverseSound
<1>3. ASSUME NEW j \in DOMAIN inv.expected, NEW s \in PastRows', Result(inv, j, s)'
      PROVE  s \in PastRows /\ Result(inv, j, s)
    <2>1. <<j, s>> \notin new
        BY <1>1, <1>2, <1>3 DEF Result, Grows
    <2> QED BY <1>3, <2>1 DEF Result, Grows, PastRows
<1>4. \A j \in DOMAIN inv.expected : \A r : Replaced(inv, j, r) => Replaced(inv, j, r)'
    BY DEF Replaced, Grows
<1>5. PastRows \subseteq PastRows'
    BY DEF PastRows, Grows
<1>6. CASE inv.kind \in SnapshotKinds
    BY <1>2, <1>3, <1>4, <1>6 DEF InverseSound, SnapshotSound, SnapshotKinds
<1>7. CASE inv.kind = "set-transfer-link"
    <2>1. SetLinkSound(inv)
        BY <1>7 DEF InverseSound
    <2>2. SetLinkSound(inv)'
        BY <1>3, <1>4, <1>5, <1>7, <2>1 DEF SetLinkSound
    <2> QED BY <1>2, <1>7, <2>2 DEF InverseSound, SnapshotKinds
<1>8. CASE inv.kind \notin SnapshotKinds \cup {"set-transfer-link"}
    BY <1>2, <1>8 DEF InverseSound
<1> QED
    BY <1>6, <1>7, <1>8

\* The history as the code's version numbers keep it
History == TypeOK /\ PastEndsInJournal /\ VersionIdentifiesRow

\* Every step keeps the history sound.
LEMMA StepHistory == History /\ [Next]_vars => History'
<1> SUFFICES ASSUME History, [Next]_vars PROVE History'
    OBVIOUS
<1>1. TypeOK /\ TypeOK' /\ PastEndsInJournal /\ VersionIdentifiesRow
    BY StepTypes DEF History
<1>2. ASSUME NEW next, Advance(next)
      PROVE  PastEndsInJournal' /\ VersionIdentifiesRow'
    BY <1>1, <1>2, AdvanceGrows, GrowsHistory
<1>3. ASSUME UNCHANGED <<journal, past>>
      PROVE  PastEndsInJournal' /\ VersionIdentifiesRow'
    BY <1>1, <1>3 DEF PastEndsInJournal, VersionIdentifiesRow
<1>4. ASSUME NEW ids \in SUBSET Journals, CommitImport(ids)
      PROVE  PastEndsInJournal' /\ VersionIdentifiesRow'
    BY <1>1, <1>4, CommitGrows, GrowsHistory
<1>5. ASSUME NEW ids \in SUBSET Journals, RepeatCommit(ids)
      PROVE  UNCHANGED <<journal, past>>
    BY <1>5 DEF RepeatCommit
<1>6. ASSUME NEW next, NEW kind, NEW operation, NEW j, EditStep(next, kind, operation, j)
      PROVE  Advance(next)
    BY <1>6 DEF EditStep
<1>7. ASSUME NEW next, NEW j, NEW k, NEW from, NEW to, LinkStep(next, j, k, from, to)
      PROVE  Advance(next)
    BY <1>7 DEF LinkStep
<1>8. ASSUME NEW next, NEW i, UndoStep(next, i)
      PROVE  Advance(next)
    BY <1>8 DEF UndoStep
<1>9. LogStep \/ UNCHANGED vars => UNCHANGED <<journal, past>>
    BY DEF LogStep, vars
<1> QED
    BY <1>1, <1>2, <1>3, <1>4, <1>5, <1>6, <1>7, <1>8, <1>9, StepShape DEF History

\* The history starts sound.
LEMMA InitHistory == Init => History
<1> SUFFICES ASSUME Init PROVE History
    OBVIOUS
<1>1. TypeOK
    BY InitTypes
<1>2. DOMAIN journal = {} /\ past = {}
    BY DEF Init, Empty
<1> QED
    BY <1>1, <1>2 DEF History, PastEndsInJournal, VersionIdentifiesRow

\* A version number names one content of a journal for ever: undo writes back an old
\* content under a new version, so the optimistic checks of a request and of an inverse
\* cannot be met by a row other than the one they were made from.
THEOREM VersionsNameRows == Spec => []VersionIdentifiesRow
<1>1. Init => History
    BY InitHistory
<1>2. History /\ [Next]_vars => History'
    BY StepHistory
<1>3. History => VersionIdentifiesRow
    BY DEF History
<1> QED
    BY <1>1, <1>2, <1>3, PTL DEF Spec

-----------------------------------------------------------------------------
(* Transfer links *)

\* A step that changes no link keeps the pairs.
LEMMA SameLinks ==
    ASSUME TypeOK, TypeOK', PastEndsInJournal, LinksPairedForEver, NEW new, Grows(new),
           \A p \in new : p[2].link = IF p[1] \in DOMAIN journal
                                      THEN journal[p[1]].link ELSE NoLink
    PROVE  /\ LinksPairedForEver'
           /\ \A link : link # NoLink => Holders(link)' = Holders(link)
<1>1. \A p \in past : p = <<p[1], p[2]>>
    BY DEF TypeOK
<1>2. \A p \in new : p[2].link # NoLink =>
         p[1] \in DOMAIN journal /\ <<p[1], journal[p[1]]>> \in past
           /\ journal[p[1]].link = p[2].link
    BY DEF PastEndsInJournal
<1>3. ASSUME NEW link, link # NoLink
      PROVE  Holders(link)' = Holders(link)
    BY <1>2, <1>3 DEF Holders, Grows
<1>4. \A j \in DOMAIN journal' :
         journal'[j].link # NoLink => /\ j \in DOMAIN journal
                                      /\ journal'[j].link = journal[j].link
    BY DEF Grows
<1>5. \A j \in DOMAIN journal : /\ j \in DOMAIN journal'
                                /\ journal'[j].link = journal[j].link
    BY DEF Grows
<1>6. ASSUME NEW link \in Links, NEW j \in DOMAIN journal', journal'[j].link = link
      PROVE  \E k \in DOMAIN journal' \ {j} :
                journal'[k].link = link /\ Holders(link)' \subseteq {j, k}
    <2>1. link # NoLink
        BY SentinelAssumption
    <2>2. PICK k \in DOMAIN journal \ {j} :
             journal[k].link = link /\ Holders(link) \subseteq {j, k}
        BY <1>4, <1>6, <2>1 DEF LinksPairedForEver
    <2> QED BY <1>3, <1>5, <2>1, <2>2
<1> QED
    BY <1>3, <1>6 DEF LinksPairedForEver

\* A step that takes a link off both journals of its pair
LEMMA CutLinks ==
    ASSUME TypeOK, TypeOK', PastEndsInJournal, LinksPairedForEver,
           NEW next, Advance(next), NEW j, NEW k, j # k, DOMAIN next = {j, k},
           journal[j].link # NoLink, journal[k].link = journal[j].link,
           next[j].link = NoLink, next[k].link = NoLink
    PROVE  /\ LinksPairedForEver'
           /\ \A link : link # NoLink => Holders(link)' = Holders(link)
<1> DEFINE new == {<<i, next[i]>> : i \in DOMAIN next}
<1>1. Grows(new)
    BY AdvanceGrows
<1>2. \A p \in new : p[2].link = NoLink
    OBVIOUS
<1>3. past' = past \cup new
    BY <1>1 DEF Grows
<1>4. ASSUME NEW link, link # NoLink
      PROVE  Holders(link)' = Holders(link)
    BY <1>2, <1>3, <1>4 DEF Holders
<1>5. /\ j \in DOMAIN journal /\ k \in DOMAIN journal /\ DOMAIN journal' = DOMAIN journal
      /\ journal'[j].link = NoLink /\ journal'[k].link = NoLink
      /\ \A i \in DOMAIN journal \ {j, k} : journal'[i] = journal[i]
    BY DEF Advance
<1>6. \A i \in DOMAIN journal : i \in Holders(journal[i].link)
    BY DEF Holders, PastEndsInJournal, TypeOK, OnJournals
<1>7. Holders(journal[j].link) \subseteq {j, k}
    <2>1. PICK i \in DOMAIN journal \ {j} : Holders(journal[j].link) \subseteq {j, i}
        BY <1>5 DEF LinksPairedForEver, TypeOK, OnJournals, Row
    <2>2. k \in Holders(journal[j].link)
        BY <1>5, <1>6
    <2> QED BY <2>1, <2>2
<1>8. ASSUME NEW link \in Links, NEW i \in DOMAIN journal', journal'[i].link = link
      PROVE  \E l \in DOMAIN journal' \ {i} :
                journal'[l].link = link /\ Holders(link)' \subseteq {i, l}
    <2>1. i \in DOMAIN journal \ {j, k} /\ journal'[i] = journal[i] /\ link # NoLink
        BY <1>5, <1>8, SentinelAssumption
    <2>2. PICK l \in DOMAIN journal \ {i} :
             journal[l].link = link /\ Holders(link) \subseteq {i, l}
        BY <1>8, <2>1 DEF LinksPairedForEver
    <2>3. l \notin {j, k}
        BY <1>5, <1>6, <1>7, <1>8, <2>1, <2>2
    <2> QED BY <1>4, <1>5, <2>1, <2>2, <2>3
<1> QED
    BY <1>4, <1>8 DEF LinksPairedForEver

\* A step that puts a link on two journals without one, which alone may have carried it
LEMMA MakeLinks ==
    ASSUME TypeOK, TypeOK', PastEndsInJournal, LinksPairedForEver,
           NEW next, Advance(next), NEW j, NEW k, j # k, DOMAIN next = {j, k},
           NEW to \in Links, Holders(to) \subseteq {j, k},
           journal[j].link = NoLink, journal[k].link = NoLink,
           next[j].link = to, next[k].link = to
    PROVE  /\ LinksPairedForEver'
           /\ \A link : link \notin {NoLink, to} => Holders(link)' = Holders(link)
           /\ Holders(to)' \subseteq {j, k}
<1> DEFINE new == {<<i, next[i]>> : i \in DOMAIN next}
<1>1. Grows(new)
    BY AdvanceGrows
<1>2. \A p \in new : p[1] \in {j, k} /\ p[2].link = to
    OBVIOUS
<1>3. past' = past \cup new
    BY <1>1 DEF Grows
<1>4. ASSUME NEW link, link \notin {NoLink, to}
      PROVE  Holders(link)' = Holders(link)
    BY <1>2, <1>3, <1>4 DEF Holders
<1>5. Holders(to)' \subseteq {j, k}
    BY <1>2, <1>3 DEF Holders
<1>6. /\ j \in DOMAIN journal /\ k \in DOMAIN journal /\ DOMAIN journal' = DOMAIN journal
      /\ journal'[j].link = to /\ journal'[k].link = to
      /\ \A i \in DOMAIN journal \ {j, k} : journal'[i] = journal[i]
    BY DEF Advance
<1>7. \A i \in DOMAIN journal : i \in Holders(journal[i].link)
    BY DEF Holders, PastEndsInJournal, TypeOK, OnJournals
<1>8. ASSUME NEW link \in Links, NEW i \in DOMAIN journal', journal'[i].link = link
      PROVE  \E l \in DOMAIN journal' \ {i} :
                journal'[l].link = link /\ Holders(link)' \subseteq {i, l}
    <2>1. CASE i \in {j, k}
        BY <1>5, <1>6, <1>8, <2>1
    <2>2. CASE i \notin {j, k}
        <3>1. i \in DOMAIN journal /\ journal'[i] = journal[i] /\ link # NoLink
            BY <1>6, <2>2, SentinelAssumption
        <3>2. link # to
            BY <1>7, <1>8, <2>2, <3>1
        <3>3. PICK l \in DOMAIN journal \ {i} :
                 journal[l].link = link /\ Holders(link) \subseteq {i, l}
            BY <1>8, <3>1 DEF LinksPairedForEver
        <3>4. l \notin {j, k}
            BY <3>1, <3>3
        <3> QED BY <1>4, <1>6, <3>1, <3>2, <3>3, <3>4
    <2> QED BY <2>1, <2>2
<1> QED
    BY <1>4, <1>5, <1>8 DEF LinksPairedForEver

-----------------------------------------------------------------------------
(* The inverses *)

\* What a live inverse is known to be
LEMMA LiveInverse ==
    ASSUME IInv
    PROVE  \A inv \in LiveInverses :
              IsInverse(inv) /\ inv.kind # "none" /\ InverseSound(inv)
<1>1. \A i \in 1..Len(log) : IsOperation(log[i])
    BY DEF IInv, TypeOK
<1>2. pending.stage = "record" => IsInverse(pending.inverse) /\ pending.inverse.kind # "none"
    BY DEF IInv, TypeOK, IsPending, Idle
<1> QED
    BY <1>1, <1>2 DEF LiveInverses, HasInverse, IsOperation, IInv, InversesSound

\* The live inverses stay sound when no link they restore goes to another journal.
LEMMA LiveStaySound ==
    ASSUME IInv, TypeOK', NEW new, Grows(new),
           \A inv \in LiveInverses :
              inv.kind = "set-transfer-link" /\ inv.link # NoLink
                => Holders(inv.link)' \subseteq DOMAIN inv.expected
    PROVE  \A inv \in LiveInverses : InverseSound(inv)'
    BY LiveInverse, SoundStays DEF IInv

\* ... in particular when no link at all goes to another journal.
LEMMA LinksStaySound ==
    ASSUME IInv, TypeOK', NEW new, Grows(new),
           \A link : link # NoLink => Holders(link)' = Holders(link)
    PROVE  \A inv \in LiveInverses : InverseSound(inv)'
<1>1. ASSUME NEW inv \in LiveInverses, inv.kind = "set-transfer-link", inv.link # NoLink
      PROVE  Holders(inv.link)' \subseteq DOMAIN inv.expected
    <2>1. Holders(inv.link) \subseteq DOMAIN inv.expected
        BY <1>1, LiveInverse DEF InverseSound, SetLinkSound
    <2> QED BY <1>1, <2>1
<1> QED
    BY <1>1, LiveStaySound

\* A request that records an inverse adds that one to the live inverses.
LEMMA RecordedLive ==
    ASSUME UNCHANGED log, NEW kind, NEW entity, NEW inv, Record(kind, entity, inv)
    PROVE  LiveInverses' \subseteq LiveInverses \cup {inv}
    BY DEF LiveInverses, Record, HasInverse

\* The inverse of an edit holds the replaced row, whose link is the result's.
LEMMA EditSound ==
    ASSUME History, History', NEW next, NEW kind, NEW operation, NEW j \in Journals,
           EditStep(next, kind, operation, j), NEW inv, inv = Snapshot(kind, j)
    PROVE  InverseSound(inv)'
<1>1. /\ j \in DOMAIN journal /\ journal[j] \in Row /\ journal[j].version \in Nat
      /\ <<j, journal[j]>> \in past
    BY DEF EditStep, Advance, History, TypeOK, OnJournals, Row, PastEndsInJournal
<1>2. /\ DOMAIN inv.expected = {j} /\ inv.expected[j] = journal[j].version + 1
      /\ inv.snapshots[j] = journal[j] /\ inv.kind \in SnapshotKinds
    BY DEF Snapshot, EditStep
<1>3. /\ DOMAIN journal' = DOMAIN journal /\ journal'[j] = next[j]
      /\ next[j].version = journal[j].version + 1 /\ next[j].link = journal[j].link
    BY <1>1 DEF EditStep, Advance
<1>4. past \subseteq past'
    BY DEF EditStep, Advance, Remember
<1>5. Replaced(inv, j, inv.snapshots[j])'
    BY <1>1, <1>2, <1>4 DEF Replaced
<1>6. ASSUME NEW s \in PastRows', Result(inv, j, s)'
      PROVE  s.link = inv.snapshots[j].link
    <2>1. <<j, s>> \in past' /\ s.version = journal'[j].version
        BY <1>2, <1>3, <1>6 DEF Result
    <2>2. s = journal'[j]
        BY <2>1 DEF History, PastEndsInJournal
    <2> QED BY <1>2, <1>3, <2>2
<1>7. SnapshotSound(inv)'
    BY <1>2, <1>5, <1>6 DEF SnapshotSound
<1>8. inv.kind # "set-transfer-link"
    BY <1>2 DEF SnapshotKinds
<1> QED
    BY <1>1, <1>2, <1>3, <1>7, <1>8 DEF InverseSound

\* The inverse of link and of unlink: the replaced rows had the link that it restores.
LEMMA LinkSound ==
    ASSUME History, History', NEW next, NEW j \in Journals, NEW k \in Journals,
           NEW from, NEW to, LinkStep(next, j, k, from, to),
           \/ from = NoLink /\ to \in Links
           \/ from # NoLink /\ to = NoLink /\ Holders(from)' \subseteq {j, k},
           NEW inv, inv = SetLink(j, k, from)
    PROVE  InverseSound(inv)'
<1>1. \A i \in {j, k} : /\ i \in DOMAIN journal /\ journal[i] \in Row
                        /\ journal[i].version \in Nat /\ <<i, journal[i]>> \in past
                        /\ journal[i].link = from
    BY DEF LinkStep, Advance, History, TypeOK, OnJournals, Row, PastEndsInJournal
<1>2. /\ DOMAIN inv.expected = {j, k} /\ inv.kind = "set-transfer-link" /\ inv.link = from
      /\ \A i \in {j, k} : inv.expected[i] = journal[i].version + 1
    BY DEF SetLink
<1>3. /\ DOMAIN journal' = DOMAIN journal
      /\ \A i \in {j, k} : /\ journal'[i] = [Bumped(journal[i]) EXCEPT !.link = to]
                           /\ journal'[i].version = journal[i].version + 1
    BY <1>1 DEF LinkStep, Advance
<1>4. past \subseteq past'
    BY DEF LinkStep, Advance, Remember
<1>5. \A i \in {j, k} : journal'[i].link = to
    <2> TAKE i \in {j, k}
    <2> DEFINE b == Bumped(journal[i])
    <2>1. b \in Row
        BY <1>1, BumpedRow
    <2> HIDE DEF b
    <2>2. [b EXCEPT !.link = to].link = to
        BY <2>1 DEF Row
    <2> USE DEF b
    <2> QED BY <1>3, <2>2
<1>6. ASSUME NEW i \in {j, k}, NEW s \in PastRows', Result(inv, i, s)'
      PROVE  s = journal'[i]
    <2>1. <<i, s>> \in past' /\ s.version = journal'[i].version
        BY <1>2, <1>3, <1>6 DEF Result
    <2> QED BY <2>1 DEF History, PastEndsInJournal
<1>7. ASSUME NEW i \in {j, k}
      PROVE  \E r \in PastRows' : /\ Replaced(inv, i, r)' /\ r.link = inv.link
                                  /\ \A s \in PastRows' : Result(inv, i, s)' =>
                                        s = [Bumped(r) EXCEPT !.link = s.link]
    <2>1. journal[i] \in PastRows'
        <3>1. <<i, journal[i]>> \in past'
            BY <1>1, <1>4
        <3>2. <<i, journal[i]>>[2] = journal[i]
            OBVIOUS
        <3> QED BY <3>1, <3>2 DEF PastRows
    <2>2. PICK r : r = journal[i]
        OBVIOUS
    <2>3. Replaced(inv, i, r)' /\ r.link = inv.link
        BY <1>1, <1>2, <1>4, <2>2 DEF Replaced
    <2>4. \A s \in PastRows' : Result(inv, i, s)' => s = [Bumped(r) EXCEPT !.link = s.link]
        BY <1>3, <1>5, <1>6, <2>2
    <2> QED BY <2>1, <2>2, <2>3, <2>4
<1>8. SetLinkSound(inv)'
    <2>1. \E l, m \in Journals : l # m /\ DOMAIN inv.expected = {l, m}
        BY <1>2 DEF LinkStep
    <2>2. inv.link # NoLink => /\ Holders(inv.link)' \subseteq DOMAIN inv.expected
                               /\ \A i \in DOMAIN inv.expected, s \in PastRows' :
                                     Result(inv, i, s)' => s.link = NoLink
        BY <1>2, <1>5, <1>6
    <2>3. inv.link = NoLink => \E link \in Links :
                                 \A i \in DOMAIN inv.expected, s \in PastRows' :
                                    Result(inv, i, s)' => s.link = link
        BY <1>2, <1>5, <1>6
    <2> QED BY <1>2, <1>7, <2>1, <2>2, <2>3 DEF SetLinkSound
<1> QED
    BY <1>1, <1>2, <1>3, <1>8 DEF InverseSound, SnapshotKinds

\* The link that undo leaves on a target
LEMMA InvertedLink ==
    ASSUME TypeOK, NEW inv, IsInverse(inv), inv.kind # "none",
           NEW j \in DOMAIN inv.expected, j \in DOMAIN journal
    PROVE  /\ inv.kind \in SnapshotKinds => Inverted(inv, j).link = inv.snapshots[j].link
           /\ inv.kind = "soft-delete-journals" => Inverted(inv, j).link = journal[j].link
           /\ inv.kind = "set-transfer-link" => Inverted(inv, j).link = inv.link
<1>1. journal[j] \in Row
    BY DEF TypeOK, OnJournals
<1>2. CASE inv.kind \in SnapshotKinds
    <2> DEFINE r == inv.snapshots[j]   v == journal[j].version + 1
    <2>1. r \in Row
        BY <1>2 DEF IsInverse, OnJournals
    <2> HIDE DEF r, v
    <2>2. [r EXCEPT !.version = v].link = r.link
        BY <2>1 DEF Row
    <2> USE DEF r, v
    <2> QED BY <1>2, <2>2 DEF Inverted, applySnapshotVersion, SnapshotKinds
<1>3. CASE inv.kind \notin SnapshotKinds
    <2> DEFINE b == Bumped(journal[j])
    <2>1. b \in Row /\ b.link = journal[j].link
        BY <1>1, BumpedRow
    <2> HIDE DEF b
    <2>2. /\ [b EXCEPT !.deleted = TRUE].link = b.link
          /\ [b EXCEPT !.link = inv.link].link = inv.link
        BY <2>1 DEF Row
    <2> USE DEF b
    <2> QED BY <1>3, <2>1, <2>2 DEF Inverted
<1> QED
    BY <1>2, <1>3

\* Undo keeps the pairs: a snapshot has the link its journal has now, and a link that is
\* restored goes to the two journals that alone have ever carried it.
LEMMA UndoLinks ==
    ASSUME IInv, TypeOK', NEW next, NEW i, UndoStep(next, i)
    PROVE  LinksPairedForEver' /\ \A inv \in LiveInverses : InverseSound(inv)'
<1>1. PICK inv : inv = log[i].inverse
    OBVIOUS
<1>2. /\ inv \in LiveInverses /\ IsInverse(inv) /\ inv.kind # "none" /\ InverseSound(inv)
    BY <1>1, LiveInverse DEF UndoStep, LiveInverses
<1>3. /\ TypeOK /\ PastEndsInJournal /\ LinksPairedForEver /\ Advance(next)
      /\ DOMAIN next = DOMAIN inv.expected
      /\ \A j \in DOMAIN next : /\ next[j] = Inverted(inv, j) /\ j \in DOMAIN journal
                                /\ journal[j].version = inv.expected[j]
    BY <1>1 DEF IInv, UndoStep, VersionsMatch
<1> DEFINE new == {<<j, next[j]>> : j \in DOMAIN next}
<1>4. Grows(new)
    BY <1>3, AdvanceGrows
<1>5. \A j \in DOMAIN next : /\ <<j, journal[j]>> \in past /\ journal[j] \in PastRows
                             /\ Result(inv, j, journal[j])
    BY <1>3 DEF PastEndsInJournal, PastRows, Result
<1>6. ASSUME \A j \in DOMAIN next : next[j].link = journal[j].link
      PROVE  LinksPairedForEver' /\ \A inv2 \in LiveInverses : InverseSound(inv2)'
    <2>1. \A p \in new : p[2].link = IF p[1] \in DOMAIN journal
                                     THEN journal[p[1]].link ELSE NoLink
        BY <1>3, <1>6
    <2> HIDE DEF new
    <2> QED BY <1>3, <1>4, <2>1, SameLinks, LinksStaySound
<1>7. CASE inv.kind \in SnapshotKinds
    <2>1. \A j \in DOMAIN next : journal[j].link = inv.snapshots[j].link
        BY <1>2, <1>3, <1>5, <1>7 DEF InverseSound, SnapshotSound
    <2> QED BY <1>2, <1>3, <1>6, <1>7, <2>1, InvertedLink
<1>8. CASE inv.kind = "soft-delete-journals"
    BY <1>2, <1>3, <1>6, <1>8, InvertedLink
<1>9. CASE inv.kind = "set-transfer-link"
    <2>1. SetLinkSound(inv)
        BY <1>2, <1>9 DEF InverseSound
    <2>2. PICK j \in Journals, k \in Journals : j # k /\ DOMAIN inv.expected = {j, k}
        BY <2>1 DEF SetLinkSound
    <2>3. next[j].link = inv.link /\ next[k].link = inv.link
        BY <1>2, <1>3, <1>9, <2>2, InvertedLink
    <2>4. CASE inv.link = NoLink
        <3>1. PICK link \in Links : journal[j].link = link /\ journal[k].link = link
            BY <1>3, <1>5, <2>1, <2>2, <2>4 DEF SetLinkSound
        <3>2. link # NoLink
            BY SentinelAssumption
        <3>3. /\ LinksPairedForEver'
              /\ \A l : l # NoLink => Holders(l)' = Holders(l)
            BY <1>3, <2>2, <2>3, <2>4, <3>1, <3>2, CutLinks
        <3> QED BY <1>4, <3>3, LinksStaySound
    <2>5. CASE inv.link # NoLink
        <3>1. inv.link \in Links /\ Holders(inv.link) \subseteq {j, k}
            BY <1>2, <2>1, <2>2, <2>5 DEF IsInverse, SetLinkSound
        <3>2. journal[j].link = NoLink /\ journal[k].link = NoLink
            BY <1>3, <1>5, <2>1, <2>2, <2>5 DEF SetLinkSound
        <3>3. /\ LinksPairedForEver' /\ Holders(inv.link)' \subseteq {j, k}
              /\ \A l : l \notin {NoLink, inv.link} => Holders(l)' = Holders(l)
            BY <1>3, <2>2, <2>3, <3>1, <3>2, MakeLinks
        <3>4. ASSUME NEW inv2 \in LiveInverses,
                     inv2.kind = "set-transfer-link", inv2.link # NoLink
              PROVE  Holders(inv2.link)' \subseteq DOMAIN inv2.expected
            <4>1. SetLinkSound(inv2)
                BY <3>4, LiveInverse DEF InverseSound
            <4>2. CASE inv2.link # inv.link
                BY <3>3, <3>4, <4>1, <4>2 DEF SetLinkSound
            <4>3. CASE inv2.link = inv.link
                <5>1. PICK l \in Journals, m \in Journals :
                         l # m /\ DOMAIN inv2.expected = {l, m}
                    BY <4>1 DEF SetLinkSound
                <5>2. \A n \in {l, m} : n \in Holders(inv2.link)
                    <6> TAKE n \in {l, m}
                    <6>1. PICK r \in PastRows : Replaced(inv2, n, r) /\ r.link = inv2.link
                        BY <4>1, <5>1 DEF SetLinkSound
                    <6>2. <<n, r>> \in past /\ <<n, r>>[1] = n /\ <<n, r>>[2] = r
                        BY <6>1 DEF Replaced
                    <6> QED BY <5>1, <6>1, <6>2 DEF Holders
                <5>3. {l, m} = {j, k}
                    BY <2>2, <3>1, <4>3, <5>1, <5>2
                <5> QED BY <3>3, <4>3, <5>1, <5>3
            <4> QED BY <4>2, <4>3
        <3> QED BY <1>4, <3>3, <3>4, LiveStaySound
    <2> QED BY <2>4, <2>5
<1> QED
    BY <1>2, <1>7, <1>8, <1>9 DEF IsInverse, InverseKinds, SnapshotKinds

-----------------------------------------------------------------------------
(* The inductive invariant *)

\* Applied inverses stay spent while versions only grow.
LEMMA SpentStays ==
    ASSUME IInv, TypeOK', NEW new, Grows(new), UNCHANGED <<log, applied>>
    PROVE  AppliedSpent'
<1> SUFFICES ASSUME NEW i \in applied, HasInverse(log, i)
             PROVE  \E j \in DOMAIN log[i].inverse.expected :
                       journal'[j].version > log[i].inverse.expected[j]
    BY DEF AppliedSpent, HasInverse
<1>1. PICK j \in DOMAIN log[i].inverse.expected :
         journal[j].version > log[i].inverse.expected[j]
    BY DEF IInv, AppliedSpent
<1>2. i \in 1..Len(log) /\ log[i].inverse \in LiveInverses
    BY DEF IInv, TypeOK, LiveInverses
<1>3. j \in DOMAIN journal /\ log[i].inverse.expected[j] \in Nat
    BY <1>1, <1>2, LiveInverse DEF InverseSound, IsInverse, OnJournals
<1>4. journal[j].version <= journal'[j].version /\ j \in DOMAIN journal'
    BY <1>3, GrowsVersions DEF IInv
<1>5. journal[j].version \in Nat /\ journal'[j].version \in Nat
    BY <1>3, <1>4 DEF IInv, TypeOK, OnJournals, Row
<1> QED
    BY <1>1, <1>3, <1>4, <1>5

\* Soundness is about the journals and the history alone.
LEMMA UnchangedSound ==
    ASSUME UNCHANGED <<journal, past>>, NEW inv, InverseSound(inv)
    PROVE  InverseSound(inv)'
<1>1. /\ PastRows' = PastRows
      /\ \A link : Holders(link)' = Holders(link)
      /\ \A j, r : Replaced(inv, j, r)' <=> Replaced(inv, j, r)
      /\ \A j, s : Result(inv, j, s)' <=> Result(inv, j, s)
    BY DEF PastRows, Holders, Replaced, Result
<1>2. SnapshotSound(inv) => SnapshotSound(inv)'
    BY <1>1 DEF SnapshotSound
<1>3. SetLinkSound(inv) => SetLinkSound(inv)'
    BY <1>1 DEF SetLinkSound
<1> QED
    BY <1>2, <1>3 DEF InverseSound

\* A committed batch keeps the invariant.
LEMMA CommitInvariant ==
    ASSUME IInv, History', NEW ids \in SUBSET Journals, CommitImport(ids)
    PROVE  LinksPairedForEver' /\ InversesSound' /\ AppliedSpent'
<1> DEFINE new == {<<j, journal'[j]>> : j \in ids}
<1>1. Grows(new) /\ TypeOK' /\ ids \cap DOMAIN journal = {} /\ ids # {}
    BY CommitGrows DEF IInv, History, CommitImport
<1>2. \A p \in new : p[2].link = IF p[1] \in DOMAIN journal
                                 THEN journal[p[1]].link ELSE NoLink
    <2>1. \A j \in ids : j \notin DOMAIN journal /\ journal'[j].link = NoLink
        BY <1>1, CommitTypes DEF IInv
    <2>2. \A p \in new : \E j \in ids : p[1] = j /\ p[2] = journal'[j]
        OBVIOUS
    <2> QED BY <2>1, <2>2
<1> HIDE DEF new
<1>3. LinksPairedForEver' /\ \A link : link # NoLink => Holders(link)' = Holders(link)
    BY <1>1, <1>2, SameLinks DEF IInv
<1>4. \A inv \in LiveInverses : InverseSound(inv)'
    BY <1>1, <1>3, LinksStaySound
<1>5. PICK inv : inv = SoftDelete(ids)
    OBVIOUS
<1>6. InverseSound(inv)'
    <2>1. \A j \in ids : j \in DOMAIN journal' /\ 0 <= journal'[j].version
        <3>1. /\ DOMAIN journal' = DOMAIN journal \cup ids
              /\ \A j \in ids : journal'[j].version = 0
            BY CommitTypes DEF IInv
        <3> QED BY <3>1
    <2>2. /\ DOMAIN inv.expected = ids /\ \A j \in ids : inv.expected[j] = 0
          /\ inv.kind \notin SnapshotKinds \cup {"set-transfer-link"}
        BY <1>5 DEF SoftDelete, SnapshotKinds
    <2> QED BY <1>1, <2>1, <2>2 DEF InverseSound
<1>7. LiveInverses' \subseteq LiveInverses \cup {inv}
    BY <1>5, RecordedLive DEF CommitImport
<1>8. AppliedSpent'
    BY <1>1, SpentStays DEF CommitImport
<1> QED
    BY <1>3, <1>4, <1>6, <1>7, <1>8 DEF InversesSound

\* A repeated commit keeps the invariant.
LEMMA RepeatInvariant ==
    ASSUME IInv, NEW ids \in SUBSET Journals, RepeatCommit(ids)
    PROVE  LinksPairedForEver' /\ InversesSound' /\ AppliedSpent'
<1>1. UNCHANGED <<journal, log, past, applied>> /\ ids \in commits
    BY DEF RepeatCommit
<1>2. LinksPairedForEver'
    BY <1>1 DEF IInv, LinksPairedForEver, Holders
<1>3. \A inv : InverseSound(inv) => InverseSound(inv)'
    BY <1>1, UnchangedSound
<1>4. PICK inv : inv = SoftDelete(ids)
    OBVIOUS
<1>5. InverseSound(inv)
    <2>1. ids \subseteq DOMAIN journal /\ ids # {}
        BY <1>1 DEF IInv, TypeOK
    <2>2. \A j \in ids : journal[j].version \in Nat
        BY <2>1 DEF IInv, TypeOK, OnJournals, Row
    <2> QED BY <1>4, <2>1, <2>2 DEF InverseSound, SoftDelete, SnapshotKinds
<1>6. LiveInverses' \subseteq LiveInverses \cup {inv}
    BY <1>1, <1>4, RecordedLive DEF RepeatCommit
<1>7. AppliedSpent'
    BY <1>1 DEF IInv, AppliedSpent, HasInverse
<1> QED
    BY <1>2, <1>3, <1>5, <1>6, <1>7 DEF IInv, InversesSound

\* An edit, deletion or merge keeps the invariant.
LEMMA EditInvariant ==
    ASSUME IInv, History', NEW next, NEW kind, NEW operation, NEW j \in Journals,
           EditStep(next, kind, operation, j)
    PROVE  LinksPairedForEver' /\ InversesSound' /\ AppliedSpent'
<1> DEFINE new == {<<i, next[i]>> : i \in DOMAIN next}
<1>1. /\ Grows(new) /\ TypeOK' /\ History /\ DOMAIN next = {j} /\ j \in DOMAIN journal
      /\ next[j].link = journal[j].link /\ UNCHANGED <<log, applied>>
      /\ Record(operation, j, Snapshot(kind, j))
    BY AdvanceGrows DEF IInv, History, EditStep, Advance
<1>2. \A p \in new : p[2].link = IF p[1] \in DOMAIN journal
                                 THEN journal[p[1]].link ELSE NoLink
    BY <1>1
<1> HIDE DEF new
<1>3. LinksPairedForEver' /\ \A link : link # NoLink => Holders(link)' = Holders(link)
    BY <1>1, <1>2, SameLinks DEF IInv
<1>4. \A inv \in LiveInverses : InverseSound(inv)'
    BY <1>1, <1>3, LinksStaySound
<1>5. PICK inv : inv = Snapshot(kind, j)
    OBVIOUS
<1>6. InverseSound(inv)'
    BY <1>1, <1>5, EditSound
<1>7. LiveInverses' \subseteq LiveInverses \cup {inv}
    BY <1>1, <1>5, RecordedLive
<1>8. AppliedSpent'
    BY <1>1, SpentStays
<1> QED
    BY <1>3, <1>4, <1>6, <1>7, <1>8 DEF InversesSound

\* Linking and unlinking share everything but what happens to the holders of the link.
LEMMA LinkInvariant ==
    ASSUME IInv, History', NEW next, NEW j \in Journals, NEW k \in Journals,
           NEW from, NEW to, LinkStep(next, j, k, from, to),
           \/ from = NoLink /\ to \in Links
           \/ from # NoLink /\ to = NoLink /\ Holders(from)' \subseteq {j, k},
           \A inv \in LiveInverses :
              inv.kind = "set-transfer-link" /\ inv.link # NoLink
                => Holders(inv.link)' \subseteq DOMAIN inv.expected
    PROVE  InversesSound' /\ AppliedSpent'
<1> DEFINE new == {<<i, next[i]>> : i \in DOMAIN next}
<1>1. /\ Grows(new) /\ TypeOK' /\ History /\ UNCHANGED <<log, applied>>
      /\ Record("edit", j, SetLink(j, k, from))
    BY AdvanceGrows DEF IInv, History, LinkStep
<1> HIDE DEF new
<1>2. \A inv \in LiveInverses : InverseSound(inv)'
    BY <1>1, LiveStaySound
<1>3. PICK inv : inv = SetLink(j, k, from)
    OBVIOUS
<1>4. InverseSound(inv)'
    BY <1>1, <1>3, LinkSound
<1>5. LiveInverses' \subseteq LiveInverses \cup {inv}
    BY <1>1, <1>3, RecordedLive
<1>6. AppliedSpent'
    BY <1>1, SpentStays
<1> QED
    BY <1>2, <1>4, <1>5, <1>6 DEF InversesSound

\* The link that LinkStep leaves on its journals
LEMMA LinkedRows ==
    ASSUME TypeOK, NEW next, NEW j, NEW k, NEW from, NEW to \in Links \cup {NoLink},
           LinkStep(next, j, k, from, to)
    PROVE  \A i \in {j, k} : /\ i \in DOMAIN journal /\ journal[i].link = from
                             /\ next[i].link = to
<1> SUFFICES ASSUME NEW i \in {j, k}
             PROVE  /\ i \in DOMAIN journal /\ journal[i].link = from
                    /\ next[i].link = to
    OBVIOUS
<1>1. i \in DOMAIN journal /\ journal[i] \in Row /\ journal[i].link = from
    BY DEF LinkStep, Advance, TypeOK, OnJournals
<1> DEFINE b == Bumped(journal[i])
<1>2. b \in Row
    BY <1>1, BumpedRow
<1> HIDE DEF b
<1>3. [b EXCEPT !.link = to].link = to
    BY <1>2 DEF Row
<1> USE DEF b
<1> QED
    BY <1>1, <1>3 DEF LinkStep

\* Linking keeps the invariant: the link id is fresh.
LEMMA FreshLinkInvariant ==
    ASSUME IInv, History', NEW next, NEW j \in Journals, NEW k \in Journals,
           NEW link \in Links, LinkStep(next, j, k, NoLink, link),
           \A p \in past : p[2].link # link
    PROVE  LinksPairedForEver' /\ InversesSound' /\ AppliedSpent'
<1>1. /\ Holders(link) = {} /\ j # k /\ DOMAIN next = {j, k} /\ Advance(next)
      /\ TypeOK /\ TypeOK' /\ PastEndsInJournal /\ LinksPairedForEver
    BY DEF Holders, LinkStep, IInv, History
<1>2. \A i \in {j, k} : journal[i].link = NoLink /\ next[i].link = link
    BY <1>1, LinkedRows
<1>3. /\ LinksPairedForEver'
      /\ \A l : l \notin {NoLink, link} => Holders(l)' = Holders(l)
    BY <1>1, <1>2, MakeLinks
<1>4. ASSUME NEW inv \in LiveInverses, inv.kind = "set-transfer-link", inv.link # NoLink
      PROVE  Holders(inv.link)' \subseteq DOMAIN inv.expected
    <2>1. SetLinkSound(inv) /\ DOMAIN inv.expected # {}
        BY <1>4, LiveInverse DEF InverseSound
    <2>2. inv.link # link
        <3>1. PICK i \in DOMAIN inv.expected :
                 \E r \in PastRows : Replaced(inv, i, r) /\ r.link = inv.link
            BY <2>1 DEF SetLinkSound
        <3>2. PICK r : <<i, r>> \in past /\ r.link = inv.link
            BY <3>1 DEF Replaced
        <3>3. <<i, r>>[2].link # link
            BY <3>2
        <3> QED BY <3>2, <3>3
    <2> QED BY <1>3, <1>4, <2>1, <2>2 DEF SetLinkSound
<1>5. InversesSound' /\ AppliedSpent'
    BY <1>4, LinkInvariant
<1> QED
    BY <1>3, <1>5

\* Unlinking keeps the invariant: both journals lose the link.
LEMMA UnlinkInvariant ==
    ASSUME IInv, History', NEW next, NEW j \in Journals, NEW k \in Journals,
           NEW link, link # NoLink, LinkStep(next, j, k, link, NoLink)
    PROVE  LinksPairedForEver' /\ InversesSound' /\ AppliedSpent'
<1>1. /\ j # k /\ DOMAIN next = {j, k} /\ Advance(next)
      /\ TypeOK /\ TypeOK' /\ PastEndsInJournal /\ LinksPairedForEver
    BY DEF LinkStep, IInv, History
<1>2. \A i \in {j, k} : /\ i \in DOMAIN journal /\ journal[i].link = link
                        /\ next[i].link = NoLink
    BY <1>1, LinkedRows
<1>3. /\ LinksPairedForEver'
      /\ \A l : l # NoLink => Holders(l)' = Holders(l)
    BY <1>1, <1>2, CutLinks
<1>4. Holders(link) \subseteq {j, k}
    <2>1. link \in Links
        BY <1>1, <1>2 DEF TypeOK, OnJournals, Row
    <2>2. PICK l \in DOMAIN journal \ {j} : Holders(link) \subseteq {j, l}
        BY <1>1, <1>2, <2>1 DEF LinksPairedForEver
    <2>3. k \in Holders(link)
        <3>1. <<k, journal[k]>> \in past /\ <<k, journal[k]>>[1] = k
              /\ <<k, journal[k]>>[2].link = link
            BY <1>1, <1>2 DEF PastEndsInJournal
        <3> QED BY <3>1 DEF Holders
    <2> QED BY <1>1, <2>2, <2>3
<1>5. ASSUME NEW inv \in LiveInverses, inv.kind = "set-transfer-link", inv.link # NoLink
      PROVE  Holders(inv.link)' \subseteq DOMAIN inv.expected
    <2>1. SetLinkSound(inv)
        BY <1>5, LiveInverse DEF InverseSound
    <2> QED BY <1>3, <1>5, <2>1 DEF SetLinkSound
<1>6. Holders(link)' \subseteq {j, k}
    BY <1>3, <1>4
<1>7. InversesSound' /\ AppliedSpent'
    BY <1>5, <1>6, LinkInvariant
<1> QED
    BY <1>3, <1>7

\* Undo keeps the invariant.
LEMMA UndoInvariant ==
    ASSUME IInv, History', NEW next, NEW i, UndoStep(next, i)
    PROVE  LinksPairedForEver' /\ InversesSound' /\ AppliedSpent'
<1> DEFINE new == {<<j, next[j]>> : j \in DOMAIN next}
<1>1. /\ Grows(new) /\ TypeOK' /\ TypeOK
      /\ UNCHANGED log /\ applied' = applied \cup {i}
      /\ pending' = [stage |-> "mark", operation |-> i]
    BY AdvanceGrows DEF IInv, History, UndoStep
<1> HIDE DEF new
<1>2. LinksPairedForEver' /\ \A inv \in LiveInverses : InverseSound(inv)'
    BY <1>1, UndoLinks
<1>3. LiveInverses' \subseteq LiveInverses
    BY <1>1 DEF LiveInverses, HasInverse
<1>4. ASSUME NEW k \in applied', HasInverse(log, k)
      PROVE  \E j \in DOMAIN log[k].inverse.expected :
                journal'[j].version > log[k].inverse.expected[j]
    <2>1. CASE k = i
        <3>1. /\ log[i].inverse \in LiveInverses
              /\ VersionsMatch(log[i].inverse) /\ Advance(next)
              /\ DOMAIN next = DOMAIN log[i].inverse.expected
            BY DEF UndoStep, LiveInverses
        <3>2. PICK j : j \in DOMAIN log[i].inverse.expected
            BY <3>1, LiveInverse DEF InverseSound
        <3>3. /\ journal[j].version = log[i].inverse.expected[j]
              /\ j \in DOMAIN journal
              /\ journal'[j].version = journal[j].version + 1
            BY <3>1, <3>2 DEF VersionsMatch, Advance
        <3>4. journal[j].version \in Nat
            BY <1>1, <3>3 DEF TypeOK, OnJournals, Row
        <3> QED BY <2>1, <3>2, <3>3, <3>4
    <2>2. CASE k \in applied
        <3>1. PICK j \in DOMAIN log[k].inverse.expected :
                 journal[j].version > log[k].inverse.expected[j]
            BY <1>4, <2>2 DEF IInv, AppliedSpent
        <3>2. k \in 1..Len(log) /\ log[k].inverse \in LiveInverses
            BY <1>1, <1>4, <2>2 DEF TypeOK, LiveInverses
        <3>3. j \in DOMAIN journal /\ log[k].inverse.expected[j] \in Nat
            BY <3>1, <3>2, LiveInverse DEF InverseSound, IsInverse, OnJournals
        <3>4. journal[j].version <= journal'[j].version /\ j \in DOMAIN journal'
            BY <1>1, <3>3, GrowsVersions
        <3>5. journal[j].version \in Nat /\ journal'[j].version \in Nat
            BY <1>1, <3>3, <3>4 DEF TypeOK, OnJournals, Row
        <3> QED BY <3>1, <3>3, <3>4, <3>5
    <2> QED BY <1>1, <2>1, <2>2
<1>5. AppliedSpent'
    BY <1>1, <1>4 DEF AppliedSpent, HasInverse
<1> QED
    BY <1>2, <1>3, <1>5 DEF InversesSound

\* A step on the log alone keeps the invariant.
LEMMA LogInvariant ==
    ASSUME IInv, LogStep \/ UNCHANGED vars
    PROVE  LinksPairedForEver' /\ InversesSound' /\ AppliedSpent'
<1>1. UNCHANGED <<journal, past, applied>>
    BY DEF LogStep, vars
<1>2. LinksPairedForEver'
    BY <1>1 DEF IInv, LinksPairedForEver, Holders
<1>3. LiveInverses' \subseteq LiveInverses
    BY DEF LogStep, vars, LiveInverses, HasInverse, Idle
<1>4. InversesSound'
    BY <1>1, <1>3, UnchangedSound DEF IInv, InversesSound
<1>5. ASSUME NEW i \in applied, HasInverse(log, i)'
      PROVE  log'[i].inverse = log[i].inverse /\ HasInverse(log, i)
    <2>1. i \in 1..Len(log) /\ NoInverse.kind = "none"
        BY DEF IInv, TypeOK, NoInverse
    <2> QED BY <1>5, <2>1 DEF LogStep, vars, HasInverse
<1>6. AppliedSpent'
    BY <1>1, <1>5 DEF IInv, AppliedSpent
<1> QED
    BY <1>2, <1>4, <1>6

\* The initial state satisfies the invariant.
LEMMA InitInvariant == Init => IInv
<1> SUFFICES ASSUME Init PROVE IInv
    OBVIOUS
<1>1. History
    BY InitHistory
<1>2. DOMAIN journal = {} /\ Len(log) = 0 /\ pending.stage = "idle" /\ applied = {}
    BY DEF Init, Empty, Idle
<1>3. LiveInverses = {}
    BY <1>2 DEF LiveInverses
<1> QED
    BY <1>1, <1>2, <1>3
       DEF History, IInv, LinksPairedForEver, InversesSound, AppliedSpent

\* Every step keeps the invariant.
LEMMA StepInvariant == IInv /\ [Next]_vars => IInv'
<1> SUFFICES ASSUME IInv, [Next]_vars PROVE IInv'
    OBVIOUS
<1>1. History /\ History' /\ TypeOK
    BY StepHistory DEF IInv, History
<1>2. LinksPairedForEver' /\ InversesSound' /\ AppliedSpent'
    <2>1. CASE \E ids \in SUBSET Journals : CommitImport(ids) \/ RepeatCommit(ids)
        BY <1>1, <2>1, CommitInvariant, RepeatInvariant
    <2>2. CASE \E next, kind, operation : \E j \in Journals :
                  EditStep(next, kind, operation, j)
        BY <1>1, <2>2, EditInvariant
    <2>3. CASE \E next : \E j, k \in Journals, link \in Links :
                  /\ LinkStep(next, j, k, NoLink, link)
                  /\ \A p \in past : p[2].link # link
        BY <1>1, <2>3, FreshLinkInvariant
    <2>4. CASE \E next, link : \E j, k \in Journals :
                  link # NoLink /\ LinkStep(next, j, k, link, NoLink)
        BY <1>1, <2>4, UnlinkInvariant
    <2>5. CASE \E next, i : UndoStep(next, i)
        BY <1>1, <2>5, UndoInvariant
    <2>6. CASE LogStep \/ UNCHANGED vars
        BY <2>6, LogInvariant
    <2> QED BY <1>1, <2>1, <2>2, <2>3, <2>4, <2>5, <2>6, StepShape
<1> QED
    BY <1>1, <1>2 DEF IInv, History

\* The inductive invariant holds in every reachable state: the history of rows, the
\* inverses in the log and the versions of the journals never disagree.
THEOREM Invariant == Spec => []IInv
    BY InitInvariant, StepInvariant, PTL DEF Spec

\* A transfer link is on two journals or on none, through any sequence of links, unlinks,
\* deletions, merges and undos of them, and wherever the process dies.
THEOREM TransfersPaired == Spec => []TransferLinksPaired
<1>1. IInv => TransferLinksPaired
    <2> SUFFICES ASSUME IInv, NEW j \in DOMAIN journal, journal[j].link # NoLink
                 PROVE  \E k \in DOMAIN journal \ {j} :
                           /\ journal[k].link = journal[j].link
                           /\ \A i \in DOMAIN journal :
                                 journal[i].link = journal[j].link => i \in {j, k}
        BY DEF TransferLinksPaired
    <2>1. PICK link \in Links : journal[j].link = link
        BY DEF IInv, TypeOK, OnJournals, Row
    <2>2. PICK k \in DOMAIN journal \ {j} :
             journal[k].link = link /\ Holders(link) \subseteq {j, k}
        BY <2>1 DEF IInv, LinksPairedForEver
    <2>3. ASSUME NEW i \in DOMAIN journal, journal[i].link = link
          PROVE  i \in {j, k}
        <3>1. /\ <<i, journal[i]>> \in past /\ i \in Journals
              /\ <<i, journal[i]>>[1] = i /\ <<i, journal[i]>>[2].link = link
            BY <2>3 DEF IInv, PastEndsInJournal, TypeOK, OnJournals
        <3> QED BY <2>2, <3>1 DEF Holders
    <2> QED BY <2>1, <2>2, <2>3
<1> QED
    BY <1>1, Invariant, PTL

-----------------------------------------------------------------------------
(* Undo and merge *)

\* Only a request leaves something for record().
LEMMA RecordStage ==
    ASSUME NEW kind, NEW entity, NEW inv, Record(kind, entity, inv)
    PROVE  pending'.stage = "record" /\ pending'.kind = kind /\ pending'.entity = entity
    BY DEF Record

\* Only undo leaves a request to mark its operation.
LEMMA OnlyUndoMarks ==
    ASSUME TypeOK, [Next]_vars, UndoBegins
    PROVE  \E next : UndoStep(next, pending'.operation)
<1>1. ASSUME NEW next, NEW i, UndoStep(next, i)
      PROVE  pending'.operation = i
    BY <1>1 DEF UndoStep
<1>2. ASSUME NEW ids, CommitImport(ids) \/ RepeatCommit(ids)
      PROVE  FALSE
    <2>1. Record("bulk-import", NoEntity, SoftDelete(ids))
        BY <1>2 DEF CommitImport, RepeatCommit
    <2> QED BY <2>1, RecordStage DEF UndoBegins
<1>3. ASSUME NEW next, NEW kind, NEW operation, NEW j, EditStep(next, kind, operation, j)
      PROVE  FALSE
    <2>1. Record(operation, j, Snapshot(kind, j))
        BY <1>3 DEF EditStep
    <2> QED BY <2>1, RecordStage DEF UndoBegins
<1>4. ASSUME NEW next, NEW from, NEW to, NEW j, NEW k, LinkStep(next, j, k, from, to)
      PROVE  FALSE
    <2>1. Record("edit", j, SetLink(j, k, from))
        BY <1>4 DEF LinkStep
    <2> QED BY <2>1, RecordStage DEF UndoBegins
<1>5. ~ (LogStep \/ UNCHANGED vars)
    BY DEF UndoBegins, LogStep, vars, Idle
<1> QED
    BY <1>1, <1>2, <1>3, <1>4, <1>5, StepShape

\* An inverse is applied at most once: after the first time a target's version has passed
\* the one the inverse expects, so the crash before MarkUndone does no harm.
THEOREM AppliedOnce == Spec => UndoneOnce
<1>1. IInv /\ [Next]_vars => (UndoBegins => pending'.operation \notin applied)
    <2> SUFFICES ASSUME IInv, [Next]_vars, UndoBegins
                 PROVE  pending'.operation \notin applied
        OBVIOUS
    <2>1. PICK i : i = pending'.operation
        OBVIOUS
    <2>2. \E next : UndoStep(next, i)
        BY <2>1, OnlyUndoMarks DEF IInv
    <2>3. HasInverse(log, i) /\ VersionsMatch(log[i].inverse)
        BY <2>2 DEF UndoStep
    <2>4. \A j \in DOMAIN log[i].inverse.expected :
             /\ journal[j].version = log[i].inverse.expected[j]
             /\ journal[j].version \in Nat
        BY <2>3 DEF VersionsMatch, IInv, TypeOK, OnJournals, Row
    <2>5. i \notin applied
        BY <2>3, <2>4 DEF IInv, AppliedSpent
    <2> QED BY <2>1, <2>5
<1> QED
    BY <1>1, Invariant, PTL DEF Spec, UndoneOnce

\* The row that undo leaves for a target of a live inverse whose version matches
LEMMA UndoneRowRestored ==
    ASSUME IInv, NEW inv \in LiveInverses, NEW j \in DOMAIN inv.expected,
           j \in DOMAIN journal, journal[j].version = inv.expected[j],
           journal'[j] = Inverted(inv, j)
    PROVE  UndoneRow(j, inv)
<1>1. IsInverse(inv) /\ inv.kind # "none" /\ InverseSound(inv)
    BY LiveInverse
<1>2. /\ journal[j] \in Row /\ journal[j].version \in Nat
      /\ <<j, journal[j]>> \in past /\ journal[j] \in PastRows
      /\ Result(inv, j, journal[j])
    BY DEF IInv, TypeOK, OnJournals, Row, PastEndsInJournal, PastRows, Result
<1>3. CASE inv.kind = "soft-delete-journals"
    <2> DEFINE b == Bumped(journal[j])
    <2>1. b \in Row
        BY <1>2, BumpedRow
    <2> HIDE DEF b
    <2>2. [b EXCEPT !.deleted = TRUE].deleted
        BY <2>1 DEF Row
    <2>3. journal'[j] = [b EXCEPT !.deleted = TRUE]
        BY <1>3 DEF Inverted, SnapshotKinds, b
    <2> QED BY <1>3, <2>2, <2>3 DEF UndoneRow
<1>4. CASE inv.kind \in SnapshotKinds
    <2>1. PICK r : r = inv.snapshots[j]
        OBVIOUS
    <2>2. <<j, r>> \in past /\ r.version + 1 = inv.expected[j]
        BY <1>1, <1>4, <2>1 DEF InverseSound, SnapshotSound, Replaced
    <2>3. journal'[j] = [r EXCEPT !.version = inv.expected[j] + 1]
        BY <1>4, <2>1 DEF Inverted, applySnapshotVersion
    <2>4. <<j, r>>[1] = j /\ <<j, r>>[2] = r
        OBVIOUS
    <2> QED BY <1>4, <2>2, <2>3, <2>4 DEF UndoneRow, SnapshotKinds
<1>5. CASE inv.kind = "set-transfer-link"
    <2>1. PICK r \in PastRows : /\ Replaced(inv, j, r) /\ r.link = inv.link
                                /\ \A s \in PastRows : Result(inv, j, s) =>
                                      s = [Bumped(r) EXCEPT !.link = s.link]
        BY <1>1, <1>5 DEF InverseSound, SetLinkSound
    <2>2. <<j, r>> \in past /\ r \in Row /\ r.version + 1 = inv.expected[j]
        BY <2>1 DEF Replaced, IInv, TypeOK
    <2>3. journal[j] = [Bumped(r) EXCEPT !.link = journal[j].link]
        BY <1>2, <2>1
    <2>4. /\ journal[j].text = r.text /\ journal[j].category = r.category
          /\ journal[j].deleted = r.deleted
        <3> DEFINE b == Bumped(r)
        <3>1. b \in Row /\ b.text = r.text /\ b.category = r.category
              /\ b.deleted = r.deleted
            BY <2>2, BumpedRow
        <3> HIDE DEF b
        <3>2. \A link \in Links \cup {NoLink} :
                 /\ [b EXCEPT !.link = link].text = b.text
                 /\ [b EXCEPT !.link = link].category = b.category
                 /\ [b EXCEPT !.link = link].deleted = b.deleted
            BY <3>1 DEF Row
        <3>3. journal[j].link \in Links \cup {NoLink}
            BY <1>2 DEF Row
        <3>4. journal[j] = [b EXCEPT !.link = journal[j].link]
            BY <2>3 DEF b
        <3>5. PICK link \in Links \cup {NoLink} : journal[j] = [b EXCEPT !.link = link]
            BY <3>3, <3>4
        <3> QED BY <3>1, <3>2, <3>5
    <2>5. journal'[j] = [r EXCEPT !.version = inv.expected[j] + 1]
        <3> DEFINE b == Bumped(journal[j])
                   v == inv.expected[j] + 1
        <3>1. /\ b \in Row /\ b.version = v /\ b.text = r.text
              /\ b.category = r.category /\ b.deleted = r.deleted
            BY <1>2, <2>4, BumpedRow
        <3>2. v \in Nat /\ inv.link \in Links \cup {NoLink}
            BY <1>1, <1>2 DEF IsInverse
        <3>3. journal'[j] = [b EXCEPT !.link = inv.link]
            BY <1>5 DEF Inverted, SnapshotKinds
        <3> HIDE DEF b, v
        <3>4. LET s == [b EXCEPT !.link = inv.link]
              IN  /\ s \in Row /\ s.version = b.version /\ s.text = b.text
                  /\ s.category = b.category /\ s.deleted = b.deleted
                  /\ s.link = inv.link
            BY <3>1, <3>2 DEF Row
        <3>5. LET s == [r EXCEPT !.version = v]
              IN  /\ s \in Row /\ s.version = v /\ s.text = r.text
                  /\ s.category = r.category /\ s.deleted = r.deleted
                  /\ s.link = r.link
            BY <2>2, <3>2 DEF Row
        <3>6. [b EXCEPT !.link = inv.link] = [r EXCEPT !.version = v]
            <4>1. PICK s : s = [b EXCEPT !.link = inv.link]
                OBVIOUS
            <4>2. PICK t : t = [r EXCEPT !.version = v]
                OBVIOUS
            <4>3. s \in Row /\ t \in Row /\ s.version = t.version /\ s.text = t.text
                  /\ s.category = t.category /\ s.deleted = t.deleted /\ s.link = t.link
                BY <2>1, <3>1, <3>4, <3>5, <4>1, <4>2
            <4>4. s = t
                BY <4>3, RowFields
            <4> QED BY <4>1, <4>2, <4>4
        <3> QED BY <3>3, <3>6 DEF v
    <2>6. <<j, r>>[1] = j /\ <<j, r>>[2] = r
        OBVIOUS
    <2> QED BY <1>5, <2>2, <2>5, <2>6 DEF UndoneRow
<1> QED
    BY <1>1, <1>3, <1>4, <1>5 DEF IsInverse, InverseKinds, SnapshotKinds

\* Undo brings back what its operation replaced, field by field, and overwrites no later
\* change: the versions it expects can only be those of its own operation's result.
THEOREM UndoIsExact == Spec => UndoRestores
<1> DEFINE Restores(inv) == \A j \in DOMAIN inv.expected : UndoneRow(j, inv)
<1>1. IInv /\ [Next]_vars =>
         (UndoBegins => LET inv == log[pending'.operation].inverse
                        IN  \A j \in DOMAIN inv.expected : UndoneRow(j, inv))
    <2> SUFFICES ASSUME IInv, [Next]_vars, UndoBegins
                 PROVE  \A j \in DOMAIN log[pending'.operation].inverse.expected :
                           UndoneRow(j, log[pending'.operation].inverse)
        OBVIOUS
    <2>1. PICK i : i = pending'.operation
        OBVIOUS
    <2>2. PICK inv : inv = log[i].inverse
        OBVIOUS
    <2>3. PICK next : UndoStep(next, i)
        BY <2>1, OnlyUndoMarks DEF IInv
    <2>4. inv \in LiveInverses
        BY <2>2, <2>3 DEF UndoStep, LiveInverses
    <2>5. \A j \in DOMAIN inv.expected : /\ j \in DOMAIN journal
                                         /\ journal[j].version = inv.expected[j]
                                         /\ journal'[j] = Inverted(inv, j)
        BY <2>2, <2>3 DEF UndoStep, VersionsMatch, Advance
    <2>6. \A j \in DOMAIN inv.expected : UndoneRow(j, inv)
        BY <2>4, <2>5, UndoneRowRestored
    <2> QED BY <2>1, <2>2, <2>6
<1> QED
    BY <1>1, Invariant, PTL DEF Spec, UndoRestores

\* A merge cannot take the last live copy: both versions are checked in the transaction
\* that deletes the duplicate, and a version names the row the renderer compared.
THEOREM MergeIsSafe == Spec => MergeKeepsLiveCopy
<1>1. IInv /\ [Next]_vars =>
         (pending'.stage = "record" /\ pending.stage = "idle" /\ pending'.kind = "merge" =>
            \E j \in DOMAIN journal' \ {pending'.entity} :
               /\ ~journal'[j].deleted
               /\ journal'[j].text = journal'[pending'.entity].text)
    <2> SUFFICES ASSUME IInv, [Next]_vars, pending'.stage = "record",
                        pending.stage = "idle", pending'.kind = "merge"
                 PROVE  \E j \in DOMAIN journal' \ {pending'.entity} :
                           /\ ~journal'[j].deleted
                           /\ journal'[j].text = journal'[pending'.entity].text
        OBVIOUS
    <2>1. \E j, k \in Journals : MergeJournals(j, k)
        <3>1. ~ UNCHANGED vars
            BY DEF vars
        <3>2. ASSUME NEW ids, CommitImport(ids) \/ RepeatCommit(ids)
              PROVE  FALSE
            <4>1. Record("bulk-import", NoEntity, SoftDelete(ids))
                BY <3>2 DEF CommitImport, RepeatCommit
            <4> QED BY <4>1, RecordStage
        <3>3. ASSUME NEW j, DeleteJournal(j) \/ UpdateJournal(j) \/ ClassifyJournal(j)
              PROVE  FALSE
            <4>1. \/ Record("delete", j, Snapshot("restore-journals", j))
                  \/ Record("edit", j, Snapshot("replace-journals", j))
                  \/ Record("classification", j, Snapshot("replace-journals", j))
                BY <3>3 DEF DeleteJournal, UpdateJournal, ClassifyJournal
            <4> QED BY <4>1, RecordStage
        <3>4. ASSUME NEW j, NEW k, UnlinkTransfer(j, k)
              PROVE  FALSE
            <4>1. Record("edit", j, SetLink(j, k, journal[j].link))
                BY <3>4 DEF UnlinkTransfer
            <4> QED BY <4>1, RecordStage
        <3>5. ASSUME NEW j, NEW k, NEW link, LinkTransfer(j, k, link)
              PROVE  FALSE
            <4>1. Record("edit", j, SetLink(j, k, NoLink))
                BY <3>5 DEF LinkTransfer
            <4> QED BY <4>1, RecordStage
        <3>6. ASSUME NEW i, ApplyInverse(i)
              PROVE  FALSE
            <4>1. pending' = [stage |-> "mark", operation |-> i]
                BY <3>6 DEF ApplyInverse
            <4> QED BY <4>1
        <3>7. ~ (RecordOperation \/ CrashInPrune \/ MarkUndone \/ AppendMarker \/ Crash)
            BY DEF RecordOperation, CrashInPrune, MarkUndone, AppendMarker, Crash, Idle
        <3> QED BY <3>1, <3>2, <3>3, <3>4, <3>5, <3>6, <3>7
                DEF Next, UndoOperation, UndoLatest
    <2>2. PICK j \in Journals, k \in Journals : MergeJournals(j, k)
        BY <2>1
    <2>3. PICK survivor \in Listed(j), duplicate \in Listed(k) :
             MergeOffered(survivor, duplicate) /\ MergeAccepted(j, k, survivor, duplicate)
        BY <2>2 DEF MergeJournals
    <2>4. /\ j \in DOMAIN journal /\ k \in DOMAIN journal /\ j # k
          /\ pending'.entity = k
        BY <2>2 DEF MergeJournals, Record
    <2>5. <<j, survivor>> \in past /\ <<k, duplicate>> \in past /\ ~survivor.deleted
        <3>1. /\ \E p \in past : p[1] = j /\ p[2] = survivor
              /\ \E p \in past : p[1] = k /\ p[2] = duplicate
              /\ ~survivor.deleted
            BY DEF Listed
        <3>2. \A p \in past : p = <<p[1], p[2]>>
            BY DEF IInv, TypeOK
        <3> QED BY <3>1, <3>2
    <2>6. survivor = journal[j] /\ duplicate = journal[k]
        <3>1. \A i, r : <<i, r>> \in past /\ r.version = journal[i].version => r = journal[i]
            BY DEF IInv, PastEndsInJournal
        <3> QED BY <2>3, <2>5, <3>1 DEF MergeAccepted
    <2>7. /\ DOMAIN journal' = DOMAIN journal /\ journal'[j] = journal[j]
          /\ journal'[k].text = journal[k].text
        <3> DEFINE b == Bumped(journal[k])
        <3>1. b \in Row /\ b.text = journal[k].text
            BY <2>4, BumpedRow DEF IInv, TypeOK, OnJournals
        <3>2. /\ DOMAIN journal' = DOMAIN journal /\ journal'[j] = journal[j]
              /\ journal'[k] = [b EXCEPT !.deleted = TRUE]
            BY <2>2, <2>4 DEF MergeJournals, ReplaceJournals
        <3> HIDE DEF b
        <3>3. [b EXCEPT !.deleted = TRUE].text = b.text
            BY <3>1 DEF Row
        <3> QED BY <3>1, <3>2, <3>3
    <2> QED BY <2>3, <2>4, <2>5, <2>6, <2>7 DEF MergeOffered
<1> QED
    BY <1>1, Invariant, PTL DEF Spec, MergeKeepsLiveCopy

=============================================================================
