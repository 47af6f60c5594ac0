------------------------------ MODULE MCLedger ------------------------------
(***************************************************************************)
(* A small ledger for TLC: the ids of journals, links, texts and           *)
(* categories are interchangeable.  What the user interface says of merge  *)
(* and undo is stated here, and checked against the same specification.    *)
(***************************************************************************)
EXTENDS Ledger, TLC

Symmetry == Permutations(Journals) \cup Permutations(Texts)
              \cup Permutations(Categories) \cup Permutations(Links)

\* Four small ledgers in one: one journal with all texts and timestamps, two journals with
\* one text or one timestamp, and three with one of each, whose text no one changes.
Focused ==
    LET journals == Cardinality({p[1] : p \in past})
        oneText  == Cardinality({p[2].text : p \in past}) <= 1
        oneTime  == \A i \in 1..Len(log) : log[i].at = 1
    IN  \/ journals <= 1
        \/ journals = 2 /\ (oneText \/ oneTime)
        \/ /\ oneText /\ oneTime
           /\ \A i \in 1..Len(log) : log[i].inverse.kind # "replace-journals"

\* locales/en.json:142, the question before a merge: "The duplicate can be restored from
\* activity history."  Once the merge is in the ledger, its operation reaches the log.
MergeIsRecorded ==
    [][pending.stage = "record" /\ pending.kind = "merge" /\ pending' = Idle =>
         \E i \in 1..Len(log') :
            /\ log'[i].kind = "merge" /\ log'[i].entity = pending.entity
            /\ log'[i].inverse = pending.inverse]_vars

\* The steps of a process that neither dies nor meets a failing statement: every request
\* that changed a journal ends by appending to the log.
Uninterrupted ==
    Init /\ [][Next /\ (pending # Idle /\ pending' = Idle => Len(log') > Len(log))]_vars

\* locales/en.json:90, the message when an undo is refused: "a later dependency may
\* exist", and the filter undoneAt === null that lets an undone dependent go.  Between
\* requests, an edit that the log offers for undo is kept from it, if at all, by a later
\* operation on one of its journals that is not undone.
BlockedOnlyByLaterChange ==
    pending = Idle =>
        \A i \in {u \in Undoable : log[u].kind = "edit"} :
            \/ VersionsMatch(log[i].inverse)
            \/ \E k \in i + 1..Len(log) :
                  /\ ~log[k].undone
                  /\ activityInverseTargetIds(log[i].inverse)
                       \cap activityInverseTargetIds(log[k].inverse) # {}

=============================================================================
