--------------------------- MODULE MCImportBatch ---------------------------
(***************************************************************************)
(* A small workspace for TLC: two drafts of one file, two records to       *)
(* commit and two clicks.                                                  *)
(***************************************************************************)
EXTENDS ImportBatch, TLC

Symmetry == Permutations(Batches) \cup Permutations(Sources)
            \cup Permutations(Records) \cup Permutations(Keys)

\* locales/en.json:52, shown when commit has failed: "The reviewed rows could not be
\* committed. Nothing was partially added."  None of them is in the ledger then.
FailedAddsNothing ==
    \A key \in DOMAIN replies :
        replies[key] = "failed" => \A j \in journals : j.key # key

=============================================================================
