---------------------------- MODULE MCStatements ----------------------------
(***************************************************************************)
(* Small instances for TLC of the two parts that work on a statement and   *)
(* have no state in common: its drafts with their commit, and what of it   *)
(* may be sent to a model.  The keys are explored without a review, and a  *)
(* review while settings are saved with a first key or with none.  One     *)
(* behaviour shows one part; the other stays as it begins.                 *)
(***************************************************************************)
EXTENDS MCImportBatch, Consent

VARIABLE shown

StatementsSymmetry ==
    Symmetry \cup Permutations(Documents) \cup Permutations(Setups)

StatementsInit == shown \in {"import", "keys", "review"} /\ Init /\ ConsentInit

StatementsNext ==
    /\ UNCHANGED shown
    /\ \/ shown = "import" /\ Next /\ UNCHANGED consentVars
       \/ shown # "import" /\ ConsentNext /\ UNCHANGED vars

StatementsSpec == StatementsInit /\ [][StatementsNext]_<<shown, vars, consentVars>>

Focused ==
    CASE shown = "keys" -> review = {}
      [] shown = "review" ->
            /\ cut = {} /\ Cardinality(secrets) <= 1
            /\ \A s \in saving : s.next # {} /\ s.drop = {}
      [] OTHER -> TRUE

=============================================================================
