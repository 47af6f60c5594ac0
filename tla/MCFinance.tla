----------------------------- MODULE MCFinance -----------------------------
(***************************************************************************)
(* Small instances for TLC of two parts of the finance service: where the  *)
(* rates come from (FxRates) and what is summed and shown (Projections).   *)
(* They have no state in common: one behaviour shows one of them, and of   *)
(* the second either many ledgers and no refresh, or one journal and       *)
(* every course of a refresh.                                              *)
(*                                                                         *)
(* A month has two days.  The amounts make a goal of 30000 stand at 29999  *)
(* and at 30000, and one posting list does not balance.                    *)
(***************************************************************************)
EXTENDS MCFxRates, Projections

VARIABLE shown

Entry(from, to, amount) == <<[account |-> from, minor |-> amount, currency |-> "AED"],
                             [account |-> to, minor |-> -amount, currency |-> "AED"]>>

Spent == Entry("cash", "food", -1)

MCKind == [a \in Accounts |-> CASE a \in {"cash", "bank", "usd"} -> "asset"
                                [] a = "food" -> "expense" [] a = "pay" -> "income"]
MCDenomination == [a \in Accounts |-> IF a = "usd" THEN "USD" ELSE "AED"]
MCPostings == {Spent, Entry("cash", "pay", 30000), Entry("bank", "cash", 1),
               <<[account |-> "cash", minor |-> 3, currency |-> "AED"],
                 [account |-> "food", minor |-> -2, currency |-> "AED"]>>}
MCRateOf == [p \in {<<"USD", "AED">>} |-> 4]

FinanceInit ==
    /\ Init /\ ProjectionsInit
    /\ shown \in {"rates", "sums", "screen"}
    /\ shown # "screen" => month = 1

FinanceNext ==
    /\ UNCHANGED shown
    /\ \/ shown = "rates" /\ Next /\ UNCHANGED projectionVars
       \/ shown \in {"sums", "screen"} /\ ProjectionsNext /\ UNCHANGED vars

\* While the rates are not shown none of the actions that are fair is enabled.
FinanceSpec ==
    FinanceInit /\ [][FinanceNext]_<<shown, vars, projectionVars>> /\ Fairness

\* What the ledgers without a refresh, and the refreshes of one ledger, leave out
Focused ==
    /\ 2 \in DOMAIN entries => 1 \in DOMAIN entries
    /\ shown = "sums" =>
         /\ panel = Unknown /\ month = 1 /\ DOMAIN budgets = {}
         /\ \A r \in Refreshes : reading[r].stage \in {"none", "saving"}
         /\ \A j \in DOMAIN entries : entries[j].on \in {2, 3, 4}
         /\ 2 \in DOMAIN entries => rates = {} /\ base = FirstBase
    /\ shown = "screen" =>
         /\ DOMAIN entries \subseteq {1} /\ base = FirstBase
         /\ rates # {} =>
              month = 1 /\ DOMAIN budgets = {} /\ DOMAIN goals = {} /\ DOMAIN entries = {}
         /\ \A j \in DOMAIN entries : entries[j].postings = Spent /\ entries[j].on = 2
         /\ DOMAIN goals = {} \/ DOMAIN budgets = {}
         /\ \A g \in DOMAIN goals : goals[g].linked = {"cash"}

=============================================================================
