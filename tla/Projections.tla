---------------------------- MODULE Projections ----------------------------
(***************************************************************************)
(* What the finance panel shows: net worth, cash flow, budgets and goals   *)
(* as sums over the ledger, and the refreshes that bring them there.       *)
(*                                                                         *)
(*   packages/storage/src/repositories/sql-finance-repository.ts (sums)    *)
(*   packages/application/src/queries/dashboard.ts, balance-sheet.ts       *)
(*   packages/application/src/commands/manage-budget.ts, manage-goal.ts    *)
(*   packages/domain/src/ledger.ts, transfers.ts                           *)
(*   apps/desktop/src/main/finance/finance-service.ts                      *)
(*   apps/desktop/src/renderer/App.tsx                   (refreshFinance)  *)
(*                                                                         *)
(* Dates are numbered, and a month is a run of them.  The ledger's own     *)
(* bookkeeping (versions, undo) is that of module Ledger, and where a rate *)
(* comes from that of module FxRates: here a rate is an integer that is    *)
(* stored or not.  The main process answers what needs no network at once, *)
(* in the order of the requests; the overview waits for the network.       *)
(***************************************************************************)
EXTENDS Integers, Sequences, FiniteSetsExt

CONSTANTS
    Accounts,      \* ids of the accounts
    Kind,          \* of each account: asset, liability, income, expense, equity
    Denomination,  \* of each account: its currency
    JournalIds,    \* ids a journal may get (crypto.randomUUID)
    PostingLists,  \* the postings a request may carry, as sequences
    TransferIds,   \* transfer link ids (crypto.randomUUID in the renderer)
    NoTransfer,    \* transfer_link_id = null
    Months,        \* months the user may select, as numbers
    DaysInMonth,   \* days of a month
    Today,         \* the date the process has
    FirstBase,     \* the base currency of a new workspace
    RateOf,        \* from and to currency |-> the rate, when it is stored
    Limits,        \* limits a budget may have
    GoalIds,       \* ids a goal may get (randomUUID)
    Targets,       \* targets a goal may have, in minor units
    Refreshes,     \* refreshFinance calls, with the save before them, that may overlap
    Unknown,       \* no value: a rate is missing, or nothing is shown yet
    MaxSaves       \* bound: saves of one budget or goal

Currency == {Denomination[a] : a \in Accounts}
Posting == [account : Accounts, minor : Int, currency : Currency]
Dates == {m * DaysInMonth + d : m \in Months, d \in 0..(DaysInMonth - 1)}

ASSUME AccountAssumption == IsFiniteSet(Accounts)
ASSUME KindAssumption ==
    Kind \in [Accounts -> {"asset", "liability", "income", "expense", "equity"}]
ASSUME CalendarAssumption ==
    Months \subseteq Nat /\ DaysInMonth \in Nat \ {0} /\ Today \in Nat
ASSUME FinanceAssumption ==
    /\ PostingLists \subseteq Seq(Posting)
    /\ FirstBase \in Currency
    /\ Limits \subseteq Nat /\ Targets \subseteq Nat \ {0} /\ MaxSaves \in Nat
    /\ \A p \in DOMAIN RateOf : p \in Currency \X Currency /\ RateOf[p] \in Nat
    /\ NoTransfer \notin TransferIds

VARIABLES
    entries,      \* journal_entry and posting: a function on the ids that exist
    budgets,      \* budget: month and category |-> currency, limit and version
    goals,        \* financial_goal and goal_account: a function on the ids that exist
    base,         \* finance_settings: the base currency
    rates,        \* the pairs of currencies whose rate is stored
    month,        \* the renderer's financeMonth
    reading,      \* the refreshes under way
    panel,        \* what the renderer shows
    undisturbed   \* history: the refresh during which nothing else has changed

stored == <<entries, budgets, goals, base, rates>>
screen == <<month, reading, panel>>
projectionVars == <<stored, screen, undisturbed>>

AtRest == [stage |-> "none"]

\* f with another value for x, or with x added to its domain
Set(f, x, y) == [z \in DOMAIN f \cup {x} |-> IF z = x THEN y ELSE f[z]]

-----------------------------------------------------------------------------
(* Sums over the postings *)

Lines == UNION {{j} \X DOMAIN entries[j].postings : j \in DOMAIN entries}
Line(l) == entries[l[1]].postings[l[2]]

Absolute(minor) == IF minor < 0 THEN -minor ELSE minor

Total(lines) == MapThenSumSet(LAMBDA l : Line(l).minor, lines)
AbsoluteTotal(lines) == MapThenSumSet(LAMBDA l : Absolute(Line(l).minor), lines)

\* The accounts of the kinds that have a posting that counts, or none at all, with what
\* counts of their postings.  Amounts are added as they are, in the account's currency.
listAccountBalances(asOf, kinds) ==
    LET counted == {l \in Lines : ~entries[l[1]].deleted /\ entries[l[1]].on <= asOf}
        on(a, lines) == {l \in lines : Line(l).account = a}
        listed == {a \in Accounts : Kind[a] \in kinds /\ (on(a, counted) # {} \/ on(a, Lines) = {})}
    IN  [a \in listed |-> Total(on(a, counted))]

\* The first day of a month and of the next
monthBounds(m) == <<m * DaysInMonth, (m + 1) * DaysInMonth>>

\* A bug to check against: the first day of the next month counts as well.
InMonthAndAfter(day, m) == monthBounds(m)[1] <= day /\ day <= monthBounds(m)[2]

InMonth(day, m) == monthBounds(m)[1] <= day /\ day < monthBounds(m)[2]

\* The amounts on the accounts in a month, each without its sign
sumExpenseOrIncome(m, currency, accounts, excludeTransfers) ==
    AbsoluteTotal({l \in Lines :
        LET e == entries[l[1]]
            a == Line(l).account
        IN  /\ ~e.deleted /\ InMonth(e.on, m)
            /\ a \in accounts /\ Denomination[a] = currency
            /\ excludeTransfers => e.link = NoTransfer})

OfKind(kind) == {a \in Accounts : Kind[a] = kind}

sumCashFlow(m) == [income |-> sumExpenseOrIncome(m, base, OfKind("income"), TRUE),
                   expense |-> sumExpenseOrIncome(m, base, OfKind("expense"), TRUE)]

\* ValuationService.value
value(a, minor) ==
    LET pair == <<Denomination[a], base>>
    IN  IF Denomination[a] = base THEN minor
        ELSE IF pair \in rates THEN minor * RateOf[pair] ELSE Unknown

SumValued(balances, accounts) == MapThenSumSet(LAMBDA a : value(a, balances[a]), accounts)

\* BalanceSheetQuery: what the assets are worth less what the liabilities are
netWorth(asOf) ==
    LET balances == listAccountBalances(asOf, {"asset", "liability"})
        rows == DOMAIN balances
    IN  IF \E a \in rows : value(a, balances[a]) = Unknown THEN Unknown
        ELSE SumValued(balances, rows \cap OfKind("asset"))
               - SumValued(balances, rows \cap OfKind("liability"))

\* DashboardQuery and the overview's answer
Figures(m) == [month |-> m, base |-> base, netWorth |-> netWorth(Today), cash |-> sumCashFlow(m)]

-----------------------------------------------------------------------------
(* Budgets and goals *)

BudgetProgress(m, c) ==
    LET b == budgets[<<m, c>>]
        spent == sumExpenseOrIncome(m, b.currency, {c} \cap OfKind("expense"), FALSE)
    IN  [limit |-> b.limit, spent |-> spent, remaining |-> b.limit - spent]

\* A bug to check against: the quotient is rounded to the nearest.
RoundedCompletion(current, target) ==
    LET raw == (current * 20000 + target) \div (2 * target)
    IN  IF raw < 0 THEN 0 ELSE IF raw > 10000 THEN 10000 ELSE raw

\* BigInt division cuts towards zero; what is negative ends up at zero anyway.
Completion(current, target) ==
    LET n == current * 10000
        raw == IF n < 0 THEN -((-n) \div target) ELSE n \div target
    IN  IF raw < 0 THEN 0 ELSE IF raw > 10000 THEN 10000 ELSE raw

\* Values are in the base currency, and count only when that is the target's.
GoalProgress(g) ==
    LET goal == goals[g]
        balances == listAccountBalances(Today, {"asset", "liability", "income", "expense", "equity"})
        rows == goal.linked \cap DOMAIN balances
        current == SumValued(balances, rows)
    IN  IF \E a \in rows : value(a, balances[a]) = Unknown \/ goal.currency # base
        THEN [current |-> 0, completion |-> 0, status |-> "missing-fx"]
        ELSE [current |-> current, completion |-> Completion(current, goal.target),
              status |-> IF current >= goal.target THEN "complete" ELSE "on-track"]

listBudgetProgress(m) ==
    [c \in {a \in Accounts : <<m, a>> \in DOMAIN budgets} |-> BudgetProgress(m, c)]

listGoalProgress == [g \in DOMAIN goals |-> GoalProgress(g)]

Lists(m) == [budgets |-> listBudgetProgress(m), goals |-> listGoalProgress]

-----------------------------------------------------------------------------
(* The ledger *)

\* The domain's assertBalanced.  Of several currencies each posting would need a
\* valuation, which no request carries.
assertBalanced(postings) ==
    /\ Len(postings) >= 2
    /\ \A i, k \in DOMAIN postings : postings[i].currency = postings[k].currency
    /\ MapThenSumSet(LAMBDA i : postings[i].minor, DOMAIN postings) = 0

createJournal(day, postings) ==
    [on |-> day, postings |-> postings, deleted |-> FALSE, link |-> NoTransfer]

LedgerChanges(e) ==
    /\ entries' = e
    /\ undisturbed' = {}
    /\ UNCHANGED <<budgets, goals, base, rates, screen>>

\* The commit of an import, an entry at a time
PostJournal(j, day, postings) ==
    /\ j \notin DOMAIN entries
    /\ assertBalanced(postings)
    /\ LedgerChanges(Set(entries, j, createJournal(day, postings)))

\* The form sends the postings as they are, with another date.
EditJournal(j, day) ==
    /\ j \in DOMAIN entries /\ assertBalanced(entries[j].postings)
    /\ LedgerChanges([entries EXCEPT ![j].on = day])

\* The last posting is the category's.
Classify(j, category) ==
    /\ j \in DOMAIN entries /\ Kind[category] \in {"income", "expense"}
    /\ LedgerChanges([entries EXCEPT ![j].postings[Len(entries[j].postings)].account = category])

Delete(j) ==
    /\ j \in DOMAIN entries /\ ~entries[j].deleted
    /\ LedgerChanges([entries EXCEPT ![j].deleted = TRUE])

Principal(j) == entries[j].postings[1]

Points(condition, n) == IF condition THEN n ELSE 0

\* scoreInternalTransferPair.  A reference, a fee or a valuation no journal has; how near
\* the dates were when the suggestion was made, and whether the descriptions share a
\* word, is left open.
scoreInternalTransferPair(j, k, near, overlap) ==
    Points(Principal(j).account # Principal(k).account, 15)
      + Points(Principal(j).minor = -Principal(k).minor, 35)
      + Points(Principal(j).currency = Principal(k).currency, 15)
      + Points(near, 10) + Points(overlap, 5)

Suggested(j, k) ==
    \E near, overlap \in BOOLEAN : scoreInternalTransferPair(j, k, near, overlap) >= 50

\* A suggestion may be out of date: the journals may have been deleted since.
Link(j, k, link) ==
    /\ j \in DOMAIN entries /\ k \in DOMAIN entries /\ j # k
    /\ Suggested(j, k)
    /\ entries[j].link = NoTransfer /\ entries[k].link = NoTransfer
    /\ \A e \in DOMAIN entries : entries[e].link # link
    /\ LedgerChanges([entries EXCEPT ![j].link = link, ![k].link = link])

Unlink(j, k) ==
    /\ j \in DOMAIN entries /\ k \in DOMAIN entries /\ j # k
    /\ entries[j].link # NoTransfer /\ entries[j].link = entries[k].link
    /\ LedgerChanges([entries EXCEPT ![j].link = NoTransfer, ![k].link = NoTransfer])

-----------------------------------------------------------------------------
(* Settings and rates *)

SelectBase(currency) ==
    /\ currency # base
    /\ base' = currency
    /\ undisturbed' = {}
    /\ UNCHANGED <<entries, budgets, goals, rates, screen>>

\* A rate is stored by the overview's online refresh, or a manual one is deleted
RateChanges(pair) ==
    /\ pair \in DOMAIN RateOf
    /\ rates' = IF pair \in rates THEN rates \ {pair} ELSE rates \cup {pair}
    /\ undisturbed' = {}
    /\ UNCHANGED <<entries, budgets, goals, base, screen>>

-----------------------------------------------------------------------------
(* The panel: refreshFinance, and the forms that save *)

Active == {r \in Refreshes : reading[r] # AtRest}

\* refreshFinance sends its three requests.  The lists are answered from what is stored
\* now; they are shown when the overview has been answered too.
Read(r, m) ==
    /\ reading' = [reading EXCEPT ![r] = [stage |-> "asked", month |-> m, lists |-> Lists(m)]]
    /\ undisturbed' = IF Active \subseteq {r} /\ m = month' THEN {r} ELSE {}

\* The effect on financeMonth
SelectMonth(r, m) ==
    /\ reading[r] = AtRest /\ m # month
    /\ month' = m
    /\ Read(r, m)
    /\ UNCHANGED <<stored, panel>>

OverviewReturns(r) ==
    /\ reading[r].stage = "asked"
    /\ reading' = [reading EXCEPT ![r] =
            [stage |-> "answered", lists |-> @.lists, figures |-> Figures(@.month)]]
    /\ UNCHANGED <<stored, month, panel, undisturbed>>

Show(r) ==
    /\ reading[r].stage = "answered"
    /\ panel' = [figures |-> reading[r].figures, lists |-> reading[r].lists]
    /\ reading' = [reading EXCEPT ![r] = AtRest]
    /\ undisturbed' = {}
    /\ UNCHANGED <<stored, month>>

\* One of the three is rejected: what was shown stays.
RefreshFails(r) ==
    /\ reading[r].stage \in {"asked", "answered"}
    /\ reading' = [reading EXCEPT ![r] = AtRest]
    /\ undisturbed' = {}
    /\ UNCHANGED <<stored, month, panel>>

\* The version of the row that replaces the one with the key, if there is one
NextVersion(rows, key) == IF key \in DOMAIN rows THEN rows[key].version + 1 ELSE 0

Saving(r) ==
    /\ reading[r] = AtRest
    /\ reading' = [reading EXCEPT ![r] = [stage |-> "saving", month |-> month]]
    /\ undisturbed' = {}
    /\ UNCHANGED <<entries, base, month, panel>>

\* UpsertBudgetCommand for the selected month, in the category's currency
BudgetRow(c, limit) ==
    [currency |-> Denomination[c], limit |-> limit, version |-> NextVersion(budgets, <<month, c>>)]

UpsertBudget(c, limit) ==
    /\ Kind[c] = "expense" /\ BudgetRow(c, limit).version < MaxSaves
    /\ budgets' = Set(budgets, <<month, c>>, BudgetRow(c, limit))
    /\ UNCHANGED <<goals, rates>>

\* A bug to check against: the refresh does not wait for the save.
SaveBudgetUnawaited(r, c, limit) ==
    /\ UpsertBudget(c, limit)
    /\ reading[r] = AtRest /\ UNCHANGED month
    /\ Read(r, month)
    /\ UNCHANGED <<entries, base, panel>>

SaveBudget(r, c, limit) == UpsertBudget(c, limit) /\ Saving(r)

\* UpsertGoalCommand with the currency of the account the goal is for; a goal's id comes
\* with a request that changes it.
GoalRow(g, a, target) ==
    [currency |-> Denomination[a], target |-> target, linked |-> {a},
     version |-> NextVersion(goals, g)]

SaveGoal(r, g, a, target) ==
    /\ GoalRow(g, a, target).version < MaxSaves
    /\ goals' = Set(goals, g, GoalRow(g, a, target))
    /\ UNCHANGED <<budgets, rates>>
    /\ Saving(r)

\* saveFxOverride: a manual rate, which the form's refresh follows like those of the others
SaveRate(r, pair) ==
    /\ pair \in DOMAIN RateOf
    /\ rates' = rates \cup {pair}
    /\ UNCHANGED <<budgets, goals>>
    /\ Saving(r)

\* The save has been answered; the refresh takes the month the form was sent with.
Saved(r) ==
    /\ reading[r].stage = "saving"
    /\ UNCHANGED month
    /\ Read(r, reading[r].month)
    /\ UNCHANGED <<stored, panel>>

-----------------------------------------------------------------------------
ProjectionsInit ==
    /\ entries = [j \in {} |-> Unknown]
    /\ budgets = [k \in {} |-> Unknown] /\ goals = [g \in {} |-> Unknown]
    /\ base = FirstBase /\ rates = {}
    /\ month \in Months
    /\ reading = [r \in Refreshes |-> AtRest]
    /\ panel = Unknown
    /\ undisturbed = {}

LedgerNext ==
    \/ \E j \in JournalIds, day \in Dates, ps \in PostingLists : PostJournal(j, day, ps)
    \/ \E j \in JournalIds, day \in Dates : EditJournal(j, day)
    \/ \E j \in JournalIds, c \in Accounts : Classify(j, c)
    \/ \E j \in JournalIds : Delete(j)
    \/ \E j, k \in JournalIds, link \in TransferIds : Link(j, k, link)
    \/ \E j, k \in JournalIds : Unlink(j, k)

ProjectionsNext ==
    \/ LedgerNext
    \/ \E currency \in Currency : SelectBase(currency)
    \/ \E pair \in DOMAIN RateOf : RateChanges(pair)
    \/ \E r \in Refreshes :
        \/ \E m \in Months : SelectMonth(r, m)
        \/ \E c \in Accounts, limit \in Limits : SaveBudget(r, c, limit)
        \/ \E g \in GoalIds, a \in Accounts, target \in Targets : SaveGoal(r, g, a, target)
        \/ \E pair \in DOMAIN RateOf : SaveRate(r, pair)
        \/ OverviewReturns(r) \/ Show(r) \/ RefreshFails(r) \/ Saved(r)

ProjectionsSpec == ProjectionsInit /\ [][ProjectionsNext]_projectionVars

-----------------------------------------------------------------------------
(* What must hold *)

\* A posting with the sign of its account's kind: an expense is positive, an income
\* negative.
Regular(l) ==
    /\ Kind[Line(l).account] = "expense" => Line(l).minor >= 0
    /\ Kind[Line(l).account] = "income" => Line(l).minor <= 0

\* The two numbers of the overview agree: over a month net worth changes by the cash flow
\* and by what the transfers of the month leave on the assets (nothing, when both sides of
\* each are in it).  This is so while the month's journals are in the base currency, have
\* the usual signs and are between assets and categories: a credit that is still filed
\* under an expense counts as spent, and a liability counts the wrong way round
\* (sumExpenseOrIncome and BalanceSheetQuery, sql-finance-repository.ts:131,
\* balance-sheet.ts:95).
CashFlowIsMovement ==
    Lines # {} => \A m \in Months :
        LET mine == {l \in Lines : ~entries[l[1]].deleted /\ InMonth(entries[l[1]].on, m)}
            transfers == {l \in mine : entries[l[1]].link # NoTransfer}
            assets == {l \in transfers : Kind[Line(l).account] = "asset"}
            before == netWorth(m * DaysInMonth - 1)
            after == netWorth((m + 1) * DaysInMonth - 1)
            cash == sumCashFlow(m)
        IN  /\ \A l \in mine : /\ Regular(l) /\ Denomination[Line(l).account] = base
                               /\ Kind[Line(l).account] \in {"asset", "expense", "income"}
            /\ before # Unknown /\ after # Unknown
            => after - before = cash.income - cash.expense + Total(assets)

\* A goal shows 100 % exactly when it is complete, and otherwise the whole basis points that
\* have been reached, never one more (GoalProgressQuery, manage-goal.ts:97).
CompletionIsExact ==
    \A g \in DOMAIN goals :
        LET p == GoalProgress(g)
            target == goals[g].target
        IN  /\ p.completion = 10000 <=> p.status = "complete"
            /\ p.status = "on-track" /\ p.current >= 0 =>
                 /\ p.completion * target <= p.current * 10000
                 /\ p.current * 10000 < (p.completion + 1) * target

\* A refresh during which nothing else happens, alone or after the save it belongs to,
\* shows exactly what is stored for the selected month (refreshFinance, App.tsx:178).
QuietRefreshIsCurrent ==
    [][\A r \in undisturbed : Show(r) =>
         panel' = [figures |-> Figures(month), lists |-> Lists(month)]]_projectionVars

=============================================================================
