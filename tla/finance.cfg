SPECIFICATION FinanceSpec
CONSTANTS
    Currencies = {"CNY", "AED", "USD"}
    CNY = "CNY"
    DefaultBase = "AED"
    Holdings = {"CNY", "AED", "USD"}
    Balance <- MCBalance
    Days = {1}
    Price <- MCPrice
    Pairs <- MCPairs
    ManualRates <- MCRates
    Calls = {c1, c2}
    None = None
    MaxQuotes <- MCQuotes
    MaxVersion = 1
    Accounts = {"cash", "bank", "usd", "food", "pay"}
    Kind <- MCKind
    Denomination <- MCDenomination
    JournalIds = {1, 2}
    PostingLists <- MCPostings
    TransferIds = {l1}
    NoTransfer = NoTransfer
    Months = {1, 2}
    DaysInMonth = 2
    Today = 3
    FirstBase = "AED"
    RateOf <- MCRateOf
    Limits = {5}
    GoalIds = {g1}
    Targets = {30000}
    Refreshes = {r1, r2}
    Unknown = Unknown
    MaxSaves = 1
INVARIANTS RatesAreQuoted ValuesAreRight CashFlowIsMovement CompletionIsExact
PROPERTIES LoneRefreshIsFresh OverviewEnds QuietRefreshIsCurrent
CONSTRAINT Focused
