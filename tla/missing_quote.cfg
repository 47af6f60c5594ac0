SPECIFICATION Spec
CONSTANTS
    Currencies = {"CNY", "AED", "USD"}
    CNY = "CNY"
    DefaultBase = "AED"
    Holdings = {"CNY", "USD"}
    Balance <- MCBalance
    Days = {1}
    Price <- MCPrice
    Pairs <- MCPairs
    ManualRates <- MCRates
    Calls = {c1, c2}
    None = None
    MaxQuotes <- MCQuotes
    MaxVersion = 1
PROPERTIES MissingOnlyWithoutQuote
