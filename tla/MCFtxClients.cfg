SPECIFICATION FtxSpec
CONSTANTS
    Orders = {"o1"}
    Quantity = 1
    Requests = {"markets", "o1", "w1", "w2"}
    RefClients = {"ftx"}
    Callers <- MCCallers
    OrderCaller = "orders"
    MarketNames <- MCMarketNames
    CurrencyNames <- MCCurrencyNames
    MarketLists <- MCMarketLists
    Subscriptions = {"w1", "w2"}
    MaxUpdates = 2
INVARIANTS
    ResultNotAhead
    PairsMatchMarkets
    ALoopRuns
PROPERTY EveryOrderEnds
CHECK_DEADLOCK FALSE
