SPECIFICATION ClientsSpec
CONSTANTS
    Calls = {"s1", "s2", "s3", "w1", "w2", "w3", "o1"}
    MarketCalls = {"s1", "s2", "s3"}
    WalletCalls = {"w1", "w2", "w3"}
    OtherCalls = {"o1"}
    Keys = {"bids", "asks", "events", "mango", "cache", "orders"}
    CallKey <- MCCallKey
    SubscriptionIds = {1, 2, 3}
    MaxNotifications = 2
    MaxEvents = 1
    RefClients = {"marketData"}
    Callers <- MCCallers
    Slabs <- MCSlabs
    BaseLotSize = 1
    QuoteLotSize = 2
    PriceScale = 5
    QuantityScale = 1
    QueueDataSize = 14
    EventSize = 4
    Currencies <- MCCurrencies
    TradingPairs <- MCTradingPairs
    OrdersKey <- MCOrdersKey
    NumOracles = 1
    QuoteIndex = 1
    UnitOf <- MCUnitOf
    AssetWeight <- MCAssetWeight
    LiabilityWeight <- MCLiabilityWeight
    MangoAccounts <- MCMangoAccounts
    MangoCaches <- MCMangoCaches
    OpenOrders <- MCOpenOrders
INVARIANTS
    SuccessMeansSubscription
    BookLadder
    BooksFollowAccounts
    WalletFollowsAccounts
    MarginIsOfHealth
PROPERTY EveryCallEnds
CHECK_DEADLOCK FALSE
