SPECIFICATION MangoSpec
CONSTANTS
    Calls = {"markets", "mints", "rootBanks", "openOrders", "nodeBanks", "other"}
    OtherCall = "other"
    OtherKeys = 1
    BatchSize = 2
    MaxKeys = 3
    RefClients = {"serum", "mango"}
    Callers <- MCCallers
    MangoCaller = "mango"
    Markets <- MCMarkets
    Mints <- MCMints
    MarketAccounts <- MCMarketAccounts
    MangoAccounts <- MCMangoAccounts
    MangoGroups <- MCMangoGroups
INVARIANTS
    PendingCounted
    ReturnedComplete
    IndexesAgree
PROPERTY EveryLoadEnds
CHECK_DEADLOCK FALSE
