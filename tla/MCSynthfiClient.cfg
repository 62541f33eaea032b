SPECIFICATION ClientSpec
CONSTANTS
    Processes = {p1, p2}
    Tags = {"publish", "usdt_testnet", "synthfi_program", "owner"}
    Trader = p1
    OwnerTag = "owner"
    Client = client
    Subscribers = {client}
    Notifications = {n1, n2}
    RefreshSlotInterval = 1
    MaxSlot = 1
    MaxBlockHeight = 2
    NumMarkets = 15
    Currencies <- MCCurrencies
    Pairs <- MCPairs
    Baskets <- MCBaskets
    Lots <- MCLots
    Books <- MCBooks
    MaxNotified = 3
    Wallets <- MCWallets
    MinUsdTradeProfit = 20000
    CurrencyNames <- MCCurrencyNames
    BaseCurrencies <- MCBaseCurrencies
    QuantityIncrement <- MCQuantityIncrement
INVARIANT HoldsRecent
 
INVARIANT NoArbitrageLeft
INVARIANT MeasuredNotUnderstated
INVARIANT KeysAgree
PROPERTY BlockhashNotOlder
CHECK_DEADLOCK FALSE
