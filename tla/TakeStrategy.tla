------------------------------ MODULE TakeStrategy ------------------------------
(***************************************************************************)
(* Strategy/TakeStrategy over the order client of Mango: an arbitrage      *)
(* between the books of a pair on Serum and on FTX is taken on Serum.      *)
(* Strategy/BacktestStrategy measures the arbitrage on every book of       *)
(* either exchange, and trades nothing.  A program runs one of the two.    *)
(*                                                                         *)
(* A side of a book is a sequence of levels, the best first.  Profits are  *)
(* counted in Unit-ths, in which the fees are whole.  The orders that      *)
(* hedge on FTX are made and never sent, as the operation that sends them  *)
(* starts when it is awaited; hedges keeps those of the last wallet.       *)
(***************************************************************************)
EXTENDS MangoOrderClient, Functions

CONSTANTS
    Books,              \* books of the exchanges: a side of levels for "bid" and for "ask"
    MaxNotified,        \* bound: books, wallets, slots and accounts told
    Wallets,            \* positions told, of each configured currency
    MinUsdTradeProfit,  \* _minUsdTradeProfit, in Unit-ths
    CurrencyNames,      \* of each configured currency
    BaseCurrencies,     \* the base currency of each pair
    QuantityIncrement   \* quantityIncrement of each pair

VARIABLES
    phase,              \* where run stands
    serumBooks, ftxBooks,
    notified,           \* how many of these were told
    ftxWallet,
    isTrading,
    hedges,
    testPhase,          \* where run of the backtest stands
    measured            \* the profit last published of each pair and side

strategyVars == <<phase, serumBooks, ftxBooks, notified, ftxWallet, isTrading, hedges>>
testVars == <<testPhase, measured>>
vars == <<slotVars, keyVars, orderVars, strategyVars>>

Unit == 10000
SerumTakerFee == 3
FtxTakerFee == 20
MaxTradeQuantity == 1       \* _maxUsdTradeSize / _maxUsdTradeSize

NoBook == [bid |-> <<>>, ask |-> <<>>]
IsValid(book) == book["bid"] # <<>> /\ book["ask"] # <<>>
SideFlip(side) == IF side = "bid" THEN "ask" ELSE "bid"

\* The sides of a book come with the best level first; prices and quantities count in units.
BestLevelFirst(side, levels) ==
    \A i, j \in DOMAIN levels : i < j =>
        IF side = "bid" THEN levels[i].price >= levels[j].price ELSE levels[i].price =< levels[j].price
ASSUME BooksAssumption ==
    /\ \A book \in Books, side \in {"bid", "ask"} :
          book[side] \in Seq([price : Nat, quantity : Nat]) /\ BestLevelFirst(side, book[side])
    /\ MinUsdTradeProfit \in Int

StrategyInit ==
    /\ phase = "none" /\ isTrading = FALSE /\ hedges = <<>> /\ notified = 0
    /\ serumBooks = [p \in DOMAIN Pairs |-> NoBook] /\ ftxBooks = serumBooks
    /\ ftxWallet = [c \in DOMAIN CurrencyNames |-> 0]

-----------------------------------------------------------------------------
\* Whether a level of Serum and one of FTX cross after fees, and the profit of a unit.
Crosses(side, s, f) ==
    IF side = "bid" THEN s.price * (Unit - SerumTakerFee) > f.price * (Unit + FtxTakerFee)
                    ELSE s.price * (Unit + SerumTakerFee) < f.price * (Unit - FtxTakerFee)
UnitProfit(side, s, f) ==
    (IF side = "bid" THEN s.price - f.price ELSE f.price - s.price) * Unit
        - f.price * FtxTakerFee - s.price * SerumTakerFee

Smaller(a, b) == IF a < b THEN a ELSE b
QuantityAt(levels, i) == IF i \in DOMAIN levels THEN levels[i].quantity ELSE 0

ArbitrageStart(serum, ftx) ==
    [s |-> 1, f |-> 1, remainingSerum |-> serum[1].quantity, remainingFtx |-> ftx[1].quantity,
     quantity |-> 0, profit |-> 0, price |-> 0, ends |-> FALSE]

\* What is left of the larger remains, the smaller is left behind; both when they are even.
Advance(a, serum, ftx) ==
    LET left == a.remainingSerum - a.remainingFtx
    IN  [a EXCEPT !.s = IF left =< 0 THEN @ + 1 ELSE @, !.f = IF left >= 0 THEN @ + 1 ELSE @,
                  !.remainingSerum = IF left =< 0 THEN QuantityAt(serum, a.s + 1) ELSE left,
                  !.remainingFtx = IF left >= 0 THEN QuantityAt(ftx, a.f + 1) ELSE -left]

Match(side, serum, ftx, a) ==
    LET size == Smaller(serum[a.s].quantity, ftx[a.f].quantity)
    IN  [Advance(a, serum, ftx) EXCEPT !.quantity = @ + size, !.price = serum[a.s].price,
                                       !.profit = @ + UnitProfit(side, serum[a.s], ftx[a.f]) * size]

ArbitrageStep(side, serum, ftx, a) ==
    IF Crosses(side, serum[a.s], ftx[a.f]) THEN Match(side, serum, ftx, a) ELSE [a EXCEPT !.ends = TRUE]

\* do_book_update: the levels are matched while they cross.  The size of a match is that of
\* the smaller level, not of what remains of it, and counts a level matched twice in full.
Arbitrage(side, serum, ftx) ==
    LET After[n \in Nat] ==
            IF n = 0 THEN ArbitrageStart(serum, ftx)
            ELSE LET a == After[n - 1]
                 IN  IF a.ends \/ a.s > Len(serum) \/ a.f > Len(ftx) THEN a ELSE ArbitrageStep(side, serum, ftx, a)
    IN  After[Len(serum) + Len(ftx)]

TakeLiquidityOrder(p, side, a) ==
    [pair |-> p, side |-> side, price |-> a.price, quantity |-> Smaller(a.quantity, MaxTradeQuantity)]

\* The side of two books that is worth an order: bids are looked at first, and an order for
\* them stops the asks.
Worth(side, serum, ftx) ==
    /\ serum[side] # <<>> /\ ftx[SideFlip(side)] # <<>>
    /\ Arbitrage(side, serum[side], ftx[SideFlip(side)]).profit >= MinUsdTradeProfit
TakeSide(p, side, serum, ftx) ==
    SendOrder(TakeLiquidityOrder(p, side, Arbitrage(side, serum[side], ftx[SideFlip(side)])))

\* Mutant: only the bids are looked at.
DoBookUpdate_BidsOnly(p, serum, ftx) ==
    IF isTrading \/ ~Worth("bid", serum, ftx)
    THEN UNCHANGED <<isTrading, orders>>
    ELSE isTrading' = TRUE /\ TakeSide(p, "bid", serum, ftx)

\* isTrading is never reset.
DoBookUpdate(p, serum, ftx) ==
    IF isTrading \/ (~Worth("bid", serum, ftx) /\ ~Worth("ask", serum, ftx))
    THEN UNCHANGED <<isTrading, orders>>
    ELSE isTrading' = TRUE /\ TakeSide(p, IF Worth("bid", serum, ftx) THEN "bid" ELSE "ask", serum, ftx)

\* do_on_serum_book, do_on_ftx_book; books are told once they are subscribed to.
Told == phase \in {"books", "noBooks", "orderClients", "running", "failed"} /\ notified < MaxNotified
OnSerumBook(p, book) ==
    /\ Told /\ notified' = notified + 1
    /\ serumBooks' = [serumBooks EXCEPT ![p] = book] /\ UNCHANGED ftxBooks
    /\ DoBookUpdate(p, book, ftxBooks[p])
    /\ UNCHANGED <<phase, slotVars, keyVars, loading, posted, clientBlockhash, inMarginBasket, ftxWallet, hedges>>
OnFtxBook(p, book) ==
    /\ Told /\ notified' = notified + 1
    /\ ftxBooks' = [ftxBooks EXCEPT ![p] = book] /\ UNCHANGED serumBooks
    /\ DoBookUpdate(p, serumBooks[p], book)
    /\ UNCHANGED <<phase, slotVars, keyVars, loading, posted, clientBlockhash, inMarginBasket, ftxWallet, hedges>>

-----------------------------------------------------------------------------
\* The price up to which the asks cover a quantity, or the last when they do not.
TradePrice(asks, quantity) ==
    FoldLeft(LAMBDA a, level :
                IF a.total < quantity THEN [price |-> level.price, total |-> a.total + level.quantity] ELSE a,
             [price |-> 0, total |-> 0], asks).price

FtxPair(c) == SelectInSeq(BaseCurrencies, LAMBDA base : base = CurrencyNames[c])

\* One currency of do_on_mango_wallet.  A currency that is not hedged ends the whole loop.
Hedge(c, net, made) ==
    IF net >= 0 THEN made
    ELSE LET p == FtxPair(c)
         IN  IF CurrencyNames[c] = "USD" \/ p = 0 THEN [made EXCEPT !.ends = TRUE]
             ELSE IF -net < QuantityIncrement[p] \/ ~IsValid(ftxBooks[p]) THEN [made EXCEPT !.ends = TRUE]
             ELSE [made EXCEPT !.orders = Append(@, [pair |-> p, quantity |-> -net,
                                                     price |-> TradePrice(ftxBooks[p]["ask"], -net)])]
Hedges(wallet) ==
    FoldLeft(LAMBDA made, c : IF made.ends THEN made ELSE Hedge(c, wallet[c] + ftxWallet[c], made),
             [orders |-> <<>>, ends |-> FALSE], [c \in DOMAIN CurrencyNames |-> c]).orders

Subscribed == phase \notin {"none", "reference", "noData"} /\ notified < MaxNotified
OnMangoWallet(wallet) ==
    /\ Subscribed
    /\ hedges' = Hedges(wallet) /\ notified' = notified + 1
    /\ UNCHANGED <<slotVars, keyVars, orderVars, phase, serumBooks, ftxBooks, ftxWallet, isTrading>>

OnFtxWallet(wallet) ==
    /\ Subscribed
    /\ ftxWallet' = wallet /\ notified' = notified + 1
    /\ UNCHANGED <<slotVars, keyVars, orderVars, phase, serumBooks, ftxBooks, isTrading, hedges>>

-----------------------------------------------------------------------------
\* run: the reference data, the wallets, the books, the order clients.  A call that throws
\* ends it unseen, and what is subscribed to by then goes on being told and traded on.
Following == [reference |-> "wallets", wallets |-> "books"]
Failed == [reference |-> "noData", wallets |-> "noWallets", books |-> "noBooks"]
RunGoesOn ==
    /\ \/ phase = "none" /\ phase' = "reference"
       \/ phase \in DOMAIN Following /\ phase' = Following[phase]
       \/ phase \in DOMAIN Failed /\ phase' = Failed[phase]
    /\ UNCHANGED <<slotVars, keyVars, orderVars, serumBooks, ftxBooks, notified, ftxWallet, isTrading, hedges>>
LoadOrderClients ==
    /\ phase = "books" /\ phase' = "orderClients"
    /\ LoadMangoAccount
    /\ UNCHANGED <<serumBooks, ftxBooks, notified, ftxWallet, isTrading, hedges>>
OrderClientsLoaded ==
    /\ phase = "orderClients"
    /\ \/ loading = "done" /\ phase' \in {"running", "failed"}
       \/ loading \in {"failed", "failedAccount"} /\ phase' = "failed"
    /\ UNCHANGED <<slotVars, keyVars, orderVars, serumBooks, ftxBooks, notified, ftxWallet, isTrading, hedges>>

\* An order that reaches the client before the client has loaded is made of reference data
\* and a key that are not there: the program reads through null.
Crash ==
    /\ \E i \in DOMAIN orders : orders[i].state = "posted"
    /\ ~(ReferenceDataLoaded /\ OwnerLoaded)
    /\ phase' = "crashed"
    /\ UNCHANGED <<slotVars, keyVars, orderVars, serumBooks, ftxBooks, notified, ftxWallet, isTrading, hedges>>

StrategyStep == phase # "crashed" /\
    \/ RunGoesOn \/ LoadOrderClients \/ OrderClientsLoaded \/ Crash
    \/ SlotStep /\ OnRecentBlockhash
         /\ UNCHANGED <<keyVars, loading, clientBlockhash, inMarginBasket, orders, strategyVars>>
    \/ /\ notified < MaxNotified /\ notified' = notified + 1
       /\ \/ (\E n \in Notifications, s \in Slots : OnSlotNotification(n, s)) /\ UNCHANGED <<keyVars, orderVars>>
          \/ \E basket \in Baskets : OnMangoAccount(basket)
       /\ UNCHANGED <<phase, serumBooks, ftxBooks, ftxWallet, isTrading, hedges>>
    \/ OrderStep /\ UNCHANGED strategyVars
    \/ KeyStoreStep(Trader) /\ UNCHANGED <<slotVars, orderVars, strategyVars>>
    \/ \E p \in DOMAIN Pairs, book \in Books : OnSerumBook(p, book) \/ OnFtxBook(p, book)
    \/ \E wallet \in Wallets : OnMangoWallet(wallet) \/ OnFtxWallet(wallet)

-----------------------------------------------------------------------------
\* BacktestStrategy.
TestInit ==
    /\ testPhase = "none"
    /\ measured = [p \in DOMAIN Pairs |-> [side \in {"bid", "ask"} |-> 0]]

OthersKept == UNCHANGED <<slotVars, keyVars, orderVars, phase, ftxWallet, isTrading, hedges>>

\* Mutant: the books are compared before the one that was told is taken over.
Measure_Before(p) ==
    measured' = [measured EXCEPT ![p] = [side \in {"bid", "ask"} |->
        LET serum == serumBooks[p][side]
            ftx == ftxBooks[p][SideFlip(side)]
        IN  IF serum = <<>> \/ ftx = <<>> THEN @[side] ELSE Arbitrage(side, serum, ftx).profit]]

\* do_book_update: nothing is published of a pair one of whose sides is empty.
Measure(p) ==
    measured' = [measured EXCEPT ![p] = [side \in {"bid", "ask"} |->
        LET serum == serumBooks'[p][side]
            ftx == ftxBooks'[p][SideFlip(side)]
        IN  IF serum = <<>> \/ ftx = <<>> THEN @[side] ELSE Arbitrage(side, serum, ftx).profit]]

TestTold == testPhase \in {"books", "noBooks", "running"} /\ notified < MaxNotified
TestSerumBook(p, book) ==
    /\ TestTold /\ notified' = notified + 1
    /\ serumBooks' = [serumBooks EXCEPT ![p] = book] /\ UNCHANGED ftxBooks
    /\ Measure(p)
    /\ OthersKept /\ UNCHANGED testPhase
TestFtxBook(p, book) ==
    /\ TestTold /\ notified' = notified + 1
    /\ ftxBooks' = [ftxBooks EXCEPT ![p] = book] /\ UNCHANGED serumBooks
    /\ Measure(p)
    /\ OthersKept /\ UNCHANGED testPhase

\* run: the reference data, then the books of both exchanges.
TestRun ==
    /\ \/ testPhase = "none" /\ testPhase' = "reference"
       \/ testPhase = "reference" /\ testPhase' \in {"books", "noData"}
       \/ testPhase = "books" /\ testPhase' \in {"running", "noBooks"}
    /\ OthersKept /\ UNCHANGED <<serumBooks, ftxBooks, notified, measured>>

TestStep ==
    \/ TestRun
    \/ \E p \in DOMAIN Pairs, book \in Books : TestSerumBook(p, book) \/ TestFtxBook(p, book)

-----------------------------------------------------------------------------
\* How many units the first levels of a side hold, the level that the n-th of them is of,
UnitsTo(levels, i) ==
    LET Total[k \in Nat] == IF k = 0 THEN 0 ELSE Total[k - 1] + QuantityAt(levels, k)
    IN  Total[i]
LevelOf(levels, n) == levels[CHOOSE i \in DOMAIN levels : UnitsTo(levels, i - 1) < n /\ n =< UnitsTo(levels, i)]

\* and the profit of an arbitrage that matches each unit once: the n-th unit of one side with
\* the n-th of the other, as far as they cross.
ProfitOf(side, s, f) == IF Crosses(side, s, f) THEN UnitProfit(side, s, f) ELSE 0
ExactProfit(side, serum, ftx) ==
    LET units == Smaller(UnitsTo(serum, Len(serum)), UnitsTo(ftx, Len(ftx)))
        Total[n \in 0 .. units] ==
            IF n = 0 THEN 0 ELSE Total[n - 1] + ProfitOf(side, LevelOf(serum, n), LevelOf(ftx, n))
    IN  Total[units]

\* Whichever of the two books of a pair changes last, an arbitrage that is worth it is never
\* left standing while nothing is traded.
NoArbitrageLeft ==
    phase # "none" /\ ~isTrading =>
        \A p \in DOMAIN Pairs, side \in {"bid", "ask"} :
            serumBooks[p][side] # <<>> /\ ftxBooks[p][SideFlip(side)] # <<>> =>
                ExactProfit(side, serumBooks[p][side], ftxBooks[p][SideFlip(side)]) < MinUsdTradeProfit

\* What is published of a pair is at least the profit of its books as they are, whichever
\* exchange told its book last; a level that two others meet is counted more than once.
MeasuredNotUnderstated ==
    \A p \in DOMAIN Pairs, side \in {"bid", "ask"} :
        testPhase # "none" /\ serumBooks[p][side] # <<>> /\ ftxBooks[p][SideFlip(side)] # <<>> =>
            measured[p][side] >= ExactProfit(side, serumBooks[p][side], ftxBooks[p][SideFlip(side)])
=============================================================================
