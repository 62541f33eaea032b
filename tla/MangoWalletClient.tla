-------------------------- MODULE MangoWalletClient --------------------------
(***************************************************************************)
(* Mango/MangoWalletClient over AccountSubscriber: the wallet is told from *)
(* the accounts of the reference data, and again whenever the mango        *)
(* account, the cache or the open orders change.                           *)
(*                                                                         *)
(* The reference data may have been loaded long before.  A mango account,  *)
(* a cache and open orders are what their versions stand for.  The mango   *)
(* account is subscribed to by the order client too (OtherCalls), so that  *)
(* two services share its subscription.                                    *)
(*                                                                         *)
(* Of Mango/MangoTypes: the 128 bit fixed point numbers are converted      *)
(* without loss and stand here for their values.  Amounts are counted in   *)
(* units of the token with the most decimals, weights in percent.  A       *)
(* component of a pair is kept as its value, the component times the       *)
(* price, so that nothing is divided.                                      *)
(***************************************************************************)
EXTENDS SerumMarketDataClient

CONSTANTS
    Currencies,     \* mangoCurrencyIndex of each currency
    TradingPairs,   \* mangoBaseCurrencyIndex of each pair, the index of its market too
    NumOracles,     \* markets of the group
    QuoteIndex,     \* mango_quote_currency_index
    UnitOf,         \* what an amount of 1 of each token counts, by its decimals
    AssetWeight,    \* initial weights of each market
    LiabilityWeight,
    WalletCalls,    \* calls for the mango account, the cache and each pair's open orders
    OrdersKey,      \* the account of each pair's open orders
    OtherCalls,     \* calls for the mango account by the order client
    MangoAccounts, MangoCaches, OpenOrders   \* what the versions of the accounts hold

VARIABLES
    subscribing,    \* where do_subscribe_wallet stands
    held,           \* the version of each account in _mangoReferenceData
    wallet          \* the wallet told last

walletVars == <<subscribing, held, wallet>>

\* find_if over the pairs for the one whose base currency it is.
PairOf(t) == SelectInSeq(TradingPairs, LAMBDA base : base = t)
Spot(c) == Currencies[c] < NumOracles

ASSUME MangoAssumption ==
    /\ NumOracles \in Nat /\ QuoteIndex \in Nat /\ NumOracles =< QuoteIndex
    \* the currencies are tokens of the group, each another, with an oracle but for the quote currency
    /\ Currencies \in Seq(Nat) /\ \A c \in DOMAIN Currencies : Spot(c) \/ Currencies[c] = QuoteIndex
    /\ \A c, d \in DOMAIN Currencies : Currencies[c] = Currencies[d] => c = d
    \* a currency with a market and no pair is looked up behind the end of the pairs
    /\ \A c \in DOMAIN Currencies : Spot(c) => PairOf(Currencies[c]) # 0
    /\ TradingPairs \in Seq(Nat) /\ \A p \in DOMAIN TradingPairs : PairOf(TradingPairs[p]) = p
    /\ \A p \in DOMAIN TradingPairs : \E c \in DOMAIN Currencies : Spot(c) /\ Currencies[c] = TradingPairs[p]
    /\ \A c \in DOMAIN Currencies : UnitOf[Currencies[c]] \in Nat \ {0}
    \* asserted by the wallet client to be other than 1, checked nowhere
    /\ \A t \in 0 .. NumOracles - 1 : {AssetWeight[t], LiabilityWeight[t]} \subseteq Int \ {100}

\* The accounts of every version have an entry for each token, and a token has a price.
ASSUME VersionsAssumption ==
    /\ 0 \in DOMAIN MangoAccounts \cap DOMAIN MangoCaches \cap DOMAIN OpenOrders
    /\ {"mango", "cache"} \subseteq {CallKey[c] : c \in WalletCalls}
    /\ \A p \in DOMAIN TradingPairs : OrdersKey[p] \in {CallKey[c] : c \in WalletCalls} \ {"mango", "cache"}
    /\ \A v \in DOMAIN MangoAccounts :
          /\ \A c \in DOMAIN Currencies : {MangoAccounts[v].deposits[Currencies[c]], MangoAccounts[v].borrows[Currencies[c]]} \subseteq Int
          /\ 0 .. NumOracles - 1 \subseteq DOMAIN MangoAccounts[v].inMarginBasket
    /\ \A v \in DOMAIN MangoCaches :
          /\ \A c \in DOMAIN Currencies : {MangoCaches[v].depositIndex[Currencies[c]], MangoCaches[v].borrowIndex[Currencies[c]]} \subseteq Int
          /\ \A t \in 0 .. NumOracles - 1 : MangoCaches[v].price[t] \in Nat \ {0}
    /\ \A v \in DOMAIN OpenOrders :
          {OpenOrders[v].quoteFree, OpenOrders[v].quoteTotal, OpenOrders[v].baseFree, OpenOrders[v].baseTotal,
           OpenOrders[v].rebates} \subseteq Int

\* serum_to_synthfi_quantity
Units(native, t) == native * UnitOf[t]

\* get_position_component: deposits and borrows grow with the indexes of the cache.
PositionComponent(mango, cache) ==
    [c \in DOMAIN Currencies |->
        LET t == Currencies[c]
        IN  Units(mango.deposits[t] * cache.depositIndex[t] - mango.borrows[t] * cache.borrowIndex[t], t)]

Abs(x) == IF x < 0 THEN -x ELSE x

\* The open orders of a pair as amounts, all by the decimals of its base currency.
OpenAmounts(orders, t) ==
    [quoteFree |-> Units(orders.quoteFree + orders.rebates, t),
     quoteLocked |-> Units(orders.quoteTotal - orders.quoteFree, t),
     baseFree |-> Units(orders.baseFree, t),
     baseLocked |-> Units(orders.baseTotal - orders.baseFree, t)]

\* The value of a spot position in the margin basket and what it adds to the quote
\* component: the worse of all bids executed and all asks executed.  The position
\* counts as quote currency in the first.
BasketComponent(position, price, open) ==
    LET bids == position + open.quoteLocked + (open.baseFree + open.baseLocked) * price
        asks == (position + open.baseFree) * price
    IN  IF Abs(bids) > Abs(asks)
        THEN [spot |-> bids, quote |-> open.quoteFree]
        ELSE [spot |-> asks, quote |-> open.baseLocked * price + open.quoteFree + open.quoteLocked]

SpotComponent(position, t, mango, cache, orders) ==
    IF mango.inMarginBasket[t]
    THEN BasketComponent(position, cache.price[t], OpenAmounts(orders, t))
    ELSE [spot |-> position * cache.price[t], quote |-> 0]

\* get_health_components for a currency with an oracle: its pair's component and weight.
HealthComponent(c, positions, mango, cache, openOrders) ==
    LET t == Currencies[c]
        component == SpotComponent(positions[c], t, mango, cache, openOrders[PairOf(t)])
    IN  [spot |-> component.spot, quote |-> component.quote,
         weight |-> IF component.spot > 0 THEN AssetWeight[t] ELSE LiabilityWeight[t]]

HealthComponents(positions, mango, cache, openOrders) ==
    [c \in {i \in DOMAIN Currencies : Spot(i)} |-> HealthComponent(c, positions, mango, cache, openOrders)]

QuoteComponent(positions, components) ==
    SumFunction([c \in DOMAIN components |-> components[c].quote])
      + SumFunction([c \in {i \in DOMAIN Currencies : Currencies[i] = QuoteIndex} |-> positions[c]])

\* get_health_from_components, times 100 for the weights.
HealthFromComponents(quote, components) ==
    100 * quote + SumFunction([c \in DOMAIN components |-> components[c].spot * components[c].weight])

\* do_update_positions of the wallet client: the margin of a pair is the health divided
\* by what is left of its weight, kept as the two numbers; without health it is 0.
MarginAvailable(health, components) ==
    [p \in DOMAIN TradingPairs |->
        IF health =< 0 THEN <<0, 1>>
        ELSE LET of == {c \in DOMAIN components : PairOf(Currencies[c]) = p}
                 weight == IF of = {} THEN 0 ELSE components[CHOOSE c \in of : TRUE].weight
             IN  <<health, 100 - weight>>]

-----------------------------------------------------------------------------
WalletKeys == {CallKey[c] : c \in WalletCalls}
NoWallet == [positions |-> <<>>, marginAvailable |-> <<>>]

WalletInit ==
    /\ subscribing = "none"
    /\ held = [k \in WalletKeys |-> 0]
    /\ wallet = NoWallet

\* The calls made first and together, and those made after them.
First == {c \in WalletCalls : CallKey[c] \in {"mango", "cache"}}
Ended(calls) == \A c \in calls : status[c] \in {"subscribed", "failed"}
Failed(calls) == \E c \in calls : status[c] = "failed"

\* Mutants: slips of the code that the properties below are there to catch.
WalletOf_HealthAsMargin(versions) ==
    LET mango == MangoAccounts[versions["mango"]]
        cache == MangoCaches[versions["cache"]]
        orders == [p \in DOMAIN TradingPairs |-> OpenOrders[versions[OrdersKey[p]]]]
        positions == PositionComponent(mango, cache)
        components == HealthComponents(positions, mango, cache, orders)
        health == HealthFromComponents(QuoteComponent(positions, components), components)
    IN  [positions |-> positions, marginAvailable |-> [p \in DOMAIN TradingPairs |-> <<health, 100>>]]

\* do_update_positions: the wallet of the accounts as they are held.
WalletOf(versions) ==
    LET mango == MangoAccounts[versions["mango"]]
        cache == MangoCaches[versions["cache"]]
        orders == [p \in DOMAIN TradingPairs |-> OpenOrders[versions[OrdersKey[p]]]]
        positions == PositionComponent(mango, cache)
        components == HealthComponents(positions, mango, cache, orders)
        health == HealthFromComponents(QuoteComponent(positions, components), components)
    IN  [positions |-> positions, marginAvailable |-> MarginAvailable(health, components)]

-----------------------------------------------------------------------------
\* do_subscribe_wallet, up to the reference data of both clients,
SubscribeWallet ==
    /\ subscribing = "none"
    /\ subscribing' = "referenceData"
    /\ UNCHANGED <<held, wallet, serumVars, vars, refVars>>

\* which fail it, or come as they were when they were loaded; the wallet is told.
WalletDataReturns(versions) ==
    /\ subscribing = "referenceData"
    /\ subscribing' = "subscribing"
    /\ held' = versions
    /\ wallet' = WalletOf(versions)
    /\ UNCHANGED <<serumVars, vars, refVars>>

WalletDataThrows ==
    /\ subscribing = "referenceData"
    /\ subscribing' = "failed"
    /\ UNCHANGED <<held, wallet, serumVars, vars, refVars>>

\* The mango account and the cache together, then each pair's open orders.
SubscribeAccount(c) ==
    /\ subscribing = "subscribing"
    /\ c \in First \/ (Ended(First) /\ ~Failed(First))
    /\ AccountSubscribe(c)
    /\ UNCHANGED <<walletVars, serumVars, refVars>>

WalletSubscribed ==
    /\ subscribing = "subscribing"
    /\ \/ Ended(First) /\ Failed(First) /\ subscribing' = "failed"
       \/ Ended(WalletCalls) /\ subscribing' = IF Failed(WalletCalls) THEN "failed" ELSE "done"
    /\ UNCHANGED <<held, wallet, serumVars, vars, refVars>>

\* on_mango_account_notification, on_mango_cache_account_notification and
\* on_open_orders_account_notification: the account is replaced and the wallet told.
OnWalletNotification(id) ==
    \E k \in DOMAIN accountToCallback \cap WalletKeys :
       /\ accountToCallback[k] = id
       /\ toNotify[k] # <<>> /\ Notify(id)
       /\ toNotify' = [toNotify EXCEPT ![k] = Tail(@)]
       /\ IF subscriptions[id] \cap WalletCalls # {}
          THEN /\ held' = [held EXCEPT ![k] = Head(toNotify[k])]
               /\ wallet' = WalletOf(held')
          ELSE UNCHANGED <<held, wallet>>
       /\ UNCHANGED <<account, consumed, loading, books, told, read, missed, queueVars, subscribing, refVars>>

WalletStep ==
    \/ WalletDataThrows \/ WalletSubscribed
    \/ \E c \in WalletCalls : SubscribeAccount(c)

\* The chain changes an account of the wallet.
WalletChainStep ==
    /\ \E k \in WalletKeys :
          /\ account[k] + 1 \in (CASE k = "mango" -> DOMAIN MangoAccounts
                                   [] k = "cache" -> DOMAIN MangoCaches
                                   [] OTHER -> DOMAIN OpenOrders)
          /\ account' = [account EXCEPT ![k] = @ + 1]
          /\ Tell(k, account[k] + 1)
    /\ UNCHANGED <<consumed, loading, books, told, read, missed, queueVars, walletVars, vars, refVars>>

-----------------------------------------------------------------------------
\* The wallet told last is that of the accounts held, and an account that the wallet asked
\* for first is held as it was notified last, whoever else asks for it.  Of one that
\* another asked for first the wallet hears nothing: a call that waits leaves no callback.
WalletFollowsAccounts ==
    subscribing \in {"subscribing", "done"} =>
       /\ wallet = WalletOf(held)
       /\ \A k \in DOMAIN accountToCallback \cap WalletKeys :
             requests[k] \cap WalletCalls # {} /\ notified[accountToCallback[k]] > 0 =>
                held[k] = account[k] - Len(toNotify[k])

\* The health is the value of what is owned in quote currency and, by its weight, in each
\* base currency, a weight that is above 1 for what is owed.  A pair in the margin basket counts
\* as if its bids or its asks all were executed, whichever moves more of the base currency,
\* where for the bids the code adds what is owned of the base to the quote they lock.  The
\* margin of each pair is 0 without health, and has the sign of what is left of its weight
\* with it.
MarginIsOfHealth ==
    wallet # NoWallet =>
       LET mango == MangoAccounts[held["mango"]]
           cache == MangoCaches[held["cache"]]
           Position(t) == Units(mango.deposits[t] * cache.depositIndex[t] - mango.borrows[t] * cache.borrowIndex[t], t)
           Open(t) == OpenAmounts(OpenOrders[held[OrdersKey[PairOf(t)]]], t)
           Bids(t) == Position(t) + Open(t).quoteLocked + (Open(t).baseFree + Open(t).baseLocked) * cache.price[t]
           Asks(t) == (Position(t) + Open(t).baseFree) * cache.price[t]
           BidsMove(t) == mango.inMarginBasket[t] /\ Abs(Bids(t)) > Abs(Asks(t))
           Base(t) == IF ~mango.inMarginBasket[t] THEN Position(t) * cache.price[t]
                      ELSE IF BidsMove(t) THEN Bids(t) ELSE Asks(t)
           Quote(t) == IF ~mango.inMarginBasket[t] THEN 0
                       ELSE IF BidsMove(t) THEN Open(t).quoteFree
                       ELSE Open(t).quoteFree + Open(t).quoteLocked + Open(t).baseLocked * cache.price[t]
           Weight(t) == IF Base(t) > 0 THEN AssetWeight[t] ELSE LiabilityWeight[t]
           Value(t) == IF t = QuoteIndex THEN 100 * Position(t) ELSE 100 * Quote(t) + Base(t) * Weight(t)
           health == SumFunction([t \in {Currencies[c] : c \in DOMAIN Currencies} |-> Value(t)])
       IN  \A p \in DOMAIN TradingPairs :
              wallet.marginAvailable[p] =
                 IF health =< 0 THEN <<0, 1>> ELSE <<health, 100 - Weight(TradingPairs[p])>>
===============================================================================
