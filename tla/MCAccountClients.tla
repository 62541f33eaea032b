--------------------------- MODULE MCAccountClients ---------------------------
(***************************************************************************)
(* Instance of AccountClients for TLC: a book of two versions, orders    *)
(* on a level of another, a free node and an empty slab among them; an     *)
(* event queue of three slots of which the client counts two; a wallet     *)
(* that owns, owes, and has open orders.                                   *)
(***************************************************************************)
EXTENDS AccountClients

MCCallKey == "s1" :> "bids" @@ "s2" :> "asks" @@ "s3" :> "events"
             @@ "w1" :> "mango" @@ "w2" :> "cache" @@ "w3" :> "orders" @@ "o1" :> "mango"
MCCallers == "marketData" :> {"r1"}

Inner(a, b) == [tag |-> "inner", children |-> <<a, b>>]
Leaf(price, quantity) == [tag |-> "leaf", limitPrice |-> price, quantity |-> quantity]
Free == [tag |-> "free"]
Slab(side, root, nodes) == [side |-> side, rootNode |-> root, nodes |-> nodes]
MCSlabs ==
    "bids" :> (0 :> Slab("bids", 2, <<Leaf(2, 1), Inner(1, 3), Inner(4, 5), Leaf(2, 3), Leaf(3, 1)>>)
            @@ 1 :> Slab("bids", 1, <<Free>>))
 @@ "asks" :> (0 :> Slab("asks", 1, <<Inner(2, 3), Leaf(4, 2), Inner(4, 5), Leaf(5, 1), Leaf(4, 1)>>)
            @@ 1 :> Slab("asks", 2, <<Leaf(5, 2), Leaf(4, 2)>>))

\* Token 0, of one decimal, is the base currency of the only pair, token 1, of none, the quote
\* currency.
MCCurrencies == <<1, 0>>
MCTradingPairs == <<0>>
MCOrdersKey == <<"orders">>
MCUnitOf == 0 :> 1 @@ 1 :> 10
MCAssetWeight == 0 :> 80
MCLiabilityWeight == 0 :> 120
Mango(base, owed, quote, basket) ==
    [deposits |-> 0 :> base @@ 1 :> quote, borrows |-> 0 :> owed @@ 1 :> 0, inMarginBasket |-> 0 :> basket]
MCMangoAccounts == 0 :> Mango(20, 15, 0, FALSE) @@ 1 :> Mango(0, 10, 2, TRUE)
MCMangoCaches ==
    0 :> [depositIndex |-> 0 :> 1 @@ 1 :> 1, borrowIndex |-> 0 :> 1 @@ 1 :> 1, price |-> 0 :> 2]
 @@ 1 :> [depositIndex |-> 0 :> 2 @@ 1 :> 1, borrowIndex |-> 0 :> 3 @@ 1 :> 1, price |-> 0 :> 1]
Orders(quoteFree, quoteTotal, baseFree, baseTotal) ==
    [quoteFree |-> quoteFree, quoteTotal |-> quoteTotal, baseFree |-> baseFree, baseTotal |-> baseTotal, rebates |-> 0]
MCOpenOrders == 0 :> Orders(10, 40, 0, 10)
===============================================================================
