----------------------------- MODULE MCSynthfiClient -----------------------------
(***************************************************************************)
(* Instance of SynthfiClient for TLC: all the tokens of a mango group are  *)
(* configured, the first two not in the order of the group, and two pairs  *)
(* are traded, of which the second has its base token among those two.     *)
(***************************************************************************)
EXTENDS SynthfiClient

MCCurrencies == <<1, 0>> \o [i \in 1 .. 14 |-> i + 1]
MCPairs == <<[market |-> 0, base |-> 2, quote |-> 15], [market |-> 9, base |-> 0, quote |-> 15]>>
MCBaskets == {{1}, 0 .. 9}
MCLots == [quoteUnit |-> 10, baseUnit |-> 10, quoteLotSize |-> 1, baseLotSize |-> 5]

Level(price, quantity) == [price |-> price, quantity |-> quantity]
Low == [bid |-> <<Level(100, 2)>>, ask |-> <<Level(102, 3), Level(104, 1)>>]
High == [bid |-> <<Level(104, 1), Level(103, 2), Level(101, 1)>>, ask |-> <<Level(106, 3)>>]
MCBooks == {Low, High}

MCCurrencyNames == [c \in 1 .. 16 |-> CASE c = 2 -> "A" [] c = 3 -> "C" [] c = 16 -> "USD" [] OTHER -> "other"]
MCBaseCurrencies == <<"C", "A">>
MCQuantityIncrement == <<1, 2>>

Wallet(a, c, usd) == [n \in 1 .. 16 |-> CASE n = 2 -> a [] n = 3 -> c [] n = 16 -> usd [] OTHER -> 0]
MCWallets == {Wallet(0, -4, 0), Wallet(-3, -1, -1)}
=============================================================================
