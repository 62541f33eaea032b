----------------------------- MODULE MCFtxClients -----------------------------
(***************************************************************************)
(* Instance of FtxClients for TLC: a market list in which all is found,    *)
(* and lists in which a market and a currency are missing.                 *)
(***************************************************************************)
EXTENDS FtxClients, TLC

MCCallers == "ftx" :> {"orders", "w1", "w2"}
MCMarketNames == <<"SOL/USD", "BTC/USD">>
MCCurrencyNames == <<"SOL", "USD", "BTC">>

Market(name, base, quote) == [name |-> name, base |-> base, quote |-> quote]
MCMarketLists ==
    {<<Market("BTC/USD", "BTC", "USD"), Market("ETH/USD", "ETH", "USD"), Market("SOL/USD", "SOL", "USD")>>,
     <<Market("BTC/USD", "BTC", "USD"), Market("SOL/USD", "SOL", "USDT")>>,
     <<Market("BTC/USD", "BTC", "USD")>>}
===============================================================================
