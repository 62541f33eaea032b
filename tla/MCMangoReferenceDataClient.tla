---------------------- MODULE MCMangoReferenceDataClient ----------------------
(***************************************************************************)
(* Instance for TLC: two markets over three mints in batches of two, so    *)
(* that mints and banks need two requests.  Each account that is read      *)
(* holds what the loaders ask for, with the group in two orders, neither   *)
(* that of the configuration, or lacks the one thing that a check is for.  *)
(***************************************************************************)
EXTENDS MangoReferenceDataClient

MCMarkets == <<"SOL/USD", "BTC/USD">>
MCCallers == ("serum" :> {"mango"}) @@ ("mango" :> {"client"})
MCMints == <<"sol", "btc", "usd">>

MarketAccountsQuotedIn(quote) ==
    ("SOL/USD" :> [base |-> "sol", quote |-> "usd"]) @@ ("BTC/USD" :> [base |-> "btc", quote |-> quote])
MCMarketAccounts == {MarketAccountsQuotedIn("usd"), MarketAccountsQuotedIn("usdt")}

MCMangoAccounts == {<<TRUE, TRUE>>, <<FALSE, TRUE>>}

MCMangoGroups ==
    {[tokens |-> <<"usd", "sol", "btc">>, spotMarkets |-> <<"BTC/USD", "SOL/USD">>],
     [tokens |-> <<"btc", "usd", "sol">>, spotMarkets |-> <<"SOL/USD", "BTC/USD">>],
     [tokens |-> <<"usd", "sol">>, spotMarkets |-> <<"BTC/USD", "SOL/USD">>],
     [tokens |-> <<"usd", "sol", "btc">>, spotMarkets |-> <<"BTC/USD">>]}
===============================================================================
