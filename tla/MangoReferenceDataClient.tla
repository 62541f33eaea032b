----------------------- MODULE MangoReferenceDataClient -----------------------
(***************************************************************************)
(* Mango/MangoReferenceDataClient, a caller of SerumReferenceDataClient    *)
(* and of the same batcher: the Mango account, its group and the cache,    *)
(* then root banks, open orders and node banks, each checked against the   *)
(* configuration before the next is asked for.                             *)
(*                                                                         *)
(* get_account goes straight to the RPC socket, which ends every call.     *)
(***************************************************************************)
EXTENDS SerumReferenceDataClient

CONSTANTS
    MangoCaller,    \* the Mango client among the callers of the Serum client
    MangoAccounts,  \* what openOrdersAddresses may hold: at which index there is an address
    MangoGroups     \* what tokens and spotMarkets of the group may hold

ASSUME LoadersAssumption ==
    /\ {"serum", "mango"} \subseteq RefClients /\ MangoCaller \in Callers["serum"]
    /\ {"markets", "mints", "rootBanks", "openOrders", "nodeBanks", OtherCall} \subseteq Calls
    /\ OtherKeys \in 0 .. MaxKeys
    /\ Markets \in Seq(STRING) /\ Mints \in Seq(STRING)
    /\ \A g \in MangoGroups : g.tokens \in Seq(STRING) /\ g.spotMarkets \in Seq(STRING)

VARIABLES
    mangoAccount,   \* openOrdersAddresses of mangoAccount as it was read
    mangoGroup,     \* tokens and spotMarkets of mangoGroup as it was read
    currencyIndex,  \* mangoCurrencyIndex of each currency
    mango           \* mangoTradingPairIndex, currency indexes and open orders of each pair

mangoVars == <<mangoAccount, mangoGroup, currencyIndex, mango>>
allVars == <<vars, refVars, serumVars, mangoVars>>

MangoInit ==
    /\ SerumInit
    /\ mangoAccount = <<>> /\ mangoGroup = <<>>
    /\ currencyIndex = <<>>
    /\ mango = <<>>

\* Mutants: slips of the code that the properties below are there to catch.
GroupIndexes_QuoteByPosition(p) ==
    [pair |-> Find(mangoGroup.spotMarkets, Markets[p]),
     base |-> Find(mangoGroup.tokens, serum[p].account.base),
     quote |-> serum[p].quote]

\* What the last loop looks up in the group for a trading pair.
GroupIndexes(p) ==
    [pair |-> Find(mangoGroup.spotMarkets, Markets[p]),
     base |-> Find(mangoGroup.tokens, serum[p].account.base),
     quote |-> Find(mangoGroup.tokens, serum[p].account.quote)]

-----------------------------------------------------------------------------
\* co_await of the Serum client's data.
AskForSerumData ==
    /\ GetReferenceData("serum", MangoCaller)
    /\ UNCHANGED <<vars, serumVars, mangoVars>>

SerumDataArrives ==
    /\ loading["mango"] = "serum"
    /\ call["serum"][MangoCaller] \in {"data", "timedOut", "unable"}
    /\ IF call["serum"][MangoCaller] = "data" THEN GoesOn("mango", "account") ELSE Stops("mango")
    /\ UNCHANGED <<vars, serum, mangoVars>>

\* The three calls of get_account, one after the other; each may throw.
AccountLoaded ==
    /\ loading["mango"] = "account"
    /\ mangoAccount' \in MangoAccounts
    /\ GoesOn("mango", "group")
    /\ UNCHANGED <<vars, serum, mangoGroup, currencyIndex, mango>>

GroupLoaded ==
    /\ loading["mango"] = "group"
    /\ mangoGroup' \in MangoGroups
    /\ GoesOn("mango", "cache")
    /\ UNCHANGED <<vars, serum, mangoAccount, currencyIndex, mango>>

GetAccountThrows ==
    /\ loading["mango"] \in {"account", "group", "cache"}
    /\ Stops("mango")
    /\ UNCHANGED <<vars, serum, mangoVars>>

\* With the cache all is there to look for the configured currencies in the group.
CacheLoaded ==
    /\ loading["mango"] = "cache"
    /\ LET indexes == [i \in DOMAIN Mints |-> Find(mangoGroup.tokens, Mints[i])]
       IN  IF \E i \in DOMAIN Mints : indexes[i] = 0
           THEN Stops("mango") /\ UNCHANGED currencyIndex
           ELSE GoesOn("mango", "rootBanks") /\ currencyIndex' = indexes
    /\ UNCHANGED <<vars, serum, mangoAccount, mangoGroup, mango>>

\* The open orders account of each pair is looked up by its mangoTradingPairIndex, which
\* is not computed before the last loop: it is that of the first market of the group.
OpenOrdersIndex(p) == 1

RootBanksLoaded ==
    /\ AccountsArrive("mango", "rootBanks")
    /\ IF \E p \in DOMAIN Markets : ~mangoAccount[OpenOrdersIndex(p)]
       THEN Stops("mango")
       ELSE GoesOn("mango", "openOrders")
    /\ UNCHANGED <<serum, mangoVars>>

OpenOrdersLoaded ==
    /\ AccountsArrive("mango", "openOrders")
    /\ GoesOn("mango", "nodeBanks")
    /\ UNCHANGED <<serum, mangoVars>>

\* Every market, and its base and quote tokens, must be of the group.
NodeBanksLoaded ==
    /\ AccountsArrive("mango", "nodeBanks")
    /\ IF \E p \in DOMAIN Markets : 0 \in {GroupIndexes(p).pair, GroupIndexes(p).base, GroupIndexes(p).quote}
       THEN Stops("mango") /\ UNCHANGED mango
       ELSE /\ Finishes("mango")
            /\ mango' = [p \in DOMAIN Markets |->
                            [indexes |-> GroupIndexes(p), openOrders |-> OpenOrdersIndex(p)]]
    /\ UNCHANGED <<serum, mangoAccount, mangoGroup, currencyIndex>>

MangoLoads ==
    \/ AskForSerumData \/ SerumDataArrives
    \/ AccountLoaded \/ GroupLoaded \/ GetAccountThrows \/ CacheLoaded
    \/ /\ \/ RequestAccounts("mango", "rootBanks", Len(Mints))
          \/ RequestAccounts("mango", "openOrders", Len(Markets))
          \/ RequestAccounts("mango", "nodeBanks", Len(Mints))
          \/ \E c \in {"rootBanks", "openOrders", "nodeBanks"} : AccountsFail("mango", c)
       /\ UNCHANGED mangoVars
    \/ RootBanksLoaded \/ OpenOrdersLoaded \/ NodeBanksLoaded

OthersKept == UNCHANGED <<vars, serumVars, mangoVars>>
MangoKept == UNCHANGED mangoVars

\* What the RPC node and the callers do.
Environment ==
    \/ (RpcAnswers \/ OtherClientCalls) /\ MangoKept
    \/ (\E k \in RefClients : \E a \in Callers[k] \ {MangoCaller} : GetReferenceData(k, a)) /\ OthersKept

\* What the program does by itself: timers run out, coroutines that are queued go on.
ProgramStep ==
    \/ (SerumLoads \/ OtherClientResumes \/ (\E c \in Calls : BatchExpires(c))) /\ MangoKept
    \/ MangoLoads
    \/ (\E k \in RefClients : DeadlinePasses(k) \/ \E a \in Callers[k] : CallerGoesOn(k, a)) /\ OthersKept

MangoNext == Environment \/ ProgramStep

\* Nothing is assumed of the answers to the batcher; a call of get_account ends, as those
\* of RpcSocket do.  None of the program's steps can be taken for ever, so that fairness
\* to all of them together is fairness to each.
MangoSpec == MangoInit /\ [][MangoNext]_allVars /\ WF_allVars(ProgramStep)

-----------------------------------------------------------------------------
\* Whatever fails and whether or not the node answers, both loads end, and every caller
\* gets the data or a refusal.
EveryLoadEnds ==
    /\ <>(\A k \in RefClients : loading[k] \in {"done", "failed"})
    /\ [](\A k \in RefClients : \A a \in Callers[k] :
             call[k][a] = "checked" => <>(call[k][a] \in {"data", "timedOut"}))

\* What the order client relies on, though the market accounts, the account and the group
\* were read at different times from a chain that changes: the indexes of a pair lead to
\* its market and to the mints of its market account in the group as it was read, and the
\* group's index of a currency is the same found through the currency or through a pair.
IndexesAgree ==
    loading["mango"] = "done" =>
       \A p \in DOMAIN Markets :
          LET i == mango[p].indexes
          IN  /\ mangoGroup.spotMarkets[i.pair] = Markets[p]
              /\ mangoGroup.tokens[i.base] = serum[p].account.base
              /\ mangoGroup.tokens[i.quote] = serum[p].account.quote
              /\ i.base = currencyIndex[serum[p].base]
              /\ i.quote = currencyIndex[serum[p].quote]
===============================================================================
