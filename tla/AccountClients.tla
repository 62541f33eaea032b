---------------------------- MODULE AccountClients ----------------------------
(***************************************************************************)
(* AccountSubscriber with the clients that live on it: the market data of  *)
(* Serum and the wallet of Mango, the latter with the order client's call  *)
(* for the same account.  A program uses the one or the other; their       *)
(* accounts are distinct, so that nothing of one touches the other.        *)
(***************************************************************************)
EXTENDS MangoWalletClient

ASSUME ClientsAssumption ==
    /\ "marketData" \in RefClients
    /\ BookKeys \cup {"events"} \subseteq Keys
    /\ MarketCalls \cup WalletCalls \cup OtherCalls \subseteq Calls
    /\ WalletCalls \cap OtherCalls = {}
    /\ \A c \in MarketCalls : CallKey[c] \in BookKeys \cup {"events"}
    /\ \A c \in WalletCalls \cup OtherCalls : CallKey[c] \notin BookKeys \cup {"events"}

VARIABLE inUse      \* the client the program uses

allVars == <<vars, refVars, serumVars, walletVars, inUse>>

ClientsInit == Init /\ SerumMdInit /\ WalletInit /\ inUse \in {"marketData", "wallet"}

\* send_subscribe answers the caller; from here on the server tells of changes.  Its ids
\* are distinct and nothing else, so that they are taken in order.
SubscriptionReturns(c, id) ==
    /\ id = Cardinality(DOMAIN subscriptions) + 1
    /\ SubscribeReturns(c, id)
    /\ missed' = IF (key[c] \in BookKeys /\ account[key[c]] # read[key[c]]) THEN missed \cup {key[c]} ELSE missed
    /\ UNCHANGED <<chainVars, loading, books, told, read, queueVars, walletVars, refVars>>

\* What the subscriber does by itself.
SubscriberStep ==
    \/ /\ (\E c \in Calls : SubscribeThrows(c) \/ Resume(c)) \/ (\E k \in Keys : Expire(k))
       /\ UNCHANGED <<refVars, serumVars, walletVars>>
    \/ \E c \in Calls, id \in SubscriptionIds : SubscriptionReturns(c, id)

MarketDataNext ==
    \/ MarketDataStep /\ UNCHANGED walletVars
    \/ (\E id \in SubscriptionIds : OnNotification(id)) /\ UNCHANGED walletVars
    \/ ChainStep /\ UNCHANGED walletVars
    \/ (\E a \in DOMAIN told : BookSubscribe(a)) /\ UNCHANGED walletVars

WalletNext ==
    \/ WalletStep \/ WalletChainStep
    \/ \E id \in SubscriptionIds : OnWalletNotification(id)

\* The calls of the users and what comes of the network.
UserNext ==
    \/ SubscribeWallet
    \/ \E v \in [WalletKeys -> 0 .. MaxNotifications] :
          (\A k \in WalletKeys : v[k] =< account[k]) /\ WalletDataReturns(v)
    \/ \E c \in OtherCalls : AccountSubscribe(c) /\ UNCHANGED <<refVars, serumVars, walletVars>>

ProgramStep ==
    \/ SubscriberStep
    \/ inUse = "marketData" /\ MarketDataStep /\ UNCHANGED walletVars
    \/ inUse = "wallet" /\ WalletStep

ClientsNext ==
    /\ \/ SubscriberStep
       \/ inUse = "marketData" /\ MarketDataNext
       \/ inUse = "wallet" /\ (WalletNext \/ UserNext)
    /\ UNCHANGED inUse

\* The program's own steps end, as no call is made twice; nothing is assumed of the
\* chain or of those who call.
ClientsSpec == ClientsInit /\ [][ClientsNext]_allVars /\ WF_allVars(ProgramStep /\ UNCHANGED inUse)
===============================================================================
