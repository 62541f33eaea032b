------------------------- MODULE AccountClientsProofs -------------------------
(***************************************************************************)
(* Proofs about AccountClients, for any accounts, calls and subscription   *)
(* ids, and for any slabs, what the sides of the books are made of.        *)
(***************************************************************************)
EXTENDS AccountClients, SequenceTheorems, DataLemmas, TLAPS

Places == {"idle", "requesting", "waiting", "aborted", "timedOut", "subscribed", "failed"}

SubscriberTypeOK ==
    /\ DOMAIN pending \subseteq Keys /\ \A k \in DOMAIN pending : pending[k] \in Pending
    /\ DOMAIN subscriptions \subseteq SubscriptionIds
    /\ \A i \in DOMAIN subscriptions : subscriptions[i] \subseteq Calls
    /\ DOMAIN accountToCallback \subseteq Keys
    /\ \A k \in DOMAIN accountToCallback : accountToCallback[k] \in DOMAIN subscriptions
    /\ status \in [Calls -> Places]
    /\ key \in [Calls -> Keys] /\ key = CallKey
    /\ notified \in [SubscriptionIds -> Nat]
    /\ requests \in [Keys -> SUBSET Calls]

\* A request is under way for a key that no subscription is known for, and one only.
OneRequestEach ==
    /\ \A c \in Calls : status[c] = "requesting" =>
          key[c] \in DOMAIN pending /\ key[c] \notin DOMAIN accountToCallback
    /\ \A c, d \in Calls :
          status[c] = "requesting" /\ status[d] = "requesting" /\ key[c] = key[d] => c = d

\* No two accounts share a subscription, and one that is not known is not notified.
SubscriptionsApart ==
    /\ \A k, l \in DOMAIN accountToCallback : accountToCallback[k] = accountToCallback[l] => k = l
    /\ \A i \in SubscriptionIds \ DOMAIN subscriptions : notified[i] = 0

\* The callback of the call a request was made for waits for its answer, and then is
\* with the subscription.
RequesterKept ==
    \A k \in Keys :
       /\ k \notin DOMAIN pending => requests[k] = {} /\ k \notin DOMAIN accountToCallback
       /\ k \in DOMAIN pending \ DOMAIN accountToCallback => requests[k] \subseteq pending[k].callbacks
       /\ k \in DOMAIN accountToCallback => requests[k] \subseteq subscriptions[accountToCallback[k]]

SubscriberIInv ==
    SubscriberTypeOK /\ OneRequestEach /\ SubscriptionsApart /\ RequesterKept /\ SuccessMeansSubscription

\* Nothing is subscribed to before the books are read, and nothing of the books by the
\* wallet.
Early == {"referenceData", "accounts"}
NoCallsYet ==
    /\ inUse = "marketData" /\ loading \in Early =>
          DOMAIN accountToCallback = {} /\ \A c \in Calls : status[c] = "idle"
    /\ inUse = "wallet" => \A c \in Calls : key[c] \in BookKeys => status[c] = "idle"
    /\ inUse = "wallet" => DOMAIN accountToCallback \cap BookKeys = {}
    /\ inUse \in {"marketData", "wallet"}

\* The last versions of an account, in order, up to v.
LastVersions(s, v) ==
    s \in Seq(Nat) /\ \A i \in 1 .. Len(s) : s[i] = v - Len(s) + i

\* What is under way to the client are the last versions of an account.
TellsInOrder ==
    /\ account \in [Keys -> Nat]
    /\ DOMAIN toNotify = Keys
    /\ \A k \in Keys : toNotify[k] # <<>> => k \in DOMAIN accountToCallback
    /\ \A k \in Keys \ {"events"} : LastVersions(toNotify[k], account[k])

\* Who was told of a book has the data, and no one has before the books are read.
ToldHaveData ==
    /\ DOMAIN told = Callers["marketData"]
    /\ \A a \in DOMAIN told : told[a] # <<>> =>
          call["marketData"][a] = "data" /\ loading \notin Early

CallsTyped ==
    DOMAIN call = RefClients /\ DOMAIN call["marketData"] = Callers["marketData"]

BooksIInv ==
    /\ NoCallsYet /\ TellsInOrder /\ ToldHaveData /\ CallsTyped /\ DOMAIN read = BookKeys
    /\ BooksFollowAccounts

\* The wallet makes no call before it has the reference data.
WalletIInv ==
    /\ DOMAIN held = WalletKeys
    /\ subscribing \in {"none", "referenceData"} => \A k \in Keys : requests[k] \cap WalletCalls = {}
    /\ inUse = "marketData" => subscribing = "none"
    /\ WalletFollowsAccounts

-----------------------------------------------------------------------------
\* What the steps of the clients together do to the account subscriber.
SubscriberMoves ==
    \/ \E c \in Calls : AccountSubscribe(c) \/ SubscribeThrows(c) \/ Resume(c)
    \/ \E c \in Calls, id \in SubscriptionIds : SubscribeReturns(c, id)
    \/ \E k \in Keys : Expire(k)
    \/ \E id \in SubscriptionIds : Notify(id)

LEMMA StepOfSubscriber == [ClientsNext]_allVars => UNCHANGED vars \/ SubscriberMoves
<1> SUFFICES ASSUME [ClientsNext]_allVars PROVE UNCHANGED vars \/ SubscriberMoves
    OBVIOUS
<1>1. CASE SubscriberStep
    BY <1>1 DEF SubscriberStep, SubscriptionReturns, SubscriberMoves
<1>2. CASE MarketDataNext
    BY <1>2, ClientsAssumption
       DEF MarketDataNext, MarketDataStep, OnNotification, ChainStep, BookSubscribe, SubscriberGoesOn,
           ReferenceDataReturns, SnapshotArrives, SnapshotFails, MarketSubscribed, SubscribeMarket,
           SubscriberMoves
<1>3. CASE WalletNext
    BY <1>3, ClientsAssumption
       DEF WalletNext, WalletStep, WalletChainStep, OnWalletNotification, WalletDataThrows,
           WalletSubscribed, SubscribeAccount, SubscriberMoves
<1>4. CASE UserNext
    BY <1>4, ClientsAssumption DEF UserNext, SubscribeWallet, WalletDataReturns, SubscriberMoves
<1> QED BY <1>1, <1>2, <1>3, <1>4 DEF ClientsNext, allVars

\* The calls woken are those that waited for the key.
LEMMA WakeFacts ==
    ASSUME SubscriberTypeOK, NEW k, NEW how \in Places
    PROVE  /\ WakeWaiters(k, how) \in [Calls -> Places]
           /\ \A d \in Calls :
                 \/ WakeWaiters(k, how)[d] = status[d]
                 \/ WakeWaiters(k, how)[d] = how /\ status[d] = "waiting" /\ key[d] = k
BY DEF WakeWaiters, SubscriberTypeOK

LEMMA SubscriberInit == ClientsInit => SubscriberIInv
<1> SUFFICES ASSUME ClientsInit PROVE SubscriberIInv
    OBVIOUS
<1>1. /\ DOMAIN pending = {} /\ DOMAIN subscriptions = {} /\ DOMAIN accountToCallback = {}
      /\ status = [c \in Calls |-> "idle"]
      /\ key \in [Calls -> Keys] /\ key = CallKey
      /\ notified = [i \in SubscriptionIds |-> 0] /\ requests = [k \in Keys |-> {}]
    BY DEF ClientsInit, Init, SerumMdInit
<1>2. SubscriberTypeOK
    BY <1>1 DEF SubscriberTypeOK, Places
<1>3. OneRequestEach /\ SubscriptionsApart /\ RequesterKept /\ SuccessMeansSubscription
    BY <1>1 DEF OneRequestEach, SubscriptionsApart, RequesterKept, SuccessMeansSubscription
<1> QED BY <1>2, <1>3 DEF SubscriberIInv

\* A call that leaves the request, the list and the subscription of its key alone.
LEMMA StatusStep ==
    ASSUME SubscriberIInv,
           pending' = pending \/ \E k \in DOMAIN pending :
              pending' = [pending EXCEPT ![k].expiryTimer = "expired"],
           subscriptions' = subscriptions, accountToCallback' = accountToCallback,
           key' = key, notified' = notified, requests' = requests,
           status' \in [Calls -> Places],
           \A c \in Calls :
              /\ status'[c] = "requesting" => status[c] = "requesting"
              /\ status'[c] \in {"aborted", "subscribed"} =>
                    status[c] \in {"aborted", "subscribed"} \/ key[c] \in DOMAIN accountToCallback
    PROVE  SubscriberIInv'
<1> USE DEF SubscriberIInv
<1>1. /\ DOMAIN pending' = DOMAIN pending
      /\ \A k \in DOMAIN pending :
            pending'[k] \in Pending /\ pending'[k].callbacks = pending[k].callbacks
    BY DEF SubscriberTypeOK, Pending
<1>2. SubscriberTypeOK'
    BY <1>1 DEF SubscriberTypeOK
<1>3. OneRequestEach'
    BY <1>1 DEF OneRequestEach
<1>4. SubscriptionsApart'
    BY DEF SubscriptionsApart
<1>5. RequesterKept'
    BY <1>1 DEF RequesterKept
<1>6. SuccessMeansSubscription'
    BY DEF SuccessMeansSubscription
<1> QED BY <1>2, <1>3, <1>4, <1>5, <1>6

LEMMA CallGoesOnStep ==
    ASSUME SubscriberIInv, NEW c \in Calls,
           SubscribeThrows(c) \/ Resume(c) \/
              (status[c] = "idle" /\ JoinPending(c) /\ UNCHANGED <<key, notified>>)
    PROVE  SubscriberIInv'
<1>1. status \in [Calls -> Places]
    BY DEF SubscriberIInv, SubscriberTypeOK
<1>2. /\ pending' = pending /\ subscriptions' = subscriptions
      /\ accountToCallback' = accountToCallback
      /\ key' = key /\ notified' = notified /\ requests' = requests
    BY DEF SubscribeThrows, Resume, JoinPending
<1>3. /\ \A d \in Calls \ {c} : status'[d] = status[d]
      /\ status' \in [Calls -> Places]
      /\ \/ status'[c] \in {"failed", "waiting", "timedOut"}
         \/ status'[c] = "subscribed" /\ status[c] = "aborted"
    BY <1>1 DEF SubscribeThrows, Resume, JoinPending, Places
<1> QED BY <1>2, <1>3, StatusStep

LEMMA ExpireStep ==
    ASSUME SubscriberIInv, NEW k \in Keys, Expire(k)
    PROVE  SubscriberIInv'
<1>1. /\ k \in DOMAIN pending /\ pending' = [pending EXCEPT ![k].expiryTimer = "expired"]
      /\ subscriptions' = subscriptions /\ accountToCallback' = accountToCallback
      /\ key' = key /\ notified' = notified /\ requests' = requests
      /\ status' = WakeWaiters(k, "timedOut")
    BY DEF Expire
<1>2. /\ status' \in [Calls -> Places]
      /\ \A d \in Calls : status'[d] = status[d] \/ status'[d] = "timedOut"
    BY <1>1, WakeFacts DEF SubscriberIInv, Places
<1> QED BY <1>1, <1>2, StatusStep

LEMMA NotifyStep ==
    ASSUME SubscriberIInv, NEW id \in SubscriptionIds, Notify(id)
    PROVE  SubscriberIInv'
<1> USE DEF SubscriberIInv
<1>1. /\ id \in DOMAIN subscriptions /\ notified' = [notified EXCEPT ![id] = @ + 1]
      /\ pending' = pending /\ subscriptions' = subscriptions
      /\ accountToCallback' = accountToCallback /\ status' = status
      /\ key' = key /\ requests' = requests
    BY DEF Notify
<1>2. SubscriberTypeOK'
    BY <1>1 DEF SubscriberTypeOK
<1>3. SubscriptionsApart'
    BY <1>1 DEF SubscriptionsApart, SubscriberTypeOK
<1>4. OneRequestEach' /\ RequesterKept' /\ SuccessMeansSubscription'
    BY <1>1 DEF OneRequestEach, RequesterKept, SuccessMeansSubscription
<1> QED BY <1>2, <1>3, <1>4

LEMMA JoinSubscriptionStep ==
    ASSUME SubscriberIInv, NEW c \in Calls, status[c] = "idle",
           key[c] \in DOMAIN accountToCallback,
           JoinSubscription(c), UNCHANGED <<key, notified>>
    PROVE  SubscriberIInv'
<1> USE DEF SubscriberIInv
<1>1. /\ pending' = pending /\ accountToCallback' = accountToCallback
      /\ key' = key /\ notified' = notified /\ requests' = requests
      /\ status' = [status EXCEPT ![c] = "subscribed"]
    BY DEF JoinSubscription
<1>2. /\ DOMAIN subscriptions' = DOMAIN subscriptions
      /\ \A i \in DOMAIN subscriptions : subscriptions[i] \subseteq subscriptions'[i]
      /\ \A i \in DOMAIN subscriptions : subscriptions'[i] \subseteq subscriptions[i] \cup {c}
    BY DEF JoinSubscription
<1>3. status' \in [Calls -> Places] /\ \A d \in Calls \ {c} : status'[d] = status[d]
    BY <1>1 DEF SubscriberTypeOK, Places
<1>4. SubscriberTypeOK'
    BY <1>1, <1>2, <1>3 DEF SubscriberTypeOK
<1>5. OneRequestEach'
    BY <1>1, <1>3 DEF OneRequestEach, SubscriberTypeOK
<1>6. SubscriptionsApart'
    BY <1>1, <1>2 DEF SubscriptionsApart
<1>7. RequesterKept'
    BY <1>1, <1>2 DEF RequesterKept, SubscriberTypeOK
<1>8. SuccessMeansSubscription'
    BY <1>1, <1>3 DEF SuccessMeansSubscription
<1> QED BY <1>4, <1>5, <1>6, <1>7, <1>8

LEMMA FirstRequestStep ==
    ASSUME SubscriberIInv, NEW c \in Calls, status[c] = "idle",
           key[c] \notin DOMAIN pending, key[c] \notin DOMAIN accountToCallback,
           FirstRequest(c), UNCHANGED <<key, notified>>
    PROVE  SubscriberIInv'
<1> USE DEF SubscriberIInv
<1> DEFINE entry == [expiryTimer |-> "armed", callbacks |-> {c}]
<1>1. /\ subscriptions' = subscriptions /\ accountToCallback' = accountToCallback
      /\ key' = key /\ notified' = notified
      /\ requests' = [requests EXCEPT ![key[c]] = @ \cup {c}]
      /\ status' = [status EXCEPT ![c] = "requesting"]
    BY DEF FirstRequest
<1>2. /\ DOMAIN pending' = DOMAIN pending \cup {key[c]}
      /\ \A k \in DOMAIN pending : pending'[k] = pending[k]
      /\ pending'[key[c]] = entry /\ entry \in Pending
  <2>1. pending' = Emplace(pending, key[c], entry)
      BY DEF FirstRequest
  <2>2. entry \in Pending
      BY DEF Pending
  <2> HIDE DEF entry
  <2> QED BY <2>1, <2>2 DEF Emplace
<1>3. /\ status' \in [Calls -> Places]
      /\ status'[c] = "requesting" /\ \A d \in Calls \ {c} : status'[d] = status[d]
      /\ key[c] \in Keys
    BY <1>1 DEF SubscriberTypeOK, Places
<1>4. /\ requests' \in [Keys -> SUBSET Calls]
      /\ requests'[key[c]] = {c} /\ \A k \in Keys \ {key[c]} : requests'[k] = requests[k]
    BY <1>1, <1>3 DEF SubscriberTypeOK, RequesterKept
<1> HIDE DEF entry
<1>5. SubscriberTypeOK'
  <2>1. DOMAIN pending' \subseteq Keys /\ \A k \in DOMAIN pending' : pending'[k] \in Pending
      BY <1>2, <1>3 DEF SubscriberTypeOK
  <2> QED BY <1>1, <1>3, <1>4, <2>1 DEF SubscriberTypeOK
<1>6. OneRequestEach'
    BY <1>1, <1>2, <1>3 DEF OneRequestEach
<1>7. SubscriptionsApart'
    BY <1>1 DEF SubscriptionsApart
<1>8. RequesterKept'
    BY <1>1, <1>2, <1>4 DEF RequesterKept, entry
<1>9. SuccessMeansSubscription'
    BY <1>1, <1>3 DEF SuccessMeansSubscription
<1> QED BY <1>5, <1>6, <1>7, <1>8, <1>9

\* The answer: the entry's callbacks become those of the new subscription.
LEMMA SubscribeReturnsStep ==
    ASSUME SubscriberIInv, NEW c \in Calls, NEW id \in SubscriptionIds, SubscribeReturns(c, id)
    PROVE  SubscriberIInv'
<1> USE DEF SubscriberIInv
<1>1. /\ status[c] = "requesting" /\ id \notin DOMAIN subscriptions
      /\ key' = key /\ notified' = notified /\ requests' = requests
      /\ key[c] \in Keys /\ key[c] \in DOMAIN pending /\ key[c] \notin DOMAIN accountToCallback
    BY DEF SubscribeReturns, OneRequestEach, SubscriberTypeOK
<1>2. /\ DOMAIN subscriptions' = DOMAIN subscriptions \cup {id}
      /\ \A i \in DOMAIN subscriptions : subscriptions'[i] = subscriptions[i]
      /\ subscriptions'[id] = pending[key[c]].callbacks
      /\ DOMAIN accountToCallback' = DOMAIN accountToCallback \cup {key[c]}
      /\ \A k \in DOMAIN accountToCallback : accountToCallback'[k] = accountToCallback[k]
      /\ accountToCallback'[key[c]] = id
  <2>1. /\ subscriptions' = Emplace(subscriptions, id, pending[key[c]].callbacks)
        /\ accountToCallback' = Emplace(accountToCallback, key[c], id)
      BY DEF SubscribeReturns
  <2> QED BY <1>1, <2>1 DEF Emplace
<1>3. /\ DOMAIN pending' = DOMAIN pending
      /\ \A k \in DOMAIN pending \ {key[c]} : pending'[k] = pending[k]
      /\ pending'[key[c]] \in Pending
    BY <1>1 DEF SubscribeReturns, SubscriberTypeOK, Pending
<1>4. /\ status' \in [Calls -> Places]
      /\ status'[c] = "subscribed"
      /\ \A d \in Calls \ {c} :
            \/ status'[d] = status[d]
            \/ status'[d] = "aborted" /\ status[d] = "waiting" /\ key[d] = key[c]
  <2>1. "aborted" \in Places /\ "subscribed" \in Places
      BY DEF Places
  <2>2. status' = [WakeWaiters(key[c], "aborted") EXCEPT ![c] = "subscribed"]
      BY DEF SubscribeReturns
  <2> QED BY <2>1, <2>2, WakeFacts
<1>5. pending[key[c]].callbacks \subseteq Calls
    BY <1>1 DEF SubscriberTypeOK, Pending
<1>6. SubscriberTypeOK'
    BY <1>1, <1>2, <1>3, <1>4, <1>5 DEF SubscriberTypeOK
<1>7. OneRequestEach'
    BY <1>1, <1>2, <1>3, <1>4 DEF OneRequestEach
<1>8. SubscriptionsApart'
    BY <1>1, <1>2 DEF SubscriptionsApart, SubscriberTypeOK
<1>9. RequesterKept'
    BY <1>1, <1>2, <1>3 DEF RequesterKept, SubscriberTypeOK
<1>10. SuccessMeansSubscription'
    BY <1>1, <1>2, <1>4 DEF SuccessMeansSubscription
<1> QED BY <1>6, <1>7, <1>8, <1>9, <1>10

LEMMA SubscriberInductive == SubscriberIInv /\ [ClientsNext]_allVars => SubscriberIInv'
<1> SUFFICES ASSUME SubscriberIInv, [ClientsNext]_allVars PROVE SubscriberIInv'
    OBVIOUS
<1>1. CASE UNCHANGED vars
  <2>1. /\ pending' = pending /\ subscriptions' = subscriptions
        /\ accountToCallback' = accountToCallback /\ status' = status
        /\ key' = key /\ notified' = notified /\ requests' = requests
      BY <1>1 DEF vars
  <2> QED BY <2>1, StatusStep DEF SubscriberIInv, SubscriberTypeOK
<1>2. ASSUME NEW c \in Calls, AccountSubscribe(c) PROVE SubscriberIInv'
    BY <1>2, CallGoesOnStep, JoinSubscriptionStep, FirstRequestStep DEF AccountSubscribe
<1>3. ASSUME NEW c \in Calls, SubscribeThrows(c) \/ Resume(c) PROVE SubscriberIInv'
    BY <1>3, CallGoesOnStep
<1>4. ASSUME NEW c \in Calls, NEW id \in SubscriptionIds, SubscribeReturns(c, id)
      PROVE  SubscriberIInv'
    BY <1>4, SubscribeReturnsStep
<1>5. ASSUME NEW k \in Keys, Expire(k) PROVE SubscriberIInv'
    BY <1>5, ExpireStep
<1>6. ASSUME NEW id \in SubscriptionIds, Notify(id) PROVE SubscriberIInv'
    BY <1>6, NotifyStep
<1> QED BY <1>1, <1>2, <1>3, <1>4, <1>5, <1>6, StepOfSubscriber DEF SubscriberMoves

\* A call of account_subscribe ends well only with a subscription for its account.
THEOREM SuccessMeansSubscriptionHolds == ClientsSpec => []SuccessMeansSubscription
<1>1. SubscriberIInv => SuccessMeansSubscription
    BY DEF SubscriberIInv
<1> QED BY <1>1, SubscriberInit, SubscriberInductive, PTL DEF ClientsSpec

-----------------------------------------------------------------------------
\* A step of the account subscriber begins the call of account_subscribe it is, if it is
\* one, and makes the key of a request under way known, if it makes any.
LEMMA SubscriberEffects ==
    ASSUME SubscriberTypeOK, UNCHANGED vars \/ SubscriberMoves
    PROVE  /\ \A d \in Calls : status[d] = "idle" /\ status'[d] # "idle" => AccountSubscribe(d)
           /\ DOMAIN accountToCallback \subseteq DOMAIN accountToCallback'
           /\ \A k \in DOMAIN accountToCallback : accountToCallback'[k] = accountToCallback[k]
           /\ \A k \in DOMAIN accountToCallback' \ DOMAIN accountToCallback :
                 \E c \in Calls : status[c] = "requesting" /\ key[c] = k
           /\ key' = key
<1>1. CASE UNCHANGED vars
    BY <1>1 DEF vars
<1>2. ASSUME NEW c \in Calls, AccountSubscribe(c)
      PROVE  /\ \A d \in Calls \ {c} : status'[d] = status[d]
             /\ accountToCallback' = accountToCallback /\ key' = key
    BY <1>2 DEF AccountSubscribe, JoinPending, JoinSubscription, FirstRequest, SubscriberTypeOK
<1>3. ASSUME NEW c \in Calls, SubscribeThrows(c) \/ Resume(c)
      PROVE  /\ \A d \in Calls \ {c} : status'[d] = status[d]
             /\ status[c] # "idle"
             /\ accountToCallback' = accountToCallback /\ key' = key
    BY <1>3 DEF SubscribeThrows, Resume, SubscriberTypeOK
<1>4. ASSUME NEW c \in Calls, NEW id \in SubscriptionIds, SubscribeReturns(c, id)
      PROVE  /\ \A d \in Calls \ {c} : status'[d] = status[d] \/ status[d] = "waiting"
             /\ status[c] = "requesting"
             /\ DOMAIN accountToCallback' = DOMAIN accountToCallback \cup {key[c]}
             /\ \A k \in DOMAIN accountToCallback : accountToCallback'[k] = accountToCallback[k]
             /\ key' = key
    BY <1>4 DEF SubscribeReturns, Emplace, WakeWaiters, SubscriberTypeOK
<1>5. ASSUME NEW k \in Keys, Expire(k)
      PROVE  /\ \A d \in Calls : status'[d] = status[d] \/ status[d] = "waiting"
             /\ accountToCallback' = accountToCallback /\ key' = key
    BY <1>5 DEF Expire, WakeWaiters, SubscriberTypeOK
<1>6. ASSUME NEW id \in SubscriptionIds, Notify(id)
      PROVE  status' = status /\ accountToCallback' = accountToCallback /\ key' = key
    BY <1>6 DEF Notify
<1> QED BY <1>1, <1>2, <1>3, <1>4, <1>5, <1>6 DEF SubscriberMoves

\* Who makes calls of account_subscribe, and when.
LEMMA CallsMade ==
    ASSUME SubscriberTypeOK, [ClientsNext]_allVars,
           NEW d \in Calls, status[d] = "idle", status'[d] # "idle"
    PROVE  \/ /\ inUse = "marketData" /\ d \in MarketCalls
              /\ loading = "subscribing" /\ loading' = loading
           \/ /\ inUse = "wallet" /\ d \in WalletCalls \cup OtherCalls
              /\ d \in WalletCalls => subscribing = "subscribing" /\ subscribing' = subscribing
<1>1. ASSUME NEW c \in Calls, AccountSubscribe(c) PROVE d = c
    BY <1>1
       DEF AccountSubscribe, JoinPending, JoinSubscription, FirstRequest, SubscriberTypeOK
<1>2. status' # status
    OBVIOUS
<1>3. ~SubscriberStep
    BY DEF SubscriberStep, SubscribeThrows, Resume, Expire, SubscriptionReturns, SubscribeReturns,
           WakeWaiters, SubscriberTypeOK
<1>4. CASE inUse = "marketData" /\ MarketDataNext
    BY <1>1, <1>2, <1>4, ClientsAssumption
       DEF MarketDataNext, MarketDataStep, OnNotification, Notify, ChainStep, BookSubscribe,
           SubscriberGoesOn, ReferenceDataReturns, SnapshotArrives, SnapshotFails, MarketSubscribed,
           SubscribeMarket, serumVars, vars
<1>5. CASE inUse = "wallet" /\ WalletNext
    BY <1>1, <1>2, <1>5, ClientsAssumption
       DEF WalletNext, WalletStep, WalletChainStep, OnWalletNotification, Notify, WalletDataThrows,
           WalletSubscribed, SubscribeAccount, vars, walletVars
<1>6. CASE inUse = "wallet" /\ UserNext
    BY <1>1, <1>2, <1>6, ClientsAssumption DEF UserNext, SubscribeWallet, WalletDataReturns, vars
<1>7. CASE UNCHANGED allVars
    BY <1>2, <1>7 DEF allVars, vars
<1> QED BY <1>3, <1>4, <1>5, <1>6, <1>7 DEF ClientsNext

\* The market data are loaded but once.
LEMMA EarlyOnce ==
    [ClientsNext]_allVars => inUse' = inUse /\ (loading' \in Early => loading \in Early)
BY DEF ClientsNext, allVars, Early, SubscriberStep, SubscriptionReturns, serumVars,
       MarketDataNext, MarketDataStep, OnNotification, ChainStep, BookSubscribe, SubscriberGoesOn,
       ReferenceDataReturns, SnapshotArrives, SnapshotFails, MarketSubscribed, SubscribeMarket,
       WalletNext, WalletStep, WalletChainStep, OnWalletNotification, WalletDataThrows,
       WalletSubscribed, SubscribeAccount, UserNext, SubscribeWallet, WalletDataReturns

LEMMA NoCallsYetStep ==
    ASSUME SubscriberIInv, NoCallsYet, [ClientsNext]_allVars
    PROVE  NoCallsYet'
<1>1. /\ SubscriberTypeOK /\ key = CallKey
      /\ \A k \in DOMAIN accountToCallback' \ DOMAIN accountToCallback :
            \E c \in Calls : status[c] = "requesting" /\ key[c] = k
      /\ key' = key
    BY SubscriberEffects, StepOfSubscriber DEF SubscriberIInv, SubscriberTypeOK
<1>2. inUse' = inUse /\ (loading' \in Early => loading \in Early)
    BY EarlyOnce
<1>3. ASSUME inUse = "marketData", loading' \in Early
      PROVE  DOMAIN accountToCallback' = {} /\ \A c \in Calls : status'[c] = "idle"
    BY <1>1, <1>2, <1>3, CallsMade, SubscriberEffects, StepOfSubscriber DEF NoCallsYet, Early
<1>4. ASSUME inUse = "wallet"
      PROVE  /\ \A c \in Calls : key[c] \in BookKeys => status'[c] = "idle"
             /\ DOMAIN accountToCallback' \cap BookKeys = {}
  <2>1. \A c \in Calls : key[c] \in BookKeys => c \notin WalletCalls \cup OtherCalls
      BY <1>1, ClientsAssumption
  <2> QED BY <1>1, <1>4, <2>1, CallsMade DEF NoCallsYet
<1> QED BY <1>1, <1>2, <1>3, <1>4 DEF NoCallsYet

-----------------------------------------------------------------------------
\* What the chain changes and tells, and what the clients take of it.
AccountChanges(k) ==
    /\ account' = [account EXCEPT ![k] = @ + 1]
    /\ Tell(k, account[k] + 1)
    /\ consumed' = consumed
EventPushed ==
    /\ account["events"] < MaxEvents
    /\ account' = [account EXCEPT !["events"] = @ + 1]
    /\ Tell("events", <<account["events"] + 1, consumed>>)
    /\ consumed' = consumed
EventConsumed ==
    /\ consumed < account["events"]
    /\ account' = account
    /\ Tell("events", <<account["events"], consumed + 1>>)
    /\ consumed' = consumed + 1
Taken(k) ==
    /\ toNotify[k] # <<>>
    /\ toNotify' = [toNotify EXCEPT ![k] = Tail(@)]
    /\ account' = account /\ consumed' = consumed

LEMMA StepOfChain ==
    ASSUME SubscriberTypeOK, [ClientsNext]_allVars
    PROVE  \/ account' = account /\ toNotify' = toNotify /\ consumed' = consumed
           \/ /\ accountToCallback' = accountToCallback
              /\ \/ \E k \in Keys \ {"events"} : AccountChanges(k)
                 \/ EventPushed \/ EventConsumed
                 \/ \E k \in DOMAIN accountToCallback : Taken(k)
<1>1. BookKeys \subseteq Keys \ {"events"} /\ WalletKeys \subseteq Keys \ {"events"}
    BY ClientsAssumption DEF SubscriberTypeOK, WalletKeys, BookKeys
<1>2. CASE SubscriberStep
    BY <1>2 DEF SubscriberStep, SubscriptionReturns, serumVars, chainVars
<1>3. CASE MarketDataNext
  <2>1. CASE \E id \in SubscriptionIds : OnNotification(id)
      BY <2>1 DEF OnNotification, Notify, Taken
  <2>2. CASE ChainStep
      BY <1>1, <2>2 DEF ChainStep, AccountChanges, EventPushed, EventConsumed, vars
  <2>3. CASE MarketDataStep \/ \E a \in DOMAIN told : BookSubscribe(a)
      BY <2>3 DEF MarketDataStep, BookSubscribe, SubscriberGoesOn, ReferenceDataReturns,
                  SnapshotArrives, SnapshotFails, MarketSubscribed, SubscribeMarket, serumVars, chainVars
  <2> QED BY <1>3, <2>1, <2>2, <2>3 DEF MarketDataNext
<1>4. CASE WalletNext
  <2>1. CASE \E id \in SubscriptionIds : OnWalletNotification(id)
      BY <2>1 DEF OnWalletNotification, Notify, Taken
  <2>2. CASE WalletChainStep
      BY <1>1, <2>2 DEF WalletChainStep, AccountChanges, vars
  <2>3. CASE WalletStep
      BY <2>3 DEF WalletStep, WalletDataThrows, WalletSubscribed, SubscribeAccount, serumVars
  <2> QED BY <1>4, <2>1, <2>2, <2>3 DEF WalletNext
<1>5. CASE UserNext
    BY <1>5 DEF UserNext, SubscribeWallet, WalletDataReturns, serumVars
<1>6. CASE UNCHANGED allVars
    BY <1>6 DEF allVars, serumVars
<1> QED BY <1>2, <1>3, <1>4, <1>5, <1>6 DEF ClientsNext

LEMMA LastVersionsFacts ==
    ASSUME NEW s \in Seq(Nat), NEW v \in Nat, LastVersions(s, v)
    PROVE  /\ LastVersions(Append(s, v + 1), v + 1)
           /\ (v + 1) - Len(Append(s, v + 1)) = v - Len(s)
           /\ s # <<>> => /\ LastVersions(Tail(s), v)
                          /\ Head(s) = v - Len(Tail(s))
<1>1. LastVersions(Append(s, v + 1), v + 1)
    BY DEF LastVersions
<1>2. ASSUME s # <<>> PROVE LastVersions(Tail(s), v) /\ Head(s) = v - Len(Tail(s))
  <2>1. /\ Tail(s) \in Seq(Nat) /\ Len(Tail(s)) = Len(s) - 1 /\ Head(s) = s[1] /\ Len(s) \in Nat
        /\ \A i \in 1 .. Len(Tail(s)) : Tail(s)[i] = s[i + 1] /\ i + 1 \in 1 .. Len(s)
        /\ 1 \in 1 .. Len(s)
      BY <1>2
  <2> QED BY <2>1 DEF LastVersions
<1>3. (v + 1) - Len(Append(s, v + 1)) = v - Len(s)
    OBVIOUS
<1> QED BY <1>1, <1>2, <1>3

LEMMA TellsInOrderStep ==
    ASSUME SubscriberTypeOK, TellsInOrder, [ClientsNext]_allVars
    PROVE  TellsInOrder'
<1>1. DOMAIN accountToCallback \subseteq DOMAIN accountToCallback'
    BY SubscriberEffects, StepOfSubscriber
<1>2. \A k \in Keys \ {"events"} :
         toNotify[k] \in Seq(Nat) /\ account[k] \in Nat /\ LastVersions(toNotify[k], account[k])
    BY DEF TellsInOrder, LastVersions
<1>3. CASE account' = account /\ toNotify' = toNotify
    BY <1>1, <1>3 DEF TellsInOrder
<1>4. ASSUME NEW k \in Keys \ {"events"}, AccountChanges(k) PROVE TellsInOrder'
  <2>1. /\ account' \in [Keys -> Nat] /\ account'[k] = account[k] + 1
        /\ \A l \in Keys \ {k} : account'[l] = account[l]
      BY <1>4 DEF AccountChanges, TellsInOrder
  <2>2. CASE k \in DOMAIN accountToCallback
    <3>1. /\ DOMAIN toNotify' = Keys
          /\ toNotify'[k] = Append(toNotify[k], account[k] + 1)
          /\ \A l \in Keys \ {k} : toNotify'[l] = toNotify[l]
        BY <1>4, <2>2 DEF AccountChanges, Tell, TellsInOrder
    <3>2. LastVersions(toNotify'[k], account'[k])
        BY <1>2, <2>1, <3>1, LastVersionsFacts
    <3> QED BY <1>1, <2>1, <2>2, <3>1, <3>2 DEF TellsInOrder
  <2>3. CASE k \notin DOMAIN accountToCallback
    <3>1. toNotify' = toNotify /\ toNotify[k] = <<>>
        BY <1>4, <2>3 DEF AccountChanges, Tell, TellsInOrder
    <3>2. LastVersions(<<>>, account'[k])
        BY DEF LastVersions
    <3> QED BY <1>1, <2>1, <3>1, <3>2 DEF TellsInOrder
  <2> QED BY <2>2, <2>3
<1>5. ASSUME EventPushed \/ EventConsumed PROVE TellsInOrder'
  <2>1. "events" \in Keys
      BY ClientsAssumption
  <2>2. /\ account' \in [Keys -> Nat]
        /\ \A l \in Keys \ {"events"} : account'[l] = account[l]
      BY <1>5, <2>1 DEF EventPushed, EventConsumed, TellsInOrder
  <2>3. /\ DOMAIN toNotify' = Keys
        /\ \A l \in Keys \ {"events"} : toNotify'[l] = toNotify[l]
        /\ toNotify' = toNotify \/ "events" \in DOMAIN accountToCallback
      BY <1>5 DEF EventPushed, EventConsumed, Tell, TellsInOrder
  <2> QED BY <1>1, <2>2, <2>3 DEF TellsInOrder
<1>6. ASSUME NEW k \in DOMAIN accountToCallback, Taken(k) PROVE TellsInOrder'
  <2>1. k \in Keys
      BY DEF SubscriberTypeOK
  <2>2. /\ account' = account /\ DOMAIN toNotify' = Keys
        /\ toNotify'[k] = Tail(toNotify[k]) /\ toNotify[k] # <<>>
        /\ \A l \in Keys \ {k} : toNotify'[l] = toNotify[l]
      BY <1>6, <2>1 DEF Taken, TellsInOrder
  <2>3. k # "events" => LastVersions(toNotify'[k], account'[k])
      BY <1>2, <2>1, <2>2, LastVersionsFacts
  <2> QED BY <1>1, <2>1, <2>2, <2>3 DEF TellsInOrder
<1> QED BY <1>3, <1>4, <1>5, <1>6, StepOfChain

-----------------------------------------------------------------------------
\* Whoever has the data keeps it.
LEMMA DataStays ==
    ASSUME CallsTyped, [ClientsNext]_allVars
    PROVE  /\ CallsTyped'
           /\ \A a \in Callers["marketData"] :
                 call["marketData"][a] = "data" => call'["marketData"][a] = "data"
<1> DEFINE k == "marketData"
<1>1. k \in DOMAIN call /\ DOMAIN call = RefClients /\ DOMAIN call[k] = Callers[k]
    BY ClientsAssumption DEF CallsTyped
<1>2. CASE call' = call
    BY <1>2 DEF CallsTyped
<1>3. ASSUME NEW a, GetReferenceData(k, a) \/ CallerGoesOn(k, a)
      PROVE  /\ DOMAIN call' = DOMAIN call /\ DOMAIN call'[k] = DOMAIN call[k]
             /\ \A b \in DOMAIN call[k] : call[k][b] = "data" => call'[k][b] = "data"
  <2>1. /\ call[k][a] # "data"
        /\ \E new : call' = [call EXCEPT ![k] = [call[k] EXCEPT ![a] = new]]
      BY <1>3 DEF GetReferenceData, CallerGoesOn, WaitForData, CallerResumes
  <2> QED BY <1>1, <2>1
<1>4. ASSUME DeadlinePasses(k) \/ Loaded(k)
      PROVE  /\ DOMAIN call' = DOMAIN call /\ DOMAIN call'[k] = DOMAIN call[k]
             /\ \A b \in DOMAIN call[k] : call[k][b] = "data" => call'[k][b] = "data"
    BY <1>1, <1>4 DEF DeadlinePasses, Loaded, EndWaits
<1>5. \/ call' = call
      \/ \E a : GetReferenceData(k, a) \/ CallerGoesOn(k, a)
      \/ DeadlinePasses(k) \/ Loaded(k)
    BY DEF ClientsNext, allVars, SubscriberStep, SubscriptionReturns, refVars, LoadFails,
           MarketDataNext, MarketDataStep, OnNotification, ChainStep, BookSubscribe, SubscriberGoesOn,
           ReferenceDataReturns, SnapshotArrives, SnapshotFails, MarketSubscribed, SubscribeMarket,
           WalletNext, WalletStep, WalletChainStep, OnWalletNotification, WalletDataThrows,
           WalletSubscribed, SubscribeAccount, UserNext, SubscribeWallet, WalletDataReturns
<1> QED BY <1>1, <1>2, <1>3, <1>4, <1>5 DEF CallsTyped

\* A step that leaves the books, their history and the subscriptions as they are.
BooksKept ==
    /\ books' = books /\ told' = told /\ read' = read /\ missed' = missed
    /\ accountToCallback' = accountToCallback /\ notified' = notified

LEMMA StepOfBooks ==
    ASSUME SubscriberTypeOK, [ClientsNext]_allVars
    PROVE  \/ BooksKept /\ account' = account /\ toNotify' = toNotify
           \/ BooksKept /\ \E k \in Keys \ {"events"} : AccountChanges(k)
           \/ BooksKept /\ (EventPushed \/ EventConsumed)
           \/ inUse = "marketData" /\ SnapshotArrives
           \/ \E c \in Calls, id \in SubscriptionIds : SubscriptionReturns(c, id)
           \/ inUse = "marketData" /\ \E id \in SubscriptionIds : OnNotification(id)
           \/ \E id \in SubscriptionIds : OnWalletNotification(id)
<1>1. BookKeys \subseteq Keys \ {"events"} /\ WalletKeys \subseteq Keys \ {"events"}
    BY ClientsAssumption DEF SubscriberTypeOK, WalletKeys, BookKeys
<1>2. ASSUME NEW c \in Calls, AccountSubscribe(c)
      PROVE  accountToCallback' = accountToCallback /\ notified' = notified
    BY <1>2 DEF AccountSubscribe, JoinPending, JoinSubscription, FirstRequest
<1>3. CASE SubscriberStep
    BY <1>3 DEF SubscriberStep, SubscribeThrows, Resume, Expire, serumVars, chainVars, BooksKept
<1>4. CASE inUse = "marketData" /\ MarketDataNext
  <2>1. CASE ChainStep
      BY <1>1, <2>1 DEF ChainStep, AccountChanges, EventPushed, EventConsumed, vars, BooksKept
  <2>2. CASE \E c \in MarketCalls : SubscribeMarket(c)
      BY <1>2, <2>2, ClientsAssumption DEF SubscribeMarket, serumVars, BooksKept
  <2>3. CASE \/ \E ok \in BOOLEAN : ReferenceDataReturns(ok)
             \/ SnapshotFails \/ MarketSubscribed
             \/ \E a \in DOMAIN told : SubscriberGoesOn(a) \/ BookSubscribe(a)
             \/ DeadlinePasses("marketData") /\ UNCHANGED serumVars /\ UNCHANGED vars
      BY <2>3 DEF ReferenceDataReturns, SnapshotFails, MarketSubscribed, SubscriberGoesOn,
                  BookSubscribe, serumVars, chainVars, vars, BooksKept
  <2> QED BY <1>4, <2>1, <2>2, <2>3 DEF MarketDataNext, MarketDataStep
<1>5. CASE WalletNext
  <2>1. CASE WalletChainStep
      BY <1>1, <2>1 DEF WalletChainStep, AccountChanges, vars, BooksKept
  <2>2. CASE \E c \in WalletCalls : SubscribeAccount(c)
      BY <1>2, <2>2, ClientsAssumption DEF SubscribeAccount, serumVars, BooksKept
  <2>3. CASE WalletDataThrows \/ WalletSubscribed
      BY <2>3 DEF WalletDataThrows, WalletSubscribed, serumVars, vars, BooksKept
  <2> QED BY <1>5, <2>1, <2>2, <2>3 DEF WalletNext, WalletStep
<1>6. CASE UserNext
  <2>1. CASE \E c \in OtherCalls : AccountSubscribe(c) /\ UNCHANGED <<refVars, serumVars, walletVars>>
      BY <1>2, <2>1, ClientsAssumption DEF serumVars, BooksKept
  <2> QED BY <1>6, <2>1 DEF UserNext, SubscribeWallet, WalletDataReturns, serumVars, vars, BooksKept
<1>7. CASE UNCHANGED allVars
    BY <1>7 DEF allVars, serumVars, vars, BooksKept
<1> QED BY <1>3, <1>4, <1>5, <1>6, <1>7 DEF ClientsNext

\* A side of the book is behind its account by what is under way.
SideOK(k) ==
    k \notin missed \/ notified[accountToCallback[k]] > 0 =>
       read[k] = account[k] - Len(toNotify[k])

LEMMA SidesStep ==
    ASSUME SubscriberIInv, BooksIInv, [ClientsNext]_allVars,
           NEW k \in DOMAIN accountToCallback' \cap BookKeys
    PROVE  SideOK(k)'
<1> USE DEF SubscriberIInv, BooksIInv
<1>1. k \in Keys \ {"events"} /\ toNotify[k] \in Seq(Nat) /\ account[k] \in Nat
      /\ LastVersions(toNotify[k], account[k])
    BY ClientsAssumption DEF BookKeys, TellsInOrder, LastVersions
<1>2. k \in DOMAIN accountToCallback => SideOK(k)
    BY DEF BooksFollowAccounts, SideOK
<1>3. CASE BooksKept /\ account' = account /\ toNotify' = toNotify
    BY <1>2, <1>3 DEF BooksKept, SideOK
<1>4. ASSUME BooksKept, NEW l \in Keys \ {"events"}, AccountChanges(l) PROVE SideOK(k)'
  <2>1. k \in DOMAIN accountToCallback
      BY <1>4 DEF BooksKept
  <2>2. CASE k = l
    <3>1. /\ account'[k] = account[k] + 1
          /\ toNotify'[k] = Append(toNotify[k], account[k] + 1)
        BY <1>1, <1>4, <2>1, <2>2 DEF AccountChanges, Tell, TellsInOrder
    <3>2. account'[k] - Len(toNotify'[k]) = account[k] - Len(toNotify[k])
        BY <1>1, <3>1, LastVersionsFacts
    <3> QED BY <1>2, <1>4, <2>1, <3>2 DEF SideOK, BooksKept
  <2>3. CASE k # l
    <3>1. account'[k] = account[k] /\ toNotify'[k] = toNotify[k]
        BY <1>1, <1>4, <2>3 DEF AccountChanges, Tell, TellsInOrder
    <3> QED BY <1>2, <1>4, <2>1, <3>1 DEF SideOK, BooksKept
  <2> QED BY <2>2, <2>3
<1>5. ASSUME BooksKept, EventPushed \/ EventConsumed PROVE SideOK(k)'
  <2>1. account'[k] = account[k] /\ toNotify'[k] = toNotify[k]
      BY <1>1, <1>5 DEF EventPushed, EventConsumed, Tell, TellsInOrder
  <2> QED BY <1>2, <1>5, <2>1 DEF SideOK, BooksKept
<1>6. CASE inUse = "marketData" /\ SnapshotArrives
    BY <1>6 DEF SnapshotArrives, NoCallsYet, Early, vars
<1>7. ASSUME NEW c \in Calls, NEW id \in SubscriptionIds, SubscriptionReturns(c, id)
      PROVE  SideOK(k)'
  <2>1. /\ account' = account /\ toNotify' = toNotify /\ read' = read /\ notified' = notified
        /\ missed \subseteq missed'
        /\ id \notin DOMAIN subscriptions
        /\ accountToCallback' = Emplace(accountToCallback, key[c], id)
        /\ status[c] = "requesting"
      BY <1>7 DEF SubscriptionReturns, SubscribeReturns, chainVars
  <2>2. CASE k \in DOMAIN accountToCallback
    <3>1. accountToCallback'[k] = accountToCallback[k]
        BY <2>1, <2>2 DEF Emplace
    <3> QED BY <1>2, <2>1, <2>2, <3>1 DEF SideOK
  <2>3. CASE k \notin DOMAIN accountToCallback
    <3>1. k = key[c] /\ accountToCallback'[k] = id
        BY <2>1, <2>3 DEF Emplace
    <3>2. notified'[accountToCallback'[k]] = 0
        BY <2>1, <3>1 DEF SubscriptionsApart
    <3>3. k \notin missed' => account[k] = read[k]
        BY <1>7, <3>1 DEF SubscriptionReturns
    <3>4. toNotify[k] = <<>>
        BY <1>1, <2>3 DEF TellsInOrder
    <3> QED BY <1>1, <2>1, <3>2, <3>3, <3>4 DEF SideOK
  <2> QED BY <2>2, <2>3
<1>8. ASSUME NEW l \in DOMAIN accountToCallback, NEW id \in SubscriptionIds,
             accountToCallback[l] = id, Notify(id), toNotify[l] # <<>>,
             toNotify' = [toNotify EXCEPT ![l] = Tail(@)],
             account' = account, missed' = missed,
             k = l => read'[k] = Head(toNotify[k]),
             k # l => read'[k] = read[k]
      PROVE  SideOK(k)'
  <2>1. /\ accountToCallback' = accountToCallback
        /\ \A i \in SubscriptionIds \ {id} : notified'[i] = notified[i]
        /\ accountToCallback[k] \in SubscriptionIds
      BY <1>8 DEF Notify, SubscriberTypeOK
  <2>2. CASE k = l
    <3>1. toNotify'[k] = Tail(toNotify[k])
        BY <1>1, <1>8, <2>2 DEF TellsInOrder
    <3>2. Head(toNotify[k]) = account[k] - Len(Tail(toNotify[k]))
        BY <1>1, <1>8, <2>2, LastVersionsFacts
    <3> QED BY <1>8, <2>2, <3>1, <3>2 DEF SideOK
  <2>3. CASE k # l
    <3>1. toNotify'[k] = toNotify[k]
        BY <1>1, <1>8, <2>3 DEF TellsInOrder
    <3>2. notified'[accountToCallback[k]] = notified[accountToCallback[k]]
        BY <1>8, <2>1, <2>3 DEF SubscriptionsApart
    <3> QED BY <1>2, <1>8, <2>1, <2>3, <3>1, <3>2 DEF SideOK
  <2> QED BY <2>2, <2>3
<1>9. ASSUME NEW id \in SubscriptionIds, OnNotification(id) PROVE SideOK(k)'
  <2>1. PICK l \in DOMAIN accountToCallback :
              /\ accountToCallback[l] = id
              /\ toNotify[l] # <<>> /\ Notify(id)
              /\ toNotify' = [toNotify EXCEPT ![l] = Tail(@)]
              /\ IF l \in BookKeys THEN UpdateBook(l, Head(toNotify[l])) ELSE read' = read
              /\ account' = account /\ missed' = missed
      BY <1>9 DEF OnNotification
  <2>2. /\ k = l => read'[k] = Head(toNotify[k])
        /\ k # l => read'[k] = read[k]
      BY <2>1 DEF UpdateBook
  <2> QED BY <1>8, <2>1, <2>2
<1>10. ASSUME NEW id \in SubscriptionIds, OnWalletNotification(id) PROVE SideOK(k)'
  <2>1. PICK l \in DOMAIN accountToCallback \cap WalletKeys :
              /\ accountToCallback[l] = id
              /\ toNotify[l] # <<>> /\ Notify(id)
              /\ toNotify' = [toNotify EXCEPT ![l] = Tail(@)]
              /\ account' = account /\ missed' = missed /\ read' = read
      BY <1>10 DEF OnWalletNotification
  <2>2. k # l
      BY ClientsAssumption DEF WalletKeys
  <2> QED BY <1>8, <2>1, <2>2
<1> QED BY <1>3, <1>4, <1>5, <1>6, <1>7, <1>9, <1>10, StepOfBooks

\* Who was told of a book has the data, and what was told is the book as it is.
LEMMA ToldStep ==
    ASSUME SubscriberTypeOK, BooksIInv, [ClientsNext]_allVars
    PROVE  /\ ToldHaveData'
           /\ \A a \in DOMAIN told' : told'[a] # <<>> => told'[a] = books'
<1> USE DEF BooksIInv
<1>1. /\ \A a \in Callers["marketData"] :
            call["marketData"][a] = "data" => call'["marketData"][a] = "data"
      /\ loading' \in Early => loading \in Early
    BY DataStays, EarlyOnce
<1>2. /\ DOMAIN told = Callers["marketData"]
      /\ \A a \in DOMAIN told : told[a] # <<>> =>
            call["marketData"][a] = "data" /\ loading \notin Early /\ told[a] = books
    BY DEF ToldHaveData, BooksFollowAccounts
<1>3. CASE told' = told /\ books' = books
    BY <1>1, <1>2, <1>3 DEF ToldHaveData
<1>4. CASE inUse = "marketData" /\ SnapshotArrives
  <2>1. told' = told /\ \A a \in DOMAIN told : told[a] = <<>>
      BY <1>2, <1>4 DEF SnapshotArrives, Early
  <2> QED BY <1>2, <2>1 DEF ToldHaveData
<1>5. ASSUME inUse = "marketData", NEW id \in SubscriptionIds, OnNotification(id)
      PROVE  /\ ToldHaveData'
             /\ \A a \in DOMAIN told' : told'[a] # <<>> => told'[a] = books'
  <2>1. PICK k \in DOMAIN accountToCallback :
              /\ IF k \in BookKeys THEN UpdateBook(k, Head(toNotify[k]))
                 ELSE told' = told /\ books' = books
              /\ loading' = loading
      BY <1>5 DEF OnNotification
  <2>2. loading \notin Early
      BY <1>5 DEF NoCallsYet
  <2>3. CASE k \in BookKeys
    <3>1. told' = [a \in DOMAIN told |-> IF call["marketData"][a] = "data" THEN books' ELSE told[a]]
        BY <2>1, <2>3 DEF UpdateBook
    <3>2. DOMAIN told' = DOMAIN told
        BY <3>1
    <3>3. ASSUME NEW a \in DOMAIN told, told'[a] # <<>>
          PROVE  told'[a] = books' /\ call["marketData"][a] = "data"
      <4>1. CASE call["marketData"][a] = "data"
          BY <3>1, <4>1
      <4>2. CASE call["marketData"][a] # "data"
          BY <1>2, <3>1, <3>3, <4>2
      <4> QED BY <4>1, <4>2
    <3> QED BY <1>1, <1>2, <2>1, <2>2, <3>2, <3>3 DEF ToldHaveData
  <2>4. CASE k \notin BookKeys
      BY <1>3, <2>1, <2>4
  <2> QED BY <2>3, <2>4
<1>6. (\E c \in Calls, id \in SubscriptionIds : SubscriptionReturns(c, id)) =>
         told' = told /\ books' = books
    BY DEF SubscriptionReturns
<1>7. (\E id \in SubscriptionIds : OnWalletNotification(id)) => told' = told /\ books' = books
    BY DEF OnWalletNotification
<1> QED BY <1>3, <1>4, <1>5, <1>6, <1>7, StepOfBooks DEF BooksKept

LEMMA ReadDomainStep ==
    ASSUME SubscriberTypeOK, DOMAIN read = BookKeys, [ClientsNext]_allVars
    PROVE  DOMAIN read' = BookKeys
<1>1. BooksKept => read' = read
    BY DEF BooksKept
<1>2. SnapshotArrives => DOMAIN read' = BookKeys
    BY DEF SnapshotArrives
<1>3. \A id : OnNotification(id) => DOMAIN read' = DOMAIN read
    BY DEF OnNotification, UpdateBook
<1>4. \A id : OnWalletNotification(id) => read' = read
    BY DEF OnWalletNotification
<1>5. \A c, id : SubscriptionReturns(c, id) => read' = read
    BY DEF SubscriptionReturns
<1> QED BY <1>1, <1>2, <1>3, <1>4, <1>5, StepOfBooks

LEMMA BooksInit == ClientsInit => BooksIInv
<1> SUFFICES ASSUME ClientsInit PROVE BooksIInv
    OBVIOUS
<1>1. /\ accountToCallback = [k \in {} |-> {}] /\ status = [c \in Calls |-> "idle"]
      /\ account = [k \in Keys |-> 0] /\ toNotify = [k \in Keys |-> <<>>]
      /\ told = [a \in Callers["marketData"] |-> <<>>] /\ read = [k \in BookKeys |-> 0]
      /\ call = [k \in RefClients |-> [a \in Callers[k] |-> "none"]]
      /\ inUse \in {"marketData", "wallet"}
    BY DEF ClientsInit, Init, SerumMdInit, RefInit
<1>2. DOMAIN accountToCallback = {}
    BY <1>1
<1>3. NoCallsYet
    BY <1>1, <1>2 DEF NoCallsYet
<1>4. TellsInOrder
  <2>1. LastVersions(<<>>, 0)
      BY DEF LastVersions
  <2> QED BY <1>1, <2>1 DEF TellsInOrder
<1>5. ToldHaveData /\ CallsTyped
    BY <1>1, ClientsAssumption DEF ToldHaveData, CallsTyped
<1>6. BooksFollowAccounts
    BY <1>1, <1>2 DEF BooksFollowAccounts
<1> QED BY <1>1, <1>3, <1>4, <1>5, <1>6 DEF BooksIInv

LEMMA BooksInductive ==
    SubscriberIInv /\ BooksIInv /\ [ClientsNext]_allVars => BooksIInv'
<1> SUFFICES ASSUME SubscriberIInv, BooksIInv, [ClientsNext]_allVars PROVE BooksIInv'
    OBVIOUS
<1>1. SubscriberTypeOK /\ NoCallsYet /\ TellsInOrder /\ CallsTyped /\ DOMAIN read = BookKeys
    BY DEF SubscriberIInv, BooksIInv
<1>2. NoCallsYet' /\ TellsInOrder' /\ CallsTyped' /\ DOMAIN read' = BookKeys
    BY <1>1, NoCallsYetStep, TellsInOrderStep, DataStays, ReadDomainStep
<1>3. ToldHaveData' /\ BooksFollowAccounts'
    BY <1>1, ToldStep, SidesStep DEF BooksFollowAccounts, SideOK
<1> QED BY <1>2, <1>3 DEF BooksIInv

\* The books follow their accounts, and who was told of them was told of all of it.
THEOREM BooksFollowAccountsHolds == ClientsSpec => []BooksFollowAccounts
<1>1. BooksIInv => BooksFollowAccounts
    BY DEF BooksIInv
<1> QED BY <1>1, SubscriberInit, SubscriberInductive, BooksInit, BooksInductive, PTL DEF ClientsSpec

-----------------------------------------------------------------------------
\* A request is recorded only for an account that no subscription is known for.
LEMMA RequestsEffects ==
    ASSUME SubscriberTypeOK, UNCHANGED vars \/ SubscriberMoves, NEW k \in Keys
    PROVE  \/ requests'[k] = requests[k]
           \/ \E c \in Calls : /\ status[c] = "idle" /\ status'[c] # "idle"
                               /\ requests'[k] = requests[k] \cup {c}
                               /\ k \notin DOMAIN accountToCallback
                               /\ accountToCallback' = accountToCallback
<1>1. ASSUME NEW c \in Calls, AccountSubscribe(c), requests'[k] # requests[k]
      PROVE  /\ status[c] = "idle" /\ status'[c] # "idle"
             /\ requests'[k] = requests[k] \cup {c}
             /\ k \notin DOMAIN accountToCallback
             /\ accountToCallback' = accountToCallback
  <2>1. /\ FirstRequest(c) /\ key[c] \notin DOMAIN accountToCallback /\ status[c] = "idle"
      BY <1>1 DEF AccountSubscribe, JoinPending, JoinSubscription
  <2>2. /\ requests' = [requests EXCEPT ![key[c]] = @ \cup {c}]
        /\ status' = [status EXCEPT ![c] = "requesting"]
        /\ accountToCallback' = accountToCallback
      BY <2>1 DEF FirstRequest
  <2>3. DOMAIN requests = Keys /\ DOMAIN status = Calls
      BY DEF SubscriberTypeOK
  <2> QED BY <1>1, <2>1, <2>2, <2>3
<1>2. requests' = requests \/ \E c \in Calls : AccountSubscribe(c)
    BY DEF SubscriberMoves, vars, SubscribeThrows, Resume, SubscribeReturns, Expire, Notify
<1> QED BY <1>1, <1>2

\* A step that leaves the wallet's accounts and the subscriptions as they are.
HeldKept ==
    /\ held' = held
    /\ accountToCallback' = accountToCallback /\ notified' = notified

LEMMA StepOfWallet ==
    ASSUME SubscriberTypeOK, [ClientsNext]_allVars
    PROVE  \/ HeldKept /\ account' = account /\ toNotify' = toNotify
           \/ HeldKept /\ \E k \in Keys \ {"events"} : AccountChanges(k)
           \/ HeldKept /\ (EventPushed \/ EventConsumed)
           \/ \E versions : WalletDataReturns(versions)
           \/ \E c \in Calls, id \in SubscriptionIds : SubscriptionReturns(c, id)
           \/ inUse = "marketData"
           \/ inUse = "wallet" /\ \E id \in SubscriptionIds : OnWalletNotification(id)
<1>1. WalletKeys \subseteq Keys \ {"events"}
    BY ClientsAssumption DEF SubscriberTypeOK, WalletKeys
<1>2. ASSUME NEW c \in Calls, AccountSubscribe(c)
      PROVE  accountToCallback' = accountToCallback /\ notified' = notified
    BY <1>2 DEF AccountSubscribe, JoinPending, JoinSubscription, FirstRequest
<1>3. CASE SubscriberStep
    BY <1>3 DEF SubscriberStep, SubscribeThrows, Resume, Expire, serumVars, chainVars, walletVars, HeldKept
<1>5. CASE inUse = "wallet" /\ WalletNext
  <2>1. CASE WalletChainStep
      BY <1>1, <2>1 DEF WalletChainStep, AccountChanges, vars, walletVars, HeldKept
  <2>2. CASE \E c \in WalletCalls : SubscribeAccount(c)
      BY <1>2, <2>2, ClientsAssumption DEF SubscribeAccount, serumVars, chainVars, walletVars, HeldKept
  <2>3. CASE WalletDataThrows \/ WalletSubscribed
      BY <2>3 DEF WalletDataThrows, WalletSubscribed, serumVars, chainVars, vars, HeldKept
  <2> QED BY <1>5, <2>1, <2>2, <2>3 DEF WalletNext, WalletStep
<1>6. CASE UserNext
  <2>1. CASE \E c \in OtherCalls : AccountSubscribe(c) /\ UNCHANGED <<refVars, serumVars, walletVars>>
      BY <1>2, <2>1, ClientsAssumption DEF serumVars, chainVars, walletVars, HeldKept
  <2>2. CASE SubscribeWallet
      BY <2>2 DEF SubscribeWallet, serumVars, chainVars, vars, HeldKept
  <2> QED BY <1>6, <2>1, <2>2 DEF UserNext
<1>7. CASE UNCHANGED allVars
    BY <1>7 DEF allVars, serumVars, chainVars, vars, walletVars, HeldKept
<1> QED BY <1>3, <1>5, <1>6, <1>7 DEF ClientsNext

\* An account whose first request was the wallet's is held as it was notified last.
HeldOK(k) ==
    requests[k] \cap WalletCalls # {} /\ notified[accountToCallback[k]] > 0 =>
       held[k] = account[k] - Len(toNotify[k])

LEMMA HeldStep ==
    ASSUME SubscriberIInv, BooksIInv, WalletIInv, [ClientsNext]_allVars, inUse = "wallet",
           subscribing' \in {"subscribing", "done"},
           NEW k \in DOMAIN accountToCallback' \cap WalletKeys
    PROVE  HeldOK(k)'
<1> USE DEF SubscriberIInv, WalletIInv
<1>0. k \in Keys \ {"events"}
    BY ClientsAssumption DEF SubscriberTypeOK, WalletKeys
<1>1. /\ k \in Keys \ {"events"} /\ toNotify[k] \in Seq(Nat) /\ account[k] \in Nat
      /\ LastVersions(toNotify[k], account[k])
    BY <1>0 DEF BooksIInv, TellsInOrder, LastVersions
<1>13. DOMAIN toNotify = Keys /\ DOMAIN account = Keys
    BY DEF BooksIInv, TellsInOrder
<1>2. k \in DOMAIN accountToCallback => requests'[k] = requests[k]
    BY <1>1, RequestsEffects, StepOfSubscriber
<1>3. subscribing \in {"subscribing", "done"} /\ k \in DOMAIN accountToCallback => HeldOK(k)
    BY DEF WalletFollowsAccounts, HeldOK
<1>4. \/ subscribing \in {"subscribing", "done"}
      \/ \E versions : WalletDataReturns(versions)
    BY DEF ClientsNext, allVars, SubscriberStep, SubscriptionReturns, walletVars,
           WalletNext, WalletStep, WalletChainStep, OnWalletNotification, WalletDataThrows,
           WalletSubscribed, SubscribeAccount, UserNext, SubscribeWallet
<1>5. ASSUME NEW versions, WalletDataReturns(versions) PROVE HeldOK(k)'
  <2>1. subscribing = "referenceData" /\ requests' = requests
      BY <1>5 DEF WalletDataReturns, vars
  <2> QED BY <1>1, <2>1 DEF HeldOK
<1>6. ASSUME k \in DOMAIN accountToCallback, HeldOK(k), HeldKept,
             account'[k] - Len(toNotify'[k]) = account[k] - Len(toNotify[k])
      PROVE  HeldOK(k)'
    BY <1>2, <1>6 DEF HeldOK, HeldKept
<1>7. ASSUME HeldKept, account' = account, toNotify' = toNotify, HeldOK(k) PROVE HeldOK(k)'
    BY <1>6, <1>7 DEF HeldKept
<1>8. ASSUME HeldKept, NEW l \in Keys \ {"events"}, AccountChanges(l), HeldOK(k) PROVE HeldOK(k)'
  <2>1. k \in DOMAIN accountToCallback
      BY <1>8 DEF HeldKept
  <2>2. CASE k = l
    <3>1. /\ account'[k] = account[k] + 1
          /\ toNotify'[k] = Append(toNotify[k], account[k] + 1)
        BY <1>1, <1>8, <1>13, <2>1, <2>2 DEF AccountChanges, Tell
    <3>2. account'[k] - Len(toNotify'[k]) = account[k] - Len(toNotify[k])
        BY <1>1, <3>1, LastVersionsFacts
    <3> QED BY <1>6, <1>8, <2>1, <3>2
  <2>3. CASE k # l
    <3>1. account'[k] = account[k] /\ toNotify'[k] = toNotify[k]
        BY <1>1, <1>8, <1>13, <2>3 DEF AccountChanges, Tell
    <3> QED BY <1>6, <1>8, <2>1, <3>1
  <2> QED BY <2>2, <2>3
<1>9. ASSUME HeldKept, EventPushed \/ EventConsumed, HeldOK(k) PROVE HeldOK(k)'
  <2>1. account'[k] = account[k] /\ toNotify'[k] = toNotify[k]
      BY <1>1, <1>9, <1>13 DEF EventPushed, EventConsumed, Tell
  <2> QED BY <1>6, <1>9, <2>1 DEF HeldKept
<1>10. ASSUME NEW c \in Calls, NEW id \in SubscriptionIds, SubscriptionReturns(c, id)
       PROVE  HeldOK(k)'
  <2>1. /\ account' = account /\ toNotify' = toNotify /\ held' = held /\ notified' = notified
        /\ subscribing' = subscribing /\ \A i \in SubscriptionIds \ DOMAIN subscriptions : notified[i] = 0
        /\ id \notin DOMAIN subscriptions
        /\ accountToCallback' = Emplace(accountToCallback, key[c], id)
      BY <1>10 DEF SubscriptionReturns, SubscribeReturns, chainVars, walletVars, SubscriptionsApart
  <2>2. CASE k \in DOMAIN accountToCallback
    <3>1. accountToCallback'[k] = accountToCallback[k]
        BY <2>1, <2>2 DEF Emplace
    <3> QED BY <1>2, <1>3, <2>1, <2>2, <3>1 DEF HeldOK
  <2>3. CASE k \notin DOMAIN accountToCallback
    <3>1. accountToCallback'[k] = id
        BY <2>1, <2>3 DEF Emplace
    <3>2. notified'[accountToCallback'[k]] = 0
        BY <2>1, <3>1
    <3>3. ~(notified'[accountToCallback'[k]] > 0)
      <4> HIDE DEF SubscriberIInv, WalletIInv
      <4> QED BY <3>2
    <3> QED BY <3>3 DEF HeldOK
  <2> QED BY <2>2, <2>3
<1>11. ASSUME NEW id \in SubscriptionIds, OnWalletNotification(id), HeldOK(k) PROVE HeldOK(k)'
  <2>1. PICK l \in DOMAIN accountToCallback \cap WalletKeys :
              /\ accountToCallback[l] = id
              /\ toNotify[l] # <<>> /\ Notify(id)
              /\ toNotify' = [toNotify EXCEPT ![l] = Tail(@)]
              /\ IF subscriptions[id] \cap WalletCalls # {}
                 THEN held' = [held EXCEPT ![l] = Head(toNotify[l])]
                 ELSE held' = held
              /\ account' = account
      BY <1>11 DEF OnWalletNotification
  <2>2. /\ accountToCallback' = accountToCallback /\ requests' = requests
        /\ \A i \in SubscriptionIds \ {id} : notified'[i] = notified[i]
        /\ accountToCallback[k] \in SubscriptionIds
      BY <2>1 DEF Notify, SubscriberTypeOK
  <2>3. CASE k = l
    <3>1. toNotify'[k] = Tail(toNotify[k])
        BY <1>1, <1>13, <2>1, <2>3
    <3>2. Head(toNotify[k]) = account[k] - Len(Tail(toNotify[k]))
        BY <1>1, <2>1, <2>3, LastVersionsFacts
    <3>3. requests[k] \subseteq subscriptions[id]
        BY <1>1, <2>1, <2>3 DEF RequesterKept
    <3> QED BY <2>1, <2>2, <2>3, <3>1, <3>2, <3>3 DEF HeldOK
  <2>4. CASE k # l
    <3>1. toNotify'[k] = toNotify[k] /\ held'[k] = held[k]
        BY <1>1, <1>13, <2>1, <2>4
    <3>2. notified'[accountToCallback[k]] = notified[accountToCallback[k]]
        BY <2>1, <2>2, <2>4 DEF SubscriptionsApart
    <3> QED BY <1>11, <2>1, <2>2, <3>1, <3>2 DEF HeldOK
  <2> QED BY <2>3, <2>4
<1>12. HeldKept \/ (\E id \in SubscriptionIds : OnWalletNotification(id)) =>
          k \in DOMAIN accountToCallback
    BY DEF HeldKept, OnWalletNotification, Notify
<1> QED BY <1>3, <1>4, <1>5, <1>7, <1>8, <1>9, <1>10, <1>11, <1>12, StepOfWallet

LEMMA WalletInitially == ClientsInit => WalletIInv
<1> SUFFICES ASSUME ClientsInit PROVE WalletIInv
    OBVIOUS
<1>1. /\ subscribing = "none" /\ held = [k \in WalletKeys |-> 0]
      /\ requests = [k \in Keys |-> {}]
    BY DEF ClientsInit, Init, WalletInit
<1> QED BY <1>1 DEF WalletIInv, WalletFollowsAccounts

\* The wallet is subscribed to but once, and only by a program that uses it.
LEMMA SubscribingStep ==
    ASSUME [ClientsNext]_allVars, DOMAIN held = WalletKeys
    PROVE  /\ subscribing' \in {"none", "referenceData"} => subscribing \in {"none", "referenceData"}
           /\ inUse = "marketData" /\ subscribing = "none" => subscribing' = "none"
           /\ DOMAIN held' = WalletKeys
<1>1. CASE SubscriberStep
    BY <1>1 DEF SubscriberStep, SubscriptionReturns, walletVars
<1>2. CASE inUse = "marketData" /\ MarketDataNext
    BY <1>2 DEF MarketDataNext, walletVars
<1>3. CASE inUse = "wallet" /\ WalletNext
    BY <1>3 DEF WalletNext, WalletStep, WalletChainStep, OnWalletNotification, WalletDataThrows,
                WalletSubscribed, SubscribeAccount, walletVars
<1>4. CASE inUse = "wallet" /\ UserNext
    BY <1>4 DEF UserNext, SubscribeWallet, WalletDataReturns, walletVars
<1>5. CASE UNCHANGED allVars
    BY <1>5 DEF allVars, walletVars
<1> QED BY <1>1, <1>2, <1>3, <1>4, <1>5 DEF ClientsNext

\* Whenever the accounts held change, the wallet is told from them.
LEMMA TellsWallet ==
    ASSUME [ClientsNext]_allVars, subscribing' \in {"subscribing", "done"}
    PROVE  \/ wallet' = WalletOf(held')
           \/ UNCHANGED <<held, wallet>> /\ subscribing \in {"subscribing", "done"}
<1>1. CASE SubscriberStep
    BY <1>1 DEF SubscriberStep, SubscriptionReturns, walletVars
<1>2. CASE MarketDataNext
    BY <1>2 DEF MarketDataNext, walletVars
<1>3. CASE WalletNext
    BY <1>3 DEF WalletNext, WalletStep, WalletChainStep, OnWalletNotification, WalletDataThrows,
                WalletSubscribed, SubscribeAccount, walletVars
<1>4. CASE UserNext
    BY <1>4 DEF UserNext, SubscribeWallet, WalletDataReturns, walletVars
<1>5. CASE UNCHANGED allVars
    BY <1>5 DEF allVars, walletVars
<1> QED BY <1>1, <1>2, <1>3, <1>4, <1>5 DEF ClientsNext

LEMMA WalletInductive ==
    SubscriberIInv /\ BooksIInv /\ WalletIInv /\ [ClientsNext]_allVars => WalletIInv'
<1> SUFFICES ASSUME SubscriberIInv, BooksIInv, WalletIInv, [ClientsNext]_allVars PROVE WalletIInv'
    OBVIOUS
<1>1. SubscriberTypeOK /\ inUse \in {"marketData", "wallet"} /\ inUse' = inUse
    BY EarlyOnce DEF SubscriberIInv, BooksIInv, NoCallsYet
<1>2. /\ DOMAIN held' = WalletKeys
      /\ inUse = "marketData" => subscribing' = "none"
      /\ subscribing' \in {"none", "referenceData"} => subscribing \in {"none", "referenceData"}
    BY SubscribingStep DEF WalletIInv
<1>3. ASSUME subscribing' \in {"none", "referenceData"}, NEW k \in Keys
      PROVE  requests'[k] \cap WalletCalls = {}
  <2>1. requests[k] \cap WalletCalls = {} /\ subscribing # "subscribing"
      BY <1>2, <1>3 DEF WalletIInv
  <2>2. ASSUME NEW c \in Calls, status[c] = "idle", status'[c] # "idle" PROVE c \notin WalletCalls
      BY <1>1, <2>1, <2>2, CallsMade, ClientsAssumption
  <2> QED BY <1>1, <2>1, <2>2, RequestsEffects, StepOfSubscriber
<1>4. WalletFollowsAccounts'
  <2>1. ASSUME subscribing' \in {"subscribing", "done"} PROVE wallet' = WalletOf(held')
      BY <2>1, TellsWallet DEF WalletIInv, WalletFollowsAccounts
  <2>2. ASSUME subscribing' \in {"subscribing", "done"}, NEW k \in DOMAIN accountToCallback' \cap WalletKeys
        PROVE  HeldOK(k)'
    <3>1. inUse = "wallet"
        BY <1>1, <1>2, <2>2
    <3> QED BY <2>2, <3>1, HeldStep
  <2> QED BY <2>1, <2>2 DEF WalletFollowsAccounts, HeldOK
<1> QED BY <1>1, <1>2, <1>3, <1>4 DEF WalletIInv

\* WalletFollowsAccounts (do_update_positions): the wallet told last is that of the accounts
\* held, and those the wallet asked for first are held as they were notified last.
THEOREM WalletFollowsAccountsHolds == ClientsSpec => []WalletFollowsAccounts
<1>1. WalletIInv => WalletFollowsAccounts
    BY DEF WalletIInv
<1> QED BY <1>1, SubscriberInit, SubscriberInductive, BooksInit, BooksInductive, WalletInitially,
           WalletInductive, PTL DEF ClientsSpec

-----------------------------------------------------------------------------
\* The orders and the levels of a side.
Entries == [price : Int, quantity : Int]

\* s has the orders in the places that perm says, best first.
Sorts(perm, side, orders, s) ==
    /\ s \in Seq(Entries) /\ Len(s) = Len(orders)
    /\ perm \in [1 .. Len(orders) -> 1 .. Len(orders)]
    /\ \A i \in 1 .. Len(orders) : \E m \in 1 .. Len(orders) : perm[m] = i
    /\ \A m, l \in 1 .. Len(orders) : m < l => perm[m] # perm[l] /\ ~Better(side, s[l], s[m])
    /\ \A m \in 1 .. Len(orders) : s[m] = orders[perm[m]]

\* do_update_book's std::sort gives the same orders, best first.
LEMMA OrdersSorted ==
    ASSUME NEW side, NEW orders \in Seq(Entries)
    PROVE  \E perm : Sorts(perm, side, orders, SortOrders(side, orders))
<1> DEFINE n == Len(orders)
           T == 1 .. n
           Before(i) == {j \in DOMAIN orders :
               \/ Better(side, orders[j], orders[i])
               \/ (j < i /\ ~Better(side, orders[i], orders[j]))}
           before == [i \in T |-> Before(i)]
           Nth(m) == CHOOSE i \in DOMAIN orders : Cardinality(Before(i)) = m - 1
           perm == [m \in T |-> Nth(m)]
           s == SortOrders(side, orders)
<1>1. n \in Nat /\ DOMAIN orders = T /\ \A i \in T : orders[i] \in Entries
    BY ElementOfSeq, LenProperties
<1>2. \A i \in T : orders[i].price \in Int
    BY <1>1 DEF Entries
<1>3. OrderOf(T, before)
  <2>1. before \in [T -> SUBSET T]
      BY <1>1
  <2>2. \A i, j \in T : j \in before[i] <=> \/ Better(side, orders[j], orders[i])
                                            \/ ~Better(side, orders[i], orders[j]) /\ j < i
      BY <1>1
  <2> HIDE DEF before
  <2>3. \A i \in T : i \notin before[i]
      BY <1>1, <1>2, <2>2 DEF Better
  <2>4. \A i, j \in T : i # j => i \in before[j] \/ j \in before[i]
      BY <1>1, <1>2, <2>2 DEF Better
  <2>5. ASSUME NEW i \in T, NEW j \in T, NEW k \in T, j \in before[i], k \in before[j]
        PROVE  k \in before[i]
    <3>1. i \in Int /\ j \in Int /\ k \in Int
        BY <1>1
    <3> QED BY <1>2, <2>2, <2>5, <3>1 DEF Better
  <2>6. \A i, j \in T : j \in before[i] => before[j] \subseteq before[i]
      BY <2>1, <2>5
  <2> QED BY <2>1, <2>3, <2>4, <2>6 DEF OrderOf
<1>4. Cardinality(T) = n /\ IsFiniteSet(T)
  <2>1. 1 \in Int /\ n \in Int
      BY <1>1
  <2>2. IsFiniteSet(T) /\ Cardinality(T) = IF 1 > n THEN 0 ELSE n - 1 + 1
      BY <2>1, FS_Interval
  <2> QED BY <1>1, <2>2
<1>5. /\ \A i \in T : Cardinality(before[i]) \in 0 .. n - 1
      /\ \A i, j \in T : Cardinality(before[i]) < Cardinality(before[j]) <=> i \in before[j]
      /\ \A i, j \in T : Cardinality(before[i]) = Cardinality(before[j]) => i = j
      /\ \A m \in T : \E i \in T : Cardinality(before[i]) = m - 1
  <2> HIDE DEF before, T, n
  <2>1. /\ \A x \in T : Cardinality(before[x]) \in 0 .. Cardinality(T) - 1
        /\ \A x, y \in T : Cardinality(before[x]) < Cardinality(before[y]) <=> x \in before[y]
        /\ \A x, y \in T : Cardinality(before[x]) = Cardinality(before[y]) => x = y
        /\ \A m \in 1 .. Cardinality(T) : \E x \in T : Cardinality(before[x]) = m - 1
      BY <1>3, <1>4, Ranks
  <2>2. T = 1 .. Cardinality(T)
      BY <1>4 DEF T
  <2> QED BY <1>4, <2>1, <2>2
<1>6. \A i \in T : before[i] = Before(i)
    OBVIOUS
<1>7. ASSUME NEW m \in T
      PROVE  perm[m] \in T /\ Cardinality(before[perm[m]]) = m - 1 /\ s[m] = orders[perm[m]]
  <2>1. perm[m] = Nth(m)
      OBVIOUS
  <2>2. \E i \in DOMAIN orders : Cardinality(Before(i)) = m - 1
    <3> HIDE DEF Before, before
    <3> QED BY <1>1, <1>5, <1>6
  <2>3. perm[m] \in T /\ Cardinality(Before(perm[m])) = m - 1
    <3>1. Nth(m) \in DOMAIN orders /\ Cardinality(Before(Nth(m))) = m - 1
      <4> HIDE DEF Before
      <4> QED BY <2>2
    <3> QED BY <1>1, <2>1, <3>1
  <2>4. s[m] = orders[perm[m]]
      BY <1>1 DEF SortOrders
  <2> HIDE DEF Before, before, perm, s
  <2> QED BY <1>6, <2>3, <2>4
<1>8. s = [m \in T |-> s[m]]
    BY <1>1 DEF SortOrders
<1>9. \A i, j \in T : j \in before[i] => ~Better(side, orders[i], orders[j])
    BY <1>1, <1>2 DEF Better
<1>10. perm \in [T -> T]
  <2> HIDE DEF Nth
  <2>1. \A m \in T : perm[m] = Nth(m)
      OBVIOUS
  <2>2. \A m \in T : Nth(m) \in T
      BY <1>7, <2>1
  <2> QED BY <2>2
<1> HIDE DEF Before, before, perm, s
<1>11. s \in Seq(Entries) /\ Len(s) = n
  <2>1. s \in [1 .. n -> Entries]
      BY <1>1, <1>7, <1>8
  <2> QED BY <1>1, <2>1, LenProperties
<1>13. \A i \in T : \E m \in T : perm[m] = i
  <2> SUFFICES ASSUME NEW i \in T PROVE \E m \in T : perm[m] = i
      OBVIOUS
  <2>3. Cardinality(before[i]) \in 0 .. n - 1
      BY <1>5
  <2>1. Cardinality(before[i]) + 1 \in T /\ (Cardinality(before[i]) + 1) - 1 = Cardinality(before[i])
      BY <1>1, <2>3
  <2>2. perm[Cardinality(before[i]) + 1] = i
      BY <1>5, <1>7, <2>1
  <2> QED BY <2>1, <2>2
<1>14. ASSUME NEW m \in T, NEW l \in T, m < l PROVE perm[m] # perm[l] /\ ~Better(side, s[l], s[m])
  <2>1. Cardinality(before[perm[m]]) < Cardinality(before[perm[l]])
      BY <1>1, <1>7, <1>14
  <2>2. perm[m] \in before[perm[l]]
      BY <1>5, <1>7, <2>1
  <2>3. perm[m] \in T /\ perm[l] \in T /\ s[m] = orders[perm[m]] /\ s[l] = orders[perm[l]]
      BY <1>7
  <2>4. ~Better(side, orders[perm[l]], orders[perm[m]])
      BY <1>9, <2>2, <2>3
  <2>5. perm[m] # perm[l]
    <3>1. \A i \in T : i \notin before[i]
        BY <1>3 DEF OrderOf
    <3> QED BY <2>2, <2>3, <3>1
  <2> QED BY <2>3, <2>4, <2>5
<1>15. Sorts(perm, side, orders, s)
    BY <1>7, <1>10, <1>11, <1>13, <1>14 DEF Sorts
<1> QED BY <1>15 DEF s

-----------------------------------------------------------------------------
\* SumQuantity is the total of what the orders offer at a price.
LEMMA QuantitiesSummed ==
    ASSUME NEW orders \in Seq(Entries), NEW price \in Int
    PROVE  /\ Totals(SumsOf(Offered(orders, price)), DOMAIN orders, Offered(orders, price))
           /\ SumQuantity(orders, price) = SumsOf(Offered(orders, price))[DOMAIN orders]
<1> DEFINE S == DOMAIN orders
           w == Offered(orders, price)
<1>1. Len(orders) \in Nat /\ S = 1 .. Len(orders) /\ \A i \in S : orders[i] \in Entries
    BY ElementOfSeq, LenProperties
<1>2. IsFiniteSet(S)
    BY <1>1, FS_Interval
<1>3. w \in [S -> Int]
    BY <1>1 DEF Offered, Entries
<1> HIDE DEF w, S
<1>4. Totals(SumsOf(w), S, w) /\ SumFunction(w) = SumsOf(w)[S]
    BY <1>2, <1>3, SumFunctionIsTotal
<1> QED BY <1>4 DEF SumQuantity, w, S

-----------------------------------------------------------------------------
\* What merging one more order makes of the levels: it is a level behind them, where the
\* last has another price,
LevelBehind(t, levels, o) ==
    /\ Len(levels) = 0 \/ levels[Len(levels)].price # o.price
    /\ Len(t) = Len(levels) + 1 /\ t[Len(t)] = o
    /\ \A i \in 1 .. Len(levels) : t[i] = levels[i]

\* or it has that price, and the quantity is added to it.
AddsToLast(t, levels, o) ==
    /\ Len(levels) # 0 /\ levels[Len(levels)].price = o.price
    /\ Len(t) = Len(levels)
    /\ t[Len(t)].price = o.price
    /\ t[Len(t)].quantity = levels[Len(levels)].quantity + o.quantity
    /\ \A i \in 1 .. Len(levels) - 1 : t[i] = levels[i]

LEMMA OrderMerged ==
    ASSUME NEW levels \in Seq(Entries), NEW o \in Entries, NEW t, t = MergeOrder(levels, o)
    PROVE  t \in Seq(Entries) /\ (LevelBehind(t, levels, o) \/ AddsToLast(t, levels, o))
<1>1. Len(levels) \in Nat /\ \A i \in 1 .. Len(levels) : levels[i] \in Entries
    BY ElementOfSeq, LenProperties
<1>2. Last(levels) = levels[Len(levels)]
    BY DEF Last
<1>3. CASE levels = <<>> \/ levels[Len(levels)].price # o.price
  <2>1. t = Append(levels, o)
      BY <1>2, <1>3 DEF MergeOrder
  <2>2. /\ t \in Seq(Entries) /\ Len(t) = Len(levels) + 1 /\ t[Len(levels) + 1] = o
        /\ \A i \in 1 .. Len(levels) : t[i] = levels[i]
      BY <2>1, AppendProperties
  <2>3. Len(levels) = 0 \/ levels[Len(levels)].price # o.price
      BY <1>1, <1>3, EmptySeq
  <2> QED BY <2>2, <2>3 DEF LevelBehind
<1>4. CASE levels # <<>> /\ levels[Len(levels)].price = o.price
  <2>1. t = [levels EXCEPT ![Len(levels)].quantity = @ + o.quantity]
      BY <1>2, <1>4 DEF MergeOrder
  <2>2. Len(levels) \in 1 .. Len(levels) /\ Len(levels) \in Nat \ {0}
      BY <1>1, <1>4, EmptySeq
  <2> DEFINE n == Len(levels)
             level == [price |-> o.price, quantity |-> levels[n].quantity + o.quantity]
  <2>3. level \in Entries
      BY <1>1, <2>2 DEF Entries
  <2>4. levels[n] = [price |-> o.price, quantity |-> levels[n].quantity]
      BY <1>1, <1>4, <2>2 DEF Entries
  <2>5. t = [levels EXCEPT ![n] = level]
    <3>1. [levels[n] EXCEPT !.quantity = @ + o.quantity] = level
        BY <2>4
    <3> QED BY <2>1, <3>1
  <2> HIDE DEF level
  <2>6. /\ t \in Seq(Entries) /\ Len(t) = n /\ t[n] = level
        /\ \A i \in 1 .. n : i # n => t[i] = levels[i]
      BY <2>2, <2>3, <2>5, ExceptSeq
  <2>7. \A i \in 1 .. n - 1 : i \in 1 .. n /\ i # n
      BY <1>1
  <2> QED BY <1>4, <2>2, <2>6, <2>7 DEF level, AddsToLast
<1> QED BY <1>3, <1>4

\* Orders are merged one after the other.
Merges(at, s) ==
    /\ at[0] = <<>>
    /\ \A k \in 1 .. Len(s) : at[k] = MergeOrder(at[k - 1], s[k])
    /\ MergeLevels(s) = at[Len(s)]

\* The function behind the fold of MergeLevels.
FoldsOrders(iter, s) ==
    iter = [t \in SUBSET DOMAIN s |-> IF t = {} THEN <<>> ELSE MergeOrder(iter[t \ {Max(t)}], s[Max(t)])]

\* MergeLevels merges one order after the other.
LEMMA MergesInTurn ==
    ASSUME NEW s \in Seq(Entries)
    PROVE  \E at : Merges(at, s)
<1>1. Len(s) \in Nat /\ DOMAIN s = 1 .. Len(s) /\ \A i \in 1 .. Len(s) : s[i] \in Entries
    BY ElementOfSeq, LenProperties
<1> DEFINE n == Len(s)
           V == Seq(Entries)
           step == [x \in (1 .. n) \X V |-> MergeOrder(x[2], s[x[1]])]
<1>2. <<>> \in V
    OBVIOUS
<1>3. ASSUME NEW i \in 1 .. n, NEW v \in V
      PROVE  step[<<i, v>>] = MergeOrder(v, s[i]) /\ step[<<i, v>>] \in V
  <2>1. step[<<i, v>>] = MergeOrder(v, s[i])
      OBVIOUS
  <2>2. s[i] \in Entries
      BY <1>1
  <2> HIDE DEF step
  <2> QED BY <2>1, <2>2, OrderMerged
<1> HIDE DEF step, V
<1>4. PICK iter : Folded(iter, n, V, <<>>, step)
  <2>1. Foldable(n, V, <<>>, step)
      BY <1>2, <1>3 DEF Foldable
  <2> QED BY <1>1, <2>1, FoldExists
<1>5. ASSUME NEW t \in SUBSET (1 .. n)
      PROVE  iter[t] = IF t = {} THEN <<>> ELSE MergeOrder(iter[t \ {Max(t)}], s[Max(t)])
  <2>1. CASE t = {}
      BY <1>4, <2>1 DEF Folded
  <2>2. CASE t # {}
    <3>1. Max(t) \in 1 .. n
        BY <1>1, <2>2, MaxIsGreatest
    <3>2. iter[t \ {Max(t)}] \in V
        BY <1>4 DEF Folded
    <3>3. iter[t] = step[<<Max(t), iter[t \ {Max(t)}]>>]
        BY <1>4, <2>2 DEF Folded
    <3> QED BY <1>3, <2>2, <3>1, <3>2, <3>3
  <2> QED BY <2>1, <2>2
<1>6. FoldsOrders(iter, s)
  <2>1. iter = [t \in SUBSET DOMAIN s |-> iter[t]]
      BY <1>1, <1>4 DEF Folded
  <2>2. \A t \in SUBSET DOMAIN s :
           iter[t] = IF t = {} THEN <<>> ELSE MergeOrder(iter[t \ {Max(t)}], s[Max(t)])
      BY <1>1, <1>5
  <2> QED BY <2>1, <2>2, Zenon DEF FoldsOrders
<1> DEFINE fold == CHOOSE f : FoldsOrders(f, s)
<1>7. FoldsOrders(fold, s)
    BY <1>6
<1>8. MergeLevels(s) = fold[DOMAIN s]
    BY DEF MergeLevels, FoldLeft, MapThenFoldSet, FoldsOrders
<1> HIDE DEF fold
<1>9. \A t \in SUBSET (1 .. n) :
          fold[t] = IF t = {} THEN <<>> ELSE MergeOrder(fold[t \ {Max(t)}], s[Max(t)])
    BY <1>1, <1>7, Zenon DEF FoldsOrders
<1> DEFINE at == [k \in 0 .. n |-> fold[1 .. k]]
<1>10. at[0] = <<>>
  <2>1. at[0] = fold[1 .. 0] /\ 1 .. 0 = {}
      BY <1>1
  <2> QED BY <1>9, <2>1
<1>11. ASSUME NEW k \in 1 .. n PROVE at[k] = MergeOrder(at[k - 1], s[k])
  <2>1. Max(1 .. k) = k /\ (1 .. k) \ {Max(1 .. k)} = 1 .. (k - 1) /\ 1 .. k # {}
      BY <1>1, MaxOfUpTo
  <2>2. 1 .. k \in SUBSET (1 .. n) /\ k \in 0 .. n /\ k - 1 \in 0 .. n
      BY <1>1
  <2>3. at[k] = fold[1 .. k] /\ at[k - 1] = fold[1 .. (k - 1)]
      BY <2>2
  <2>4. fold[1 .. k] = MergeOrder(fold[(1 .. k) \ {Max(1 .. k)}], s[Max(1 .. k)])
      BY <1>9, <2>1, <2>2
  <2> QED BY <2>1, <2>3, <2>4
<1>12. at[n] = fold[DOMAIN s]
    BY <1>1
<1> QED BY <1>8, <1>10, <1>11, <1>12 DEF Merges

\* The levels of the first k orders: strictly best first, with the prices of those orders
\* and the quantity at each.
Merged(perm, k) == {perm[m] : m \in 1 .. k}
LevelsOf(t, k, side, s, perm, total) ==
    /\ t \in Seq(Entries) /\ Len(t) \in Nat
    /\ IF k = 0 THEN Len(t) = 0 ELSE Len(t) > 0 /\ t[Len(t)].price = s[k].price
    /\ \A i, j \in 1 .. Len(t) : i < j => Better(side, t[i], t[j])
    /\ \A i \in 1 .. Len(t) : \E m \in 1 .. k : t[i].price = s[m].price
    /\ \A m \in 1 .. k : \E i \in 1 .. Len(t) : t[i].price = s[m].price
    /\ \A i \in 1 .. Len(t) : t[i].quantity = total[t[i].price][Merged(perm, k)]
    /\ \A p \in Int : (\A i \in 1 .. Len(t) : t[i].price # p) => total[p][Merged(perm, k)] = 0

\* The sums at each price, over orders that perm tells one from the other.
TotalsOfOrders(total, orders) ==
    \A p \in Int : Totals(total[p], DOMAIN orders, Offered(orders, p))

\* One more order merged adds its quantity to the total at its price.
LEMMA NextMerged ==
    ASSUME NEW side, NEW orders \in Seq(Entries), NEW s, NEW perm, Sorts(perm, side, orders, s),
           NEW total, TotalsOfOrders(total, orders), NEW k \in 1 .. Len(orders), NEW p \in Int
    PROVE  /\ total[p][Merged(perm, k)] \in Int /\ total[p][Merged(perm, k - 1)] \in Int
           /\ total[p][Merged(perm, k)]
                = IF s[k].price = p THEN s[k].quantity + total[p][Merged(perm, k - 1)]
                  ELSE total[p][Merged(perm, k - 1)]
<1>1. Len(orders) \in Nat /\ DOMAIN orders = 1 .. Len(orders)
    BY LenProperties
<1>2. /\ Merged(perm, k) \in SUBSET DOMAIN orders /\ Merged(perm, k - 1) \in SUBSET DOMAIN orders
      /\ perm[k] \in Merged(perm, k) /\ perm[k] \in DOMAIN orders
      /\ \A m \in 1 .. k - 1 : m \in 1 .. k /\ perm[m] # perm[k]
      /\ \A m \in 1 .. k : m = k \/ m \in 1 .. k - 1
  <2>5. \A m \in 1 .. k : m \in 1 .. Len(orders)
      BY <1>1
  <2>1. \A m \in 1 .. k : m \in 1 .. Len(orders) /\ perm[m] \in 1 .. Len(orders)
      BY <2>5 DEF Sorts
  <2>2. \A m \in 1 .. k - 1 : m \in 1 .. k /\ m < k
      BY <1>1
  <2>3. k \in 1 .. k /\ \A m \in 1 .. k : m = k \/ m \in 1 .. k - 1
      BY <1>1
  <2>4. \A m \in 1 .. k - 1 : perm[m] # perm[k]
      BY <2>1, <2>2 DEF Sorts
  <2> QED BY <1>1, <2>1, <2>2, <2>3, <2>4 DEF Merged
<1>3. Merged(perm, k) \ {perm[k]} = Merged(perm, k - 1)
    BY <1>2 DEF Merged
<1>4. total[p] \in [SUBSET DOMAIN orders -> Int]
    BY DEF TotalsOfOrders, Totals
<1>5. total[p][Merged(perm, k)] = Offered(orders, p)[perm[k]] + total[p][Merged(perm, k - 1)]
    BY <1>2, <1>3 DEF TotalsOfOrders, Totals
<1>6. Offered(orders, p)[perm[k]] = IF s[k].price = p THEN s[k].quantity ELSE 0
    BY <1>2 DEF Offered, Sorts
<1>7. s[k].quantity \in Int
  <2>1. s[k] \in Entries
      BY <1>1, ElementOfSeq DEF Sorts
  <2> QED BY <2>1 DEF Entries
<1>8. total[p][Merged(perm, k)] \in Int /\ total[p][Merged(perm, k - 1)] \in Int
    BY <1>2, <1>4
<1> QED BY <1>5, <1>6, <1>7, <1>8

\* Merging the next order keeps what is said of the levels.
LEMMA LevelsMerged ==
    ASSUME NEW side, NEW orders \in Seq(Entries), NEW s, NEW perm, Sorts(perm, side, orders, s),
           NEW total, TotalsOfOrders(total, orders), NEW k \in 1 .. Len(orders),
           NEW u, LevelsOf(u, k - 1, side, s, perm, total), NEW t, t = MergeOrder(u, s[k])
    PROVE  LevelsOf(t, k, side, s, perm, total)
<1> DEFINE o == s[k]
<1>1. Len(orders) \in Nat /\ Len(s) = Len(orders) /\ \A m \in 1 .. Len(orders) : s[m] \in Entries
    BY ElementOfSeq, LenProperties DEF Sorts
<1>2. o \in Entries /\ o.price \in Int /\ o.quantity \in Int
    BY <1>1 DEF Entries
<1>3. /\ u \in Seq(Entries) /\ Len(u) \in Nat
      /\ \A i \in 1 .. Len(u) : u[i].price \in Int /\ u[i].quantity \in Int
  <2>1. u \in Seq(Entries) /\ Len(u) \in Nat /\ \A i \in 1 .. Len(u) : u[i] \in Entries
      BY ElementOfSeq DEF LevelsOf
  <2> QED BY <2>1 DEF Entries
<1>4. \A p \in Int : total[p][Merged(perm, k)]
                       = IF o.price = p THEN o.quantity + total[p][Merged(perm, k - 1)]
                         ELSE total[p][Merged(perm, k - 1)]
    BY NextMerged
<1>5. t \in Seq(Entries)
    BY <1>2, <1>3, OrderMerged
<1>6. Len(t) \in Nat
    BY <1>5, LenProperties
\* The levels so far are at least as good as the order.
<1>7. \A i \in 1 .. Len(u) : u[i].price = o.price => i = Len(u)
  <2> SUFFICES ASSUME NEW i \in 1 .. Len(u), u[i].price = o.price, i # Len(u) PROVE FALSE
      OBVIOUS
  <2>1. k # 1 /\ k - 1 \in 1 .. Len(orders) /\ k - 1 < k /\ u[Len(u)].price = s[k - 1].price
      BY <1>1, <1>3 DEF LevelsOf
  <2>2. ~Better(side, s[k], s[k - 1])
      BY <2>1 DEF Sorts
  <2>3. Len(u) \in 1 .. Len(u) /\ i < Len(u)
      BY <1>3
  <2>4. Better(side, u[i], u[Len(u)])
      BY <2>3 DEF LevelsOf
  <2>5. s[k - 1].price \in Int
      BY <1>1, <2>1 DEF Entries
  <2> QED BY <1>2, <1>3, <2>1, <2>2, <2>3, <2>4, <2>5 DEF Better
<1>8. ASSUME u[Len(u)].price # o.price \/ Len(u) = 0, NEW i \in 1 .. Len(u)
      PROVE  Better(side, u[i], o)
  <2>1. k # 1 /\ k - 1 \in 1 .. Len(orders) /\ k - 1 < k /\ u[Len(u)].price = s[k - 1].price
      BY <1>1, <1>3 DEF LevelsOf
  <2>2. ~Better(side, s[k], s[k - 1])
      BY <2>1 DEF Sorts
  <2>3. Len(u) \in 1 .. Len(u)
      BY <1>3
  <2>4. s[k - 1].price \in Int
      BY <1>1, <2>1 DEF Entries
  <2>5. Better(side, u[Len(u)], o)
      BY <1>2, <1>3, <1>8, <2>1, <2>2, <2>3, <2>4 DEF Better
  <2>6. CASE i = Len(u)
      BY <2>5, <2>6
  <2>7. CASE i < Len(u)
    <3>1. Better(side, u[i], u[Len(u)])
        BY <2>3, <2>7 DEF LevelsOf
    <3> QED BY <1>2, <1>3, <2>3, <2>5, <3>1 DEF Better
  <2> QED BY <1>3, <2>6, <2>7
<1>9. \A m \in 1 .. k : m = k \/ m \in 1 .. k - 1
    BY <1>1
<1>10. ASSUME LevelBehind(t, u, o)
       PROVE  LevelsOf(t, k, side, s, perm, total)
  <2> USE <1>10 DEF LevelBehind
  <2>1. \A i \in 1 .. Len(t) : i = Len(t) \/ (i \in 1 .. Len(u) /\ t[i] = u[i] /\ i # Len(t))
      BY <1>3, <1>6, <1>10
  <2>2. \A i \in 1 .. Len(u) : i \in 1 .. Len(t) /\ t[i] = u[i]
      BY <1>3, <1>6, <1>10
  <2>3. Len(t) \in 1 .. Len(t) /\ Len(t) > 0
      BY <1>3, <1>6, <1>10
  <2>4. \A i, j \in 1 .. Len(t) : i < j => Better(side, t[i], t[j])
    <3> SUFFICES ASSUME NEW i \in 1 .. Len(t), NEW j \in 1 .. Len(t), i < j PROVE Better(side, t[i], t[j])
        OBVIOUS
    <3>1. i \in 1 .. Len(u) /\ t[i] = u[i]
        BY <1>6, <2>1
    <3>2. CASE j = Len(t)
        BY <1>8, <1>10, <3>1, <3>2
    <3>3. CASE j \in 1 .. Len(u) /\ t[j] = u[j]
        BY <3>1, <3>3 DEF LevelsOf
    <3> QED BY <2>1, <3>2, <3>3
  <2>5. \A i \in 1 .. Len(u) : u[i].price # o.price
    <3> SUFFICES ASSUME NEW i \in 1 .. Len(u), u[i].price = o.price PROVE FALSE
        OBVIOUS
    <3>1. i = Len(u) /\ Len(u) # 0
        BY <1>3, <1>7
    <3> QED BY <1>10, <3>1
  <2>6. \A i \in 1 .. Len(t) : \E m \in 1 .. k : t[i].price = s[m].price
    <3> SUFFICES ASSUME NEW i \in 1 .. Len(t) PROVE \E m \in 1 .. k : t[i].price = s[m].price
        OBVIOUS
    <3>1. CASE i = Len(t)
      <4>1. k \in 1 .. k
          BY <1>1
      <4> QED BY <1>10, <3>1, <4>1
    <3>2. CASE i \in 1 .. Len(u) /\ t[i] = u[i]
      <4>1. PICK m \in 1 .. k - 1 : u[i].price = s[m].price
          BY <3>2 DEF LevelsOf
      <4>2. m \in 1 .. k
          BY <1>1
      <4> QED BY <3>2, <4>1, <4>2
    <3> QED BY <2>1, <3>1, <3>2
  <2>7. \A m \in 1 .. k : \E i \in 1 .. Len(t) : t[i].price = s[m].price
    <3> SUFFICES ASSUME NEW m \in 1 .. k PROVE \E i \in 1 .. Len(t) : t[i].price = s[m].price
        OBVIOUS
    <3>1. CASE m = k
        BY <1>10, <2>3, <3>1
    <3>2. CASE m \in 1 .. k - 1
      <4>1. PICK i \in 1 .. Len(u) : u[i].price = s[m].price
          BY <3>2 DEF LevelsOf
      <4> QED BY <2>2, <4>1
    <3> QED BY <1>9, <3>1, <3>2
  <2>8. \A i \in 1 .. Len(t) : t[i].quantity = total[t[i].price][Merged(perm, k)]
    <3> SUFFICES ASSUME NEW i \in 1 .. Len(t) PROVE t[i].quantity = total[t[i].price][Merged(perm, k)]
        OBVIOUS
    <3>1. CASE i = Len(t)
      <4>1. total[o.price][Merged(perm, k - 1)] = 0
          BY <1>2, <2>5 DEF LevelsOf
      <4>2. total[o.price][Merged(perm, k)] = o.quantity
          BY <1>2, <1>4, <4>1
      <4> QED BY <1>10, <3>1, <4>2
    <3>2. CASE i \in 1 .. Len(u) /\ t[i] = u[i]
      <4>1. u[i].quantity = total[u[i].price][Merged(perm, k - 1)]
          BY <3>2 DEF LevelsOf
      <4>2. total[u[i].price][Merged(perm, k)] = total[u[i].price][Merged(perm, k - 1)]
          BY <1>3, <1>4, <2>5, <3>2
      <4> QED BY <3>2, <4>1, <4>2
    <3> QED BY <2>1, <3>1, <3>2
  <2>9. ASSUME NEW p \in Int, \A i \in 1 .. Len(t) : t[i].price # p
        PROVE  total[p][Merged(perm, k)] = 0
    <3>1. \A i \in 1 .. Len(u) : u[i].price # p
        BY <2>2, <2>9
    <3>2. o.price # p
        BY <1>10, <2>3, <2>9
    <3>3. total[p][Merged(perm, k - 1)] = 0
        BY <3>1 DEF LevelsOf
    <3> QED BY <1>4, <3>2, <3>3
  <2>10. k # 0
      BY <1>1
  <2> QED BY <1>5, <1>6, <1>10, <2>3, <2>4, <2>6, <2>7, <2>8, <2>9, <2>10 DEF LevelsOf
<1>11. ASSUME AddsToLast(t, u, o)
       PROVE  LevelsOf(t, k, side, s, perm, total)
  <2> USE <1>11 DEF AddsToLast
  <2>1. ASSUME NEW i \in 1 .. Len(t)
        PROVE  i = Len(t) \/ (i \in 1 .. Len(u) /\ t[i] = u[i] /\ i # Len(u))
    <3>1. i \in 1 .. Len(u)
        BY <1>11
    <3>2. i = Len(u) \/ i \in 1 .. Len(u) - 1
        BY <1>3, <3>1
    <3> QED BY <1>11, <3>1, <3>2
  <2>2. \A i \in 1 .. Len(t) : i \in 1 .. Len(u) /\ t[i].price = u[i].price
      BY <1>11, <2>1
  <2>3. Len(t) \in 1 .. Len(t) /\ Len(t) > 0
      BY <1>3, <1>11
  <2>4. \A i, j \in 1 .. Len(t) : i < j => Better(side, t[i], t[j])
      BY <1>11, <2>2 DEF LevelsOf, Better
  <2>5. k \in 1 .. k /\ \A m \in 1 .. k - 1 : m \in 1 .. k
      BY <1>1
  <2>6. \A i \in 1 .. Len(t) : \E m \in 1 .. k : t[i].price = s[m].price
      BY <2>2, <2>5 DEF LevelsOf
  <2>7. \A m \in 1 .. k : \E i \in 1 .. Len(t) : t[i].price = s[m].price
    <3> SUFFICES ASSUME NEW m \in 1 .. k PROVE \E i \in 1 .. Len(t) : t[i].price = s[m].price
        OBVIOUS
    <3>1. CASE m = k
        BY <1>11, <2>3, <3>1
    <3>2. CASE m \in 1 .. k - 1
      <4>1. PICK i \in 1 .. Len(u) : u[i].price = s[m].price
          BY <3>2 DEF LevelsOf
      <4> QED BY <1>11, <2>2, <4>1
    <3> QED BY <1>9, <3>1, <3>2
  <2>8. \A i \in 1 .. Len(t) : t[i].quantity = total[t[i].price][Merged(perm, k)]
    <3> SUFFICES ASSUME NEW i \in 1 .. Len(t) PROVE t[i].quantity = total[t[i].price][Merged(perm, k)]
        OBVIOUS
    <3>3. u[i].quantity = total[u[i].price][Merged(perm, k - 1)] /\ u[i].quantity \in Int /\ u[i].price \in Int
        BY <1>3, <2>2 DEF LevelsOf
    <3>1. CASE i = Len(t)
      <4>1. total[o.price][Merged(perm, k)] = o.quantity + total[o.price][Merged(perm, k - 1)]
          BY <1>2, <1>4
      <4>2. t[i].price = o.price /\ u[i].price = o.price /\ t[i].quantity = u[i].quantity + o.quantity
          BY <1>11, <3>1
      <4> QED BY <1>2, <3>3, <4>1, <4>2
    <3>2. CASE i \in 1 .. Len(u) /\ t[i] = u[i] /\ i # Len(u)
      <4>1. u[i].price # o.price
          BY <1>7, <3>2
      <4>2. total[u[i].price][Merged(perm, k)] = total[u[i].price][Merged(perm, k - 1)]
          BY <1>4, <3>3, <4>1
      <4> QED BY <3>2, <3>3, <4>2
    <3> QED BY <2>1, <3>1, <3>2
  <2>9. ASSUME NEW p \in Int, \A i \in 1 .. Len(t) : t[i].price # p
        PROVE  total[p][Merged(perm, k)] = 0
    <3>1. \A i \in 1 .. Len(u) : u[i].price # p
        BY <1>11, <2>2, <2>9
    <3>2. o.price # p
        BY <1>11, <2>3, <2>9
    <3>3. total[p][Merged(perm, k - 1)] = 0
        BY <3>1 DEF LevelsOf
    <3> QED BY <1>4, <3>2, <3>3
  <2>10. k # 0
      BY <1>1
  <2> QED BY <1>5, <1>6, <1>11, <2>3, <2>4, <2>6, <2>7, <2>8, <2>9, <2>10 DEF LevelsOf
<1> QED BY <1>2, <1>3, <1>10, <1>11, OrderMerged

\* The levels of a side go strictly from the best price on, and have the prices of the orders
\* and the quantity at each.
IsLadder(side, levels, orders) ==
    /\ \A i, j \in DOMAIN levels : i < j => Better(side, levels[i], levels[j])
    /\ {levels[i].price : i \in DOMAIN levels} = {orders[i].price : i \in DOMAIN orders}
    /\ \A i \in DOMAIN levels : levels[i].quantity = SumQuantity(orders, levels[i].price)

\* Orders sorted and merged are a ladder of what they offer.
LEMMA OrdersMakeLadder ==
    ASSUME NEW side, NEW orders \in Seq(Entries), NEW levels, levels = MergeLevels(SortOrders(side, orders))
    PROVE  IsLadder(side, levels, orders)
<1> DEFINE n == Len(orders)
<1>1. PICK s : s = SortOrders(side, orders)
    OBVIOUS
<1>2. PICK perm : Sorts(perm, side, orders, s)
    BY <1>1, OrdersSorted
<1>3. PICK total : total = [p \in Int |-> SumsOf(Offered(orders, p))]
    OBVIOUS
<1>4. TotalsOfOrders(total, orders) /\ \A p \in Int : SumQuantity(orders, p) = total[p][DOMAIN orders]
    BY <1>3, QuantitiesSummed DEF TotalsOfOrders
<1>5. n \in Nat /\ DOMAIN orders = 1 .. n /\ s \in Seq(Entries) /\ Len(s) = n
    BY <1>2, LenProperties DEF Sorts
<1>6. PICK at : Merges(at, s)
    BY <1>5, MergesInTurn
<1> DEFINE Good == {k \in Nat : k =< n => LevelsOf(at[k], k, side, s, perm, total)}
<1>7. 0 \in Good
  <2>1. at[0] = <<>> /\ Len(<<>>) = 0 /\ <<>> \in Seq(Entries) /\ 1 .. 0 = {}
      BY <1>6, EmptySeq DEF Merges
  <2>2. Merged(perm, 0) = {}
      BY <2>1 DEF Merged
  <2>3. \A p \in Int : total[p][{}] = 0
      BY <1>4 DEF TotalsOfOrders, Totals
  <2>4. LevelsOf(at[0], 0, side, s, perm, total)
      BY <2>1, <2>2, <2>3 DEF LevelsOf
  <2> QED BY <2>4
<1>8. ASSUME NEW k \in Nat, k \in Good PROVE k + 1 \in Good
  <2> SUFFICES ASSUME k + 1 =< n PROVE LevelsOf(at[k + 1], k + 1, side, s, perm, total)
      OBVIOUS
  <2>1. k + 1 \in 1 .. n /\ (k + 1) - 1 = k /\ k =< n
      BY <1>5
  <2>2. at[k + 1] = MergeOrder(at[k], s[k + 1])
      BY <1>5, <1>6, <2>1 DEF Merges
  <2>3. LevelsOf(at[k], k, side, s, perm, total)
      BY <1>8, <2>1
  <2> HIDE DEF Good
  <2> QED BY <1>2, <1>4, <2>1, <2>2, <2>3, LevelsMerged
<1> HIDE DEF Good
<1>9. \A k \in Nat : k \in Good
    BY <1>7, <1>8, Induction
<1>10. LevelsOf(levels, n, side, s, perm, total)
  <2>1. levels = at[n]
      BY <1>1, <1>5, <1>6 DEF Merges
  <2>2. n \in Good
      BY <1>5, <1>9
  <2> QED BY <1>5, <2>1, <2>2 DEF Good
<1>11. Merged(perm, n) = DOMAIN orders
  <2>1. \A m \in 1 .. n : perm[m] \in 1 .. n
      BY <1>2 DEF Sorts
  <2>2. \A i \in 1 .. n : \E m \in 1 .. n : perm[m] = i
      BY <1>2 DEF Sorts
  <2> QED BY <1>5, <2>1, <2>2 DEF Merged
<1>12. DOMAIN levels = 1 .. Len(levels) /\ \A i \in DOMAIN levels : levels[i].price \in Int
  <2>1. levels \in Seq(Entries)
      BY <1>10 DEF LevelsOf
  <2>2. DOMAIN levels = 1 .. Len(levels) /\ \A i \in DOMAIN levels : levels[i] \in Entries
      BY <2>1, ElementOfSeq, LenProperties
  <2> QED BY <2>2 DEF Entries
<1>13. \A i \in DOMAIN levels : levels[i].quantity = SumQuantity(orders, levels[i].price)
  <2> SUFFICES ASSUME NEW i \in DOMAIN levels PROVE levels[i].quantity = SumQuantity(orders, levels[i].price)
      OBVIOUS
  <2>1. levels[i].quantity = total[levels[i].price][DOMAIN orders]
      BY <1>10, <1>11, <1>12 DEF LevelsOf
  <2> QED BY <1>4, <1>12, <2>1
<1>14. \A m \in 1 .. n : \E i \in 1 .. n : s[m] = orders[i]
    BY <1>2 DEF Sorts
<1>15. \A i \in 1 .. n : \E m \in 1 .. n : s[m] = orders[i]
    BY <1>2 DEF Sorts
<1>16. ASSUME NEW i \in DOMAIN levels PROVE \E j \in DOMAIN orders : levels[i].price = orders[j].price
  <2>1. PICK m \in 1 .. n : levels[i].price = s[m].price
      BY <1>10, <1>12 DEF LevelsOf
  <2> QED BY <1>5, <1>14, <2>1
<1>17. ASSUME NEW j \in DOMAIN orders PROVE \E i \in DOMAIN levels : levels[i].price = orders[j].price
  <2>1. PICK m \in 1 .. n : s[m] = orders[j]
      BY <1>5, <1>15
  <2>2. PICK i \in 1 .. Len(levels) : levels[i].price = s[m].price
      BY <1>10 DEF LevelsOf
  <2> QED BY <1>12, <2>1, <2>2
<1>18. {levels[i].price : i \in DOMAIN levels} = {orders[i].price : i \in DOMAIN orders}
    BY <1>16, <1>17
<1>19. \A i, j \in DOMAIN levels : i < j => Better(side, levels[i], levels[j])
    BY <1>10, <1>12 DEF LevelsOf
<1> QED BY <1>13, <1>18, <1>19 DEF IsLadder

-----------------------------------------------------------------------------
\* What the leaves below each node of a slab are.
Leaves(slab) == {slab.nodes[n] : n \in {m \in DOMAIN slab.nodes : slab.nodes[m].tag = "leaf"}}

BelowOf(below, slab, n) ==
    CASE slab.nodes[n].tag = "inner" -> below[slab.nodes[n].children[1]] \o below[slab.nodes[n].children[2]]
      [] slab.nodes[n].tag = "leaf" -> <<slab.nodes[n]>>
      [] OTHER -> <<>>
ComputesBelow(below, slab) == below = [n \in DOMAIN slab.nodes |-> BelowOf(below, slab, n)]

LEMMA BelowOfOrders ==
    ASSUME NEW slab, NEW n \in DOMAIN slab.nodes, NEW below,
           slab.nodes[n].tag = "inner" => \A i \in 1 .. 2 : below[slab.nodes[n].children[i]] \in Seq(Leaves(slab))
    PROVE  BelowOf(below, slab, n) \in Seq(Leaves(slab))
<1>1. CASE slab.nodes[n].tag = "inner"
  <2>1. /\ below[slab.nodes[n].children[1]] \in Seq(Leaves(slab))
        /\ below[slab.nodes[n].children[2]] \in Seq(Leaves(slab))
      BY <1>1
  <2>2. below[slab.nodes[n].children[1]] \o below[slab.nodes[n].children[2]] \in Seq(Leaves(slab))
      BY <2>1, ConcatProperties
  <2> QED BY <1>1, <2>2 DEF BelowOf
<1>2. CASE slab.nodes[n].tag = "leaf"
  <2>1. slab.nodes[n] \in Leaves(slab)
      BY <1>2 DEF Leaves
  <2>2. BelowOf(below, slab, n) = <<slab.nodes[n]>>
      BY <1>2 DEF BelowOf
  <2> QED BY <2>1, <2>2
<1>3. CASE slab.nodes[n].tag \notin {"inner", "leaf"}
  <2>1. BelowOf(below, slab, n) = <<>>
      BY <1>3 DEF BelowOf
  <2> QED BY <2>1
<1> QED BY <1>1, <1>2, <1>3

\* The recursion of get_leaf_nodes ends in a well-formed slab: by the height of the nodes.
LEMMA BelowExists ==
    ASSUME NEW slab, WellFormed(slab)
    PROVE  \E below \in [DOMAIN slab.nodes -> Seq(Leaves(slab))] : ComputesBelow(below, slab)
<1> DEFINE D == DOMAIN slab.nodes
           S == Seq(Leaves(slab))
           V == [D -> S]
           Child(n, i) == slab.nodes[n].children[i]
           Inner(n) == slab.nodes[n].tag = "inner"
           Does(below, n) == BelowOf(below, slab, n)
           base == [n \in D |-> <<>>]
           step == [x \in Nat \X V |-> [n \in D |-> Does(x[2], n)]]
<1>1. PICK height \in [D -> 0 .. Cardinality(D)] :
         \A n \in D : Inner(n) => \A i \in 1 .. 2 : Child(n, i) \in D /\ height[Child(n, i)] < height[n]
    BY DEF WellFormed
<1>2. /\ \A n \in D : height[n] \in Nat
      /\ \A n \in D : Inner(n) => /\ Child(n, 1) \in D /\ height[Child(n, 1)] < height[n]
                                  /\ Child(n, 2) \in D /\ height[Child(n, 2)] < height[n]
    BY <1>1
<1>3. ASSUME NEW n \in D, NEW f, Inner(n) => f[Child(n, 1)] \in S /\ f[Child(n, 2)] \in S
      PROVE  Does(f, n) \in S
    BY <1>3, BelowOfOrders
<1>4. ASSUME NEW n \in D, NEW f, NEW g,
             Inner(n) => f[Child(n, 1)] = g[Child(n, 1)] /\ f[Child(n, 2)] = g[Child(n, 2)]
      PROVE  Does(f, n) = Does(g, n)
    BY <1>4 DEF BelowOf
<1>5. base \in V
    OBVIOUS
<1>6. ASSUME NEW k \in Nat, NEW v \in V
      PROVE  step[<<k, v>>] = [n \in D |-> Does(v, n)] /\ step[<<k, v>>] \in V
  <2>1. step[<<k, v>>] = [n \in D |-> Does(v, n)]
      OBVIOUS
  <2>2. \A n \in D : Does(v, n) \in S
    <3> HIDE DEF Does, D, S, Child, Inner
    <3> QED BY <1>2, <1>3
  <2> HIDE DEF Does, D, S, step
  <2> QED BY <2>1, <2>2
<1> HIDE DEF step, base
<1>7. Steps(Nat, V, base, step)
  <2>1. \A k \in Nat, v \in V : k # 0 => step[<<k, v>>] \in V
      BY <1>6
  <2> HIDE DEF V
  <2>2. Nat \subseteq Nat /\ \A k \in Nat : k # 0 => k - 1 \in Nat
      OBVIOUS
  <2> QED BY <1>5, <2>1, <2>2 DEF Steps
<1>8. PICK g : Iterates(g, Nat, V, base, step)
    BY <1>7, IterationExists
<1> HIDE DEF Does, S, D, Child, Inner
<1>9. \A k \in Nat : g[k] \in V
    BY <1>8 DEF Iterates
<1>10. ASSUME NEW k \in Nat, NEW n \in D PROVE g[k + 1][n] = Does(g[k], n)
  <2>1. k + 1 \in Nat /\ k + 1 # 0 /\ (k + 1) - 1 = k
      OBVIOUS
  <2>2. g[k + 1] = step[<<k + 1, g[k]>>]
      BY <1>8, <2>1 DEF Iterates
  <2>3. step[<<k + 1, g[k]>>] = [m \in D |-> Does(g[k], m)]
      BY <1>6, <1>9, <2>1
  <2> QED BY <2>2, <2>3
\* From its height on, what is computed for a node stays.
<1> DEFINE Good == {m \in Nat : \A n \in D, k \in Nat : height[n] < m /\ m =< k => g[k][n] = g[m][n]}
<1>11. 0 \in Good
    BY <1>2
<1>12. ASSUME NEW m \in Nat, m \in Good PROVE m + 1 \in Good
  <2> SUFFICES ASSUME NEW n \in D, NEW k \in Nat, height[n] < m + 1, m + 1 =< k
               PROVE  g[k][n] = g[m + 1][n]
      OBVIOUS
  <2>1. k - 1 \in Nat /\ (k - 1) + 1 = k /\ m =< k - 1
      OBVIOUS
  <2>2. g[k][n] = Does(g[k - 1], n) /\ g[m + 1][n] = Does(g[m], n)
      BY <1>10, <2>1
  <2>3. ASSUME Inner(n), NEW c \in D, height[c] < height[n] PROVE g[k - 1][c] = g[m][c]
    <3>1. height[c] < m
        BY <1>2, <2>3
    <3> QED BY <1>12, <2>1, <3>1
  <2>4. Inner(n) => /\ g[k - 1][Child(n, 1)] = g[m][Child(n, 1)]
                    /\ g[k - 1][Child(n, 2)] = g[m][Child(n, 2)]
    <3> HIDE DEF Good
    <3> QED BY <1>2, <2>3
  <2>5. Does(g[k - 1], n) = Does(g[m], n)
      BY <1>4, <2>4
  <2> QED BY <2>2, <2>5
<1> HIDE DEF Good
<1>13. \A m \in Nat : m \in Good
    BY <1>11, <1>12, Induction
<1> DEFINE below == [n \in D |-> g[height[n] + 1][n]]
<1>14. \A n \in D : below[n] = g[height[n] + 1][n]
    OBVIOUS
<1>15. \A n \in D : below[n] \in S
  <2> SUFFICES ASSUME NEW n \in D PROVE below[n] \in S
      OBVIOUS
  <2>1. g[height[n] + 1] \in V
      BY <1>2, <1>9
  <2> QED BY <2>1
<1>16. ASSUME NEW n \in D PROVE below[n] = Does(below, n)
  <2>1. below[n] = Does(g[height[n]], n)
      BY <1>2, <1>10
  <2>2. ASSUME NEW c \in D, height[c] < height[n] PROVE g[height[n]][c] = below[c]
    <3>1. height[c] + 1 \in Nat /\ height[n] \in Nat /\ height[c] < height[c] + 1 /\ height[c] + 1 =< height[n]
        BY <1>2, <2>2
    <3>2. height[c] + 1 \in Good
        BY <1>13, <3>1
    <3>3. g[height[n]][c] = g[height[c] + 1][c]
        BY <3>1, <3>2 DEF Good
    <3> QED BY <3>3
  <2> HIDE DEF below
  <2>3. Inner(n) => /\ g[height[n]][Child(n, 1)] = below[Child(n, 1)]
                    /\ g[height[n]][Child(n, 2)] = below[Child(n, 2)]
      BY <1>2, <2>2
  <2>4. Does(g[height[n]], n) = Does(below, n)
      BY <1>4, <2>3
  <2> QED BY <2>1, <2>4
<1>17. below = [n \in D |-> below[n]]
    BY <1>14
<1> HIDE DEF below
<1>18. below \in [D -> S] /\ below = [n \in D |-> Does(below, n)]
    BY <1>15, <1>16, <1>17
<1> QED BY <1>18 DEF ComputesBelow, D, S, Does

\* get_leaf_nodes gives leaves of the slab.
LEMMA LeavesAreOrders ==
    ASSUME NEW slab, WellFormed(slab)
    PROVE  LeafNodes(slab) \in Seq(Leaves(slab))
<1>1. PICK known \in [DOMAIN slab.nodes -> Seq(Leaves(slab))] : ComputesBelow(known, slab)
    BY BelowExists
<1> DEFINE below == CHOOSE f : ComputesBelow(f, slab)
<1>2. ComputesBelow(below, slab)
    BY <1>1
<1>3. LeafNodes(slab) = below[slab.rootNode]
    BY DEF LeafNodes, ComputesBelow, BelowOf
<1> DEFINE D == DOMAIN slab.nodes
           S == Seq(Leaves(slab))
<1>4. PICK height \in [D -> 0 .. Cardinality(D)] :
         \A n \in D : slab.nodes[n].tag = "inner" =>
            \A i \in 1 .. 2 : /\ slab.nodes[n].children[i] \in D
                             /\ height[slab.nodes[n].children[i]] < height[n]
    BY DEF WellFormed
<1>5. \A n \in D : height[n] \in Nat
    BY <1>4
<1>6. \A n \in D : below[n] = BelowOf(below, slab, n)
    BY <1>2 DEF ComputesBelow
<1> HIDE DEF below, S
<1> DEFINE Good == {m \in Nat : \A n \in D : height[n] < m => below[n] \in S}
<1>7. 0 \in Good
    BY <1>5
<1>8. ASSUME NEW m \in Nat, m \in Good PROVE m + 1 \in Good
  <2> SUFFICES ASSUME NEW n \in D, height[n] < m + 1 PROVE below[n] \in S
      OBVIOUS
  <2>1. ASSUME NEW c \in D, height[c] < height[n] PROVE below[c] \in S
    <3>1. height[c] < m
        BY <1>5, <2>1
    <3> QED BY <1>8, <3>1
  <2> HIDE DEF Good
  <2>2. slab.nodes[n].tag = "inner" => \A i \in 1 .. 2 : below[slab.nodes[n].children[i]] \in S
      BY <1>4, <2>1
  <2> QED BY <1>6, <2>2, BelowOfOrders DEF S
<1> HIDE DEF Good
<1>9. \A m \in Nat : m \in Good
    BY <1>7, <1>8, Induction
<1>10. ASSUME NEW n \in D PROVE below[n] \in S
  <2>1. height[n] + 1 \in Nat /\ height[n] < height[n] + 1
      BY <1>5
  <2> QED BY <1>9, <2>1 DEF Good
<1>11. slab.rootNode \in D
    BY DEF WellFormed
<1> QED BY <1>3, <1>10, <1>11 DEF S

\* The orders of an account make a ladder.
PricesOf(orders) == [i \in DOMAIN orders |-> PriceQuantity(orders[i])]

\* What do_update_book makes of a version of the account is a ladder of that version.
LEMMA AccountMakesLadder ==
    ASSUME NEW k \in BookKeys, NEW v \in DOMAIN Slabs[k],
           NEW levels, levels = SideBook(OrderbookAccount(Slabs[k][v]))
    PROVE  IsLadder(k, levels, PricesOf(LeafNodes(Slabs[k][v])))
<1> DEFINE slab == Slabs[k][v]
           leaves == LeafNodes(slab)
<1>1. slab.side = k /\ WellFormed(slab)
    BY SlabsAssumption DEF BookKeys
<1>2. leaves \in Seq(Leaves(slab))
    BY <1>1, LeavesAreOrders
<1>3. \A o \in Leaves(slab) : o.limitPrice \in Nat /\ o.quantity \in Nat
    BY <1>1 DEF WellFormed, Leaves
<1>4. ASSUME NEW o \in Leaves(slab) PROVE PriceQuantity(o) \in Entries
  <2>1. o.limitPrice \in Nat /\ o.quantity \in Nat
      BY <1>3
  <2>2. o.limitPrice * QuoteLotSize * PriceScale \in Nat /\ BaseLotSize \in Nat \ {0}
      BY <2>1, SlabsAssumption
  <2>3. (o.limitPrice * QuoteLotSize * PriceScale) \div BaseLotSize \in Int
      BY <2>2
  <2>4. o.quantity * BaseLotSize * QuantityScale \in Int
      BY <2>1, SlabsAssumption
  <2> QED BY <2>3, <2>4 DEF PriceQuantity, Entries
<1>5. PricesOf(leaves) \in Seq(Entries)
  <2>1. Len(leaves) \in Nat /\ DOMAIN leaves = 1 .. Len(leaves) /\ \A i \in DOMAIN leaves : leaves[i] \in Leaves(slab)
      BY <1>2, ElementOfSeq, LenProperties
  <2>2. PricesOf(leaves) \in [1 .. Len(leaves) -> Entries]
      BY <1>4, <2>1 DEF PricesOf
  <2> QED BY <2>1, <2>2
<1>6. levels = MergeLevels(SortOrders(k, PricesOf(leaves)))
    BY <1>1 DEF SideBook, OrderbookAccount, PricesOf
<1> QED BY <1>5, <1>6, OrdersMakeLadder

-----------------------------------------------------------------------------
\* The sides are those of the versions that were read of their accounts, and no version is
\* told that the account did not have.
LadderIInv ==
    /\ \A k \in BookKeys :
          /\ account[k] \in DOMAIN Slabs[k] /\ toNotify[k] \in Seq(DOMAIN Slabs[k])
          /\ loading \in {"subscribing", "done"} =>
                read[k] \in DOMAIN Slabs[k] /\ books[k] = SideBook(OrderbookAccount(Slabs[k][read[k]]))
    /\ DOMAIN read = BookKeys /\ DOMAIN books = BookKeys
    /\ DOMAIN account = Keys /\ DOMAIN toNotify = Keys

\* What a step does to the sides and their accounts.
SidesKept == books' = books /\ read' = read
AccountsKept == account' = account /\ toNotify' = toNotify
LoadGoesOn == loading' \in {"subscribing", "done"} => loading \in {"subscribing", "done"}
AccountTold(k, what) ==
    /\ account' = account \/ account' = [account EXCEPT ![k] = account[k] + 1]
    /\ toNotify' = toNotify \/ toNotify' = [toNotify EXCEPT ![k] = Append(@, what)]
    /\ k \in BookKeys => what = account[k] + 1 /\ what \in DOMAIN Slabs[k]
NotificationTaken(k) ==
    /\ toNotify[k] # <<>> /\ toNotify' = [toNotify EXCEPT ![k] = Tail(@)]
    /\ account' = account

\* What the steps do that the sides, their accounts or the load are touched by.
LEMMA StepOfLadder ==
    [ClientsNext]_allVars =>
       \/ AccountsKept /\ SidesKept /\ LoadGoesOn
       \/ SidesKept /\ LoadGoesOn /\ \E k, what : AccountTold(k, what)
       \/ SnapshotArrives
       \/ /\ LoadGoesOn
          /\ \E k : /\ NotificationTaken(k)
                    /\ IF k \in BookKeys THEN UpdateBook(k, Head(toNotify[k])) ELSE SidesKept
<1> SUFFICES ASSUME [ClientsNext]_allVars, ~SnapshotArrives
             PROVE  \/ AccountsKept /\ SidesKept /\ LoadGoesOn
                    \/ SidesKept /\ LoadGoesOn /\ \E k, what : AccountTold(k, what)
                    \/ /\ LoadGoesOn
                       /\ \E k : /\ NotificationTaken(k)
                                 /\ IF k \in BookKeys THEN UpdateBook(k, Head(toNotify[k])) ELSE SidesKept
    OBVIOUS
<1>1. CASE SubscriberStep
    BY <1>1 DEF SubscriberStep, SubscriptionReturns, serumVars, chainVars, AccountsKept, SidesKept, LoadGoesOn
<1>2. CASE MarketDataNext
  <2>1. CASE ChainStep
    <3>1. SidesKept /\ LoadGoesOn
        BY <2>1 DEF ChainStep, SidesKept, LoadGoesOn
    <3>2. \E k, what : AccountTold(k, what)
      <4>1. CASE \E k \in BookKeys : /\ account[k] + 1 \in DOMAIN Slabs[k]
                                     /\ account' = [account EXCEPT ![k] = @ + 1] /\ Tell(k, account[k] + 1)
          BY <4>1 DEF AccountTold, Tell
      <4>2. "events" \notin BookKeys
          BY DEF BookKeys
      <4>3. CASE \/ account' = [account EXCEPT !["events"] = @ + 1] /\ Tell("events", <<account["events"] + 1, consumed>>)
                 \/ account' = account /\ Tell("events", <<account["events"], consumed + 1>>)
          BY <4>2, <4>3 DEF AccountTold, Tell
      <4> QED BY <2>1, <4>1, <4>3 DEF ChainStep
    <3> QED BY <3>1, <3>2
  <2>2. CASE \E id \in SubscriptionIds : OnNotification(id)
      BY <2>2 DEF OnNotification, NotificationTaken, SidesKept, LoadGoesOn
  <2>3. CASE MarketDataStep \/ \E a \in DOMAIN told : BookSubscribe(a)
      BY <2>3 DEF MarketDataStep, BookSubscribe, SubscriberGoesOn, ReferenceDataReturns,
             SnapshotFails, MarketSubscribed, SubscribeMarket, serumVars, chainVars,
             AccountsKept, SidesKept, LoadGoesOn
  <2> QED BY <1>2, <2>1, <2>2, <2>3 DEF MarketDataNext
<1>3. CASE WalletNext
  <2>1. \A k \in WalletKeys : k \notin BookKeys
      BY ClientsAssumption DEF WalletKeys
  <2>2. CASE WalletChainStep
      BY <2>1, <2>2 DEF WalletChainStep, AccountTold, Tell, SidesKept, LoadGoesOn
  <2>3. CASE \E id \in SubscriptionIds : OnWalletNotification(id)
      BY <2>1, <2>3 DEF OnWalletNotification, NotificationTaken, SidesKept, LoadGoesOn
  <2>4. CASE WalletStep
      BY <2>4 DEF WalletStep, WalletDataThrows, WalletSubscribed, SubscribeAccount, serumVars,
             AccountsKept, SidesKept, LoadGoesOn
  <2> QED BY <1>3, <2>2, <2>3, <2>4 DEF WalletNext
<1>4. CASE UserNext
    BY <1>4 DEF UserNext, SubscribeWallet, WalletDataReturns, serumVars, AccountsKept, SidesKept, LoadGoesOn
<1>5. CASE UNCHANGED allVars
    BY <1>5 DEF allVars, serumVars, AccountsKept, SidesKept, LoadGoesOn
<1> QED BY <1>1, <1>2, <1>3, <1>4, <1>5 DEF ClientsNext

\* The invariant holds at first, and every step keeps it.
LEMMA LadderInit == ClientsInit => LadderIInv
BY SlabsAssumption, ClientsAssumption DEF ClientsInit, Init, SerumMdInit, LadderIInv, BookKeys

LEMMA LadderInductive == LadderIInv /\ [ClientsNext]_allVars => LadderIInv'
<1> SUFFICES ASSUME LadderIInv, [ClientsNext]_allVars PROVE LadderIInv'
    OBVIOUS
<1>1. BookKeys \subseteq Keys
    BY ClientsAssumption
<1> DEFINE Open == loading \in {"subscribing", "done"}
           Side(k) == read[k] \in DOMAIN Slabs[k] /\ books[k] = SideBook(OrderbookAccount(Slabs[k][read[k]]))
           Versions(k) == account[k] \in DOMAIN Slabs[k] /\ toNotify[k] \in Seq(DOMAIN Slabs[k])
<1>2. /\ \A k \in BookKeys : Versions(k) /\ (Open => Side(k))
      /\ DOMAIN read = BookKeys /\ DOMAIN books = BookKeys
      /\ DOMAIN account = Keys /\ DOMAIN toNotify = Keys
    BY DEF LadderIInv
<1>3. ASSUME /\ \A k \in BookKeys : Versions(k)' /\ (Open' => Side(k)')
             /\ DOMAIN read' = BookKeys /\ DOMAIN books' = BookKeys
             /\ DOMAIN account' = Keys /\ DOMAIN toNotify' = Keys
      PROVE  LadderIInv'
    BY <1>3 DEF LadderIInv
<1>4. ASSUME SidesKept, LoadGoesOn
      PROVE  /\ \A k \in BookKeys : Open' => Side(k)'
             /\ DOMAIN read' = BookKeys /\ DOMAIN books' = BookKeys
    BY <1>2, <1>4 DEF SidesKept, LoadGoesOn
<1>5. CASE AccountsKept /\ SidesKept /\ LoadGoesOn
    BY <1>2, <1>3, <1>4, <1>5 DEF AccountsKept
<1>6. ASSUME SidesKept, LoadGoesOn, NEW l, NEW what, AccountTold(l, what)
      PROVE  LadderIInv'
  <2>1. DOMAIN account' = Keys /\ DOMAIN toNotify' = Keys
      BY <1>2, <1>6 DEF AccountTold
  <2>2. ASSUME NEW k \in BookKeys PROVE Versions(k)'
    <3>1. k \in Keys /\ account[k] \in DOMAIN Slabs[k] /\ toNotify[k] \in Seq(DOMAIN Slabs[k])
        BY <1>1, <1>2
    <3>2. CASE k = l
      <4>1. what \in DOMAIN Slabs[k] /\ what = account[k] + 1
          BY <1>6, <3>2 DEF AccountTold
      <4>2. account'[k] \in {account[k], account[k] + 1}
          BY <1>2, <1>6, <3>1, <3>2 DEF AccountTold
      <4>3. toNotify'[k] \in {toNotify[k], Append(toNotify[k], what)}
          BY <1>2, <1>6, <3>1, <3>2 DEF AccountTold
      <4>4. Append(toNotify[k], what) \in Seq(DOMAIN Slabs[k])
          BY <3>1, <4>1, AppendProperties
      <4> QED BY <3>1, <4>1, <4>2, <4>3, <4>4
    <3>3. CASE k # l
        BY <1>2, <1>6, <3>1, <3>3 DEF AccountTold
    <3> QED BY <3>2, <3>3
  <2> QED BY <1>3, <1>4, <1>6, <2>1, <2>2
<1>7. CASE SnapshotArrives
  <2>1. /\ books' = [k \in BookKeys |-> SideBook(OrderbookAccount(Slabs[k][account[k]]))]
        /\ read' = [k \in BookKeys |-> account[k]] /\ account' = account /\ toNotify' = toNotify
      BY <1>7 DEF SnapshotArrives, chainVars
  <2> QED BY <1>2, <1>3, <2>1
<1>8. ASSUME LoadGoesOn, NEW l, NotificationTaken(l),
             IF l \in BookKeys THEN UpdateBook(l, Head(toNotify[l])) ELSE SidesKept
      PROVE  LadderIInv'
  <2>1. /\ DOMAIN account' = Keys /\ DOMAIN toNotify' = Keys /\ account' = account
        /\ DOMAIN read' = BookKeys /\ DOMAIN books' = BookKeys
      BY <1>2, <1>8 DEF NotificationTaken, SidesKept, UpdateBook
  <2>2. ASSUME NEW k \in BookKeys, k = l PROVE Versions(k)' /\ Side(k)'
    <3>1. k \in Keys /\ account[k] \in DOMAIN Slabs[k] /\ toNotify[k] \in Seq(DOMAIN Slabs[k]) /\ toNotify[k] # <<>>
        BY <1>1, <1>2, <1>8, <2>2 DEF NotificationTaken
    <3>2. Head(toNotify[k]) \in DOMAIN Slabs[k] /\ Tail(toNotify[k]) \in Seq(DOMAIN Slabs[k])
        BY <3>1, HeadTailProperties
    <3>3. toNotify'[k] = Tail(toNotify[k])
        BY <1>2, <1>8, <2>2, <3>1 DEF NotificationTaken
    <3>4. read'[k] = Head(toNotify[k]) /\ books'[k] = SideBook(OrderbookAccount(Slabs[k][Head(toNotify[k])]))
        BY <1>2, <1>8, <2>2 DEF UpdateBook
    <3> QED BY <2>1, <3>1, <3>2, <3>3, <3>4
  <2>3. ASSUME NEW k \in BookKeys, k # l PROVE Versions(k)' /\ (Open' => Side(k)')
    <3>1. toNotify'[k] = toNotify[k] /\ account'[k] = account[k]
        BY <1>1, <1>2, <1>8, <2>3 DEF NotificationTaken
    <3>2. read'[k] = read[k] /\ books'[k] = books[k]
        BY <1>2, <1>8, <2>3 DEF UpdateBook, SidesKept
    <3> QED BY <1>2, <1>8, <3>1, <3>2 DEF LoadGoesOn
  <2> QED BY <1>3, <2>1, <2>2, <2>3
<1> QED BY <1>5, <1>6, <1>7, <1>8, StepOfLadder

\* BookLadder (do_update_book): for any versions of the accounts, leaves of a well-formed
\* slab in any order, and a book that is read and told of in any order of steps.
THEOREM BookLadderHolds == ClientsSpec => []BookLadder
<1>1. ASSUME LadderIInv PROVE BookLadder
  <2> SUFFICES ASSUME loading \in {"subscribing", "done"}, NEW k \in BookKeys
               PROVE  LET levels == books[k]
                          orders == PricesOf(LeafNodes(Slabs[k][read[k]]))
                      IN  /\ \A i, j \in DOMAIN levels : i < j =>
                                IF k = "bids" THEN levels[i].price > levels[j].price ELSE levels[i].price < levels[j].price
                          /\ {levels[i].price : i \in DOMAIN levels} = {orders[i].price : i \in DOMAIN orders}
                          /\ \A i \in DOMAIN levels : levels[i].quantity = SumQuantity(orders, levels[i].price)
      BY DEF BookLadder, PricesOf
  <2>1. read[k] \in DOMAIN Slabs[k] /\ books[k] = SideBook(OrderbookAccount(Slabs[k][read[k]]))
      BY <1>1 DEF LadderIInv
  <2>2. IsLadder(k, books[k], PricesOf(LeafNodes(Slabs[k][read[k]])))
      BY <2>1, AccountMakesLadder
  <2> QED BY <2>2 DEF IsLadder, Better
<1> QED BY <1>1, LadderInit, LadderInductive, PTL DEF ClientsSpec

-----------------------------------------------------------------------------
\* v says of T, the values of g over D, what q, s and p say of A and of the rest of D.
SaysTogether(D, A, g, T, q, s, p, v) ==
    /\ IsFiniteSet(D) /\ A \subseteq D
    /\ \A x, y \in D : g[x] = g[y] => x = y
    /\ \A x \in D : g[x] \in T
    /\ \A y \in T : \E x \in D : y = g[x]
    /\ \A x \in A : q[x] \in Int /\ s[x] \in Int /\ v[g[x]] = 100 * q[x] + s[x]
    /\ \A x \in D \ A : p[x] \in Int /\ v[g[x]] = 100 * p[x]

\* Then the sums agree as well.
LEMMA SumsAgree ==
    ASSUME NEW D, NEW A, NEW g, NEW T, NEW q, NEW s, NEW p, NEW v, SaysTogether(D, A, g, T, q, s, p, v),
           NEW tq, Totals(tq, A, q), NEW ts, Totals(ts, A, s), NEW tp, Totals(tp, D \ A, p),
           NEW tv, Totals(tv, T, v)
    PROVE  tv[T] = 100 * (tq[A] + tp[D \ A]) + ts[A]
<1> DEFINE B == D \ A
           Of(U) == {g[x] : x \in U}
           Agree(U) == tv[Of(U)] = 100 * (tq[U \cap A] + tp[U \cap B]) + ts[U \cap A]
           Good == {n \in Nat : \A U \in SUBSET D : Cardinality(U) = n => Agree(U)}
<1>1. \A U \in SUBSET D : IsFiniteSet(U) /\ Cardinality(U) \in Nat
  <2>1. IsFiniteSet(D)
      BY DEF SaysTogether
  <2> QED BY <2>1, FS_Subset, FS_CardinalityType
<1>2. /\ tq[{}] = 0 /\ ts[{}] = 0 /\ tp[{}] = 0 /\ tv[{}] = 0
      /\ tq \in [SUBSET A -> Int] /\ ts \in [SUBSET A -> Int] /\ tp \in [SUBSET B -> Int]
    BY DEF Totals
<1>3. Agree({})
  <2>1. Of({}) = {} /\ {} \cap A = {} /\ {} \cap B = {}
      OBVIOUS
  <2>2. 0 = 100 * (0 + 0) + 0
      OBVIOUS
  <2> HIDE DEF Of, B
  <2> QED BY <1>2, <2>1, <2>2
<1>4. Of(D) = T /\ Totals(tv, Of(D), v) /\ Totals(tp, B, p)
  <2>1. Of(D) = T
      BY DEF SaysTogether
  <2> QED BY <2>1
<1>5. /\ \A t \in SUBSET B : \A x \in t : tp[t] = p[x] + tp[t \ {x}]
      /\ \A t \in SUBSET A : \A x \in t : tq[t] = q[x] + tq[t \ {x}] /\ ts[t] = s[x] + ts[t \ {x}]
  <2> HIDE DEF B
  <2>1. \A t \in SUBSET B : \A x \in t : tp[t] = p[x] + tp[t \ {x}]
      BY <1>4, Zenon DEF Totals
  <2>2. \A t \in SUBSET A : \A x \in t : tq[t] = q[x] + tq[t \ {x}]
      BY Zenon DEF Totals
  <2>3. \A t \in SUBSET A : \A x \in t : ts[t] = s[x] + ts[t \ {x}]
      BY Zenon DEF Totals
  <2> QED BY <2>1, <2>2, <2>3
<1>6. ASSUME NEW U \in SUBSET D, NEW x \in U, Agree(U \ {x}) PROVE Agree(U)
  <2> DEFINE V == U \ {x}
  <2>1. Of(U) \ {g[x]} = Of(V) /\ g[x] \in Of(U) /\ Of(U) \in SUBSET Of(D)
      BY DEF SaysTogether
  <2>2. tv[Of(U)] = v[g[x]] + tv[Of(V)]
    <3> HIDE DEF Of, V
    <3>1. Of(U) \in SUBSET Of(D) /\ g[x] \in Of(U)
        BY <2>1
    <3>2. \A t \in SUBSET Of(D) : \A y \in t : tv[t] = v[y] + tv[t \ {y}]
        BY <1>4, Zenon DEF Totals
    <3>3. tv[Of(U)] = v[g[x]] + tv[Of(U) \ {g[x]}]
        BY <3>1, <3>2, Zenon
    <3> QED BY <2>1, <3>3
  <2>3. PICK a \in Int, b \in Int, c \in Int : a = tq[V \cap A] /\ b = tp[V \cap B] /\ c = ts[V \cap A]
      BY <1>2
  <2>4. tv[Of(V)] = 100 * (a + b) + c
      BY <1>6, <2>3
  <2>5. CASE x \in A
    <3>1. U \cap B = V \cap B /\ (U \cap A) \ {x} = V \cap A /\ x \in U \cap A /\ U \cap A \in SUBSET A
        BY <2>5
    <3>2. tq[U \cap A] = q[x] + a /\ ts[U \cap A] = s[x] + c
      <4> HIDE DEF B, V
      <4>1. PICK t \in SUBSET A : t = U \cap A /\ x \in t /\ t \ {x} = V \cap A
          BY <3>1
      <4>2. tq[t] = q[x] + tq[t \ {x}] /\ ts[t] = s[x] + ts[t \ {x}]
          BY <1>5, <4>1
      <4> QED BY <2>3, <4>1, <4>2
    <3>3. PICK m \in Int, n \in Int : m = q[x] /\ n = s[x] /\ v[g[x]] = 100 * m + n
        BY <2>5 DEF SaysTogether
    <3>4. tv[Of(U)] = (100 * m + n) + (100 * (a + b) + c)
        BY <2>2, <2>4, <3>3
    <3>5. (100 * m + n) + (100 * (a + b) + c) = 100 * ((m + a) + b) + (n + c)
        OBVIOUS
    <3> HIDE DEF Of
    <3> QED BY <2>3, <3>1, <3>2, <3>3, <3>4, <3>5
  <2>6. CASE x \in B
    <3>1. U \cap A = V \cap A /\ (U \cap B) \ {x} = V \cap B /\ x \in U \cap B /\ U \cap B \in SUBSET B
        BY <2>6
    <3>2. tp[U \cap B] = p[x] + b
      <4> HIDE DEF B, V
      <4>1. PICK t \in SUBSET B : t = U \cap B /\ x \in t /\ t \ {x} = V \cap B
          BY <3>1
      <4>2. tp[t] = p[x] + tp[t \ {x}]
          BY <1>5, <4>1
      <4> QED BY <2>3, <4>1, <4>2
    <3>3. PICK m \in Int : m = p[x] /\ v[g[x]] = 100 * m
        BY <2>6 DEF SaysTogether
    <3>4. tv[Of(U)] = 100 * m + (100 * (a + b) + c)
        BY <2>2, <2>4, <3>3
    <3>5. 100 * m + (100 * (a + b) + c) = 100 * (a + (m + b)) + c
        OBVIOUS
    <3> HIDE DEF Of
    <3> QED BY <2>3, <3>1, <3>2, <3>3, <3>4, <3>5
  <2> QED BY <2>5, <2>6
<1> HIDE DEF Agree
<1>7. 0 \in Good
  <2> SUFFICES ASSUME NEW U \in SUBSET D, Cardinality(U) = 0 PROVE Agree(U)
      OBVIOUS
  <2>1. U = {}
      BY <1>1, FS_EmptySet
  <2> QED BY <1>3, <2>1
<1>8. ASSUME NEW n \in Nat, n \in Good PROVE n + 1 \in Good
  <2> SUFFICES ASSUME NEW U \in SUBSET D, Cardinality(U) = n + 1 PROVE Agree(U)
      OBVIOUS
  <2>1. PICK x \in U : TRUE
      BY <1>1, FS_EmptySet
  <2>2. U \ {x} \in SUBSET D /\ IsFiniteSet(U) /\ Cardinality(U \ {x}) = Cardinality(U) - 1
      BY <1>1, <2>1, FS_RemoveElement
  <2>3. Cardinality(U \ {x}) = n
      BY <2>2
  <2> QED BY <1>6, <1>8, <2>1, <2>2, <2>3
<1> HIDE DEF Good
<1>9. \A n \in Nat : n \in Good
    BY <1>7, <1>8, Induction
<1>10. Agree(D)
    BY <1>1, <1>9 DEF Good
<1>11. D \cap A = A /\ D \cap B = B
    BY DEF SaysTogether
<1> QED BY <1>4, <1>10, <1>11 DEF Agree

\* The pair of a currency has it as base currency.
LEMMA PairHasBase ==
    ASSUME NEW t \in Nat, PairOf(t) # 0
    PROVE  PairOf(t) \in DOMAIN TradingPairs /\ TradingPairs[PairOf(t)] = t
<1> DEFINE I == {i \in 1 .. Len(TradingPairs) : TradingPairs[i] = t}
<1>1. PairOf(t) = IF I # {} THEN Min(I) ELSE 0
    BY DEF PairOf, SelectInSeq
<1>2. I # {} /\ PairOf(t) = Min(I)
    BY <1>1
<1>3. I \in SUBSET Nat
    BY MangoAssumption, LenProperties
<1> HIDE DEF I
<1>4. Min(I) \in I
  <2>1. \E x \in I : \A y \in I : x =< y
      BY <1>2, <1>3, LeastExists
  <2> QED BY <2>1 DEF Min
<1> QED BY <1>2, <1>4, MangoAssumption, LenProperties DEF I

\* What is owned of a token, the components of its pair with open orders o, its weight and its
\* value by the rules of the group, as MarginIsOfHealth states them.
PositionOf(holds, cache, t) ==
    Units(holds.deposits[t] * cache.depositIndex[t] - holds.borrows[t] * cache.borrowIndex[t], t)
BidsOf(holds, cache, o, t) ==
    PositionOf(holds, cache, t) + OpenAmounts(o, t).quoteLocked
      + (OpenAmounts(o, t).baseFree + OpenAmounts(o, t).baseLocked) * cache.price[t]
AsksOf(holds, cache, o, t) == (PositionOf(holds, cache, t) + OpenAmounts(o, t).baseFree) * cache.price[t]
BidsMoveOf(holds, cache, o, t) ==
    holds.inMarginBasket[t] /\ Abs(BidsOf(holds, cache, o, t)) > Abs(AsksOf(holds, cache, o, t))
BaseOf(holds, cache, o, t) ==
    IF ~holds.inMarginBasket[t] THEN PositionOf(holds, cache, t) * cache.price[t]
    ELSE IF BidsMoveOf(holds, cache, o, t) THEN BidsOf(holds, cache, o, t) ELSE AsksOf(holds, cache, o, t)
QuoteOf(holds, cache, o, t) ==
    IF ~holds.inMarginBasket[t] THEN 0
    ELSE IF BidsMoveOf(holds, cache, o, t) THEN OpenAmounts(o, t).quoteFree
    ELSE OpenAmounts(o, t).quoteFree + OpenAmounts(o, t).quoteLocked + OpenAmounts(o, t).baseLocked * cache.price[t]
WeightOf(holds, cache, o, t) == IF BaseOf(holds, cache, o, t) > 0 THEN AssetWeight[t] ELSE LiabilityWeight[t]
ValueOf(holds, cache, o, t) ==
    IF t = QuoteIndex THEN 100 * PositionOf(holds, cache, t)
    ELSE 100 * QuoteOf(holds, cache, o, t) + BaseOf(holds, cache, o, t) * WeightOf(holds, cache, o, t)
Tokens == {Currencies[c] : c \in DOMAIN Currencies}

\* The health, with the open orders of each pair.
HealthOf(holds, cache, openOrders) ==
    SumFunction([t \in Tokens |-> ValueOf(holds, cache, openOrders[PairOf(t)], t)])

\* Open orders of pairs that an account of some version has.
OrdersOfPairs == [DOMAIN TradingPairs -> {OpenOrders[v] : v \in DOMAIN OpenOrders}]

LEMMA OpenAmountsAreInt ==
    ASSUME NEW v \in DOMAIN OpenOrders, NEW t, UnitOf[t] \in Int
    PROVE  LET open == OpenAmounts(OpenOrders[v], t)
           IN  open.quoteFree \in Int /\ open.quoteLocked \in Int /\ open.baseFree \in Int /\ open.baseLocked \in Int
<1> DEFINE o == OpenOrders[v]
<1>1. o.quoteFree \in Int /\ o.quoteTotal \in Int /\ o.baseFree \in Int /\ o.baseTotal \in Int /\ o.rebates \in Int
    BY VersionsAssumption
<1> HIDE DEF o
<1>2. /\ (o.quoteFree + o.rebates) * UnitOf[t] \in Int /\ (o.quoteTotal - o.quoteFree) * UnitOf[t] \in Int
      /\ o.baseFree * UnitOf[t] \in Int /\ (o.baseTotal - o.baseFree) * UnitOf[t] \in Int
    BY <1>1
<1> QED BY <1>2 DEF OpenAmounts, Units, o

\* The component of a position whose market is in the margin basket or not.
LEMMA ComponentOfPosition ==
    ASSUME NEW holds, NEW cache, NEW o, NEW t,
           PositionOf(holds, cache, t) \in Int, cache.price[t] \in Int,
           OpenAmounts(o, t).quoteFree \in Int, OpenAmounts(o, t).quoteLocked \in Int,
           OpenAmounts(o, t).baseFree \in Int, OpenAmounts(o, t).baseLocked \in Int
    PROVE  /\ SpotComponent(PositionOf(holds, cache, t), t, holds, cache, o)
                = [spot |-> BaseOf(holds, cache, o, t), quote |-> QuoteOf(holds, cache, o, t)]
           /\ BaseOf(holds, cache, o, t) \in Int /\ QuoteOf(holds, cache, o, t) \in Int
<1> DEFINE position == PositionOf(holds, cache, t)
           price == cache.price[t]
           open == OpenAmounts(o, t)
           bids == BidsOf(holds, cache, o, t)
           asks == AsksOf(holds, cache, o, t)
<1>1. bids = position + open.quoteLocked + (open.baseFree + open.baseLocked) * price
    BY DEF BidsOf
<1>2. asks = (position + open.baseFree) * price
    BY DEF AsksOf
<1>3. position \in Int /\ price \in Int /\ open.quoteFree \in Int /\ open.quoteLocked \in Int
      /\ open.baseFree \in Int /\ open.baseLocked \in Int
    OBVIOUS
<1> HIDE DEF position, price, open, bids, asks
<1>4. bids \in Int /\ asks \in Int /\ position * price \in Int /\ open.baseLocked * price \in Int
  <2>1. (open.baseFree + open.baseLocked) * price \in Int /\ (position + open.baseFree) * price \in Int
      BY <1>3
  <2> QED BY <1>1, <1>2, <1>3, <2>1
<1>5. CASE ~holds.inMarginBasket[t]
  <2>1. SpotComponent(position, t, holds, cache, o) = [spot |-> position * price, quote |-> 0]
      BY <1>5 DEF SpotComponent, price
  <2>2. BaseOf(holds, cache, o, t) = position * price /\ QuoteOf(holds, cache, o, t) = 0
      BY <1>5 DEF BaseOf, QuoteOf, position, price
  <2> QED BY <1>4, <2>1, <2>2 DEF position
<1>6. CASE holds.inMarginBasket[t]
  <2>1. SpotComponent(position, t, holds, cache, o)
          = IF Abs(bids) > Abs(asks) THEN [spot |-> bids, quote |-> open.quoteFree]
            ELSE [spot |-> asks, quote |-> open.baseLocked * price + open.quoteFree + open.quoteLocked]
    <3>1. SpotComponent(position, t, holds, cache, o) = BasketComponent(position, price, open)
        BY <1>6 DEF SpotComponent, price, open
    <3> QED BY <1>1, <1>2, <3>1 DEF BasketComponent
  <2>2. /\ BaseOf(holds, cache, o, t) = IF Abs(bids) > Abs(asks) THEN bids ELSE asks
        /\ QuoteOf(holds, cache, o, t) = IF Abs(bids) > Abs(asks) THEN open.quoteFree
                                         ELSE open.quoteFree + open.quoteLocked + open.baseLocked * price
      BY <1>6 DEF BaseOf, QuoteOf, BidsMoveOf, bids, asks, open, price
  <2>3. open.baseLocked * price + open.quoteFree + open.quoteLocked
          = open.quoteFree + open.quoteLocked + open.baseLocked * price
      BY <1>3, <1>4
  <2>4. open.quoteFree + open.quoteLocked + open.baseLocked * price \in Int
      BY <1>3, <1>4
  <2>5. CASE Abs(bids) > Abs(asks)
      BY <1>3, <1>4, <2>1, <2>2, <2>5 DEF position
  <2>6. CASE ~(Abs(bids) > Abs(asks))
      BY <1>4, <2>1, <2>2, <2>3, <2>4, <2>6 DEF position
  <2> QED BY <2>5, <2>6
<1> QED BY <1>5, <1>6

LEMMA ComponentsOfPositions ==
    ASSUME NEW m \in DOMAIN MangoAccounts, NEW h \in DOMAIN MangoCaches, NEW openOrders \in OrdersOfPairs,
           NEW c \in DOMAIN Currencies
    PROVE  LET holds == MangoAccounts[m]
               cache == MangoCaches[h]
               t == Currencies[c]
               o == openOrders[PairOf(t)]
               positions == PositionComponent(holds, cache)
               components == HealthComponents(positions, holds, cache, openOrders)
           IN  /\ positions[c] = PositionOf(holds, cache, t) /\ positions[c] \in Int
               /\ Spot(c) => /\ components[c].quote = QuoteOf(holds, cache, o, t) /\ components[c].quote \in Int
                             /\ components[c].spot = BaseOf(holds, cache, o, t) /\ components[c].spot \in Int
                             /\ components[c].weight = WeightOf(holds, cache, o, t) /\ components[c].weight \in Int
<1> DEFINE holds == MangoAccounts[m]
           cache == MangoCaches[h]
           t == Currencies[c]
           o == openOrders[PairOf(t)]
           positions == PositionComponent(holds, cache)
           components == HealthComponents(positions, holds, cache, openOrders)
<1>1. positions[c] = PositionOf(holds, cache, t)
    BY DEF PositionComponent, PositionOf
<1>2. positions[c] \in Int
  <2>1. {holds.deposits[t], holds.borrows[t], cache.depositIndex[t], cache.borrowIndex[t], UnitOf[t]} \subseteq Int
      BY VersionsAssumption, MangoAssumption
  <2> HIDE DEF positions, holds, cache, t
  <2> QED BY <1>1, <2>1 DEF PositionOf, Units
<1>3. ASSUME Spot(c)
      PROVE  /\ components[c].quote = QuoteOf(holds, cache, o, t) /\ components[c].quote \in Int
             /\ components[c].spot = BaseOf(holds, cache, o, t) /\ components[c].spot \in Int
             /\ components[c].weight = WeightOf(holds, cache, o, t) /\ components[c].weight \in Int
  <2>1. t \in 0 .. NumOracles - 1 /\ t \in Nat
    <3>1. t \in Nat /\ t < NumOracles /\ NumOracles \in Nat
        BY <1>3, MangoAssumption, ElementOfSeq, LenProperties DEF Spot
    <3> QED BY <3>1
  <2>2. cache.price[t] \in Int
      BY <2>1, VersionsAssumption
  <2>3. AssetWeight[t] \in Int /\ LiabilityWeight[t] \in Int /\ UnitOf[t] \in Int
      BY <2>1, MangoAssumption
  <2>4. components[c] = HealthComponent(c, positions, holds, cache, openOrders)
      BY <1>3 DEF HealthComponents
  <2>5. PICK v \in DOMAIN OpenOrders : o = OpenOrders[v]
    <3>1. PairOf(t) \in DOMAIN TradingPairs
        BY <1>3, <2>1, MangoAssumption, PairHasBase
    <3> QED BY <3>1 DEF OrdersOfPairs
  <2> HIDE DEF components, positions, holds, cache, o
  <2>6. /\ OpenAmounts(o, t).quoteFree \in Int /\ OpenAmounts(o, t).quoteLocked \in Int
        /\ OpenAmounts(o, t).baseFree \in Int /\ OpenAmounts(o, t).baseLocked \in Int
      BY <2>3, <2>5, OpenAmountsAreInt
  <2>7. /\ SpotComponent(positions[c], t, holds, cache, o)
             = [spot |-> BaseOf(holds, cache, o, t), quote |-> QuoteOf(holds, cache, o, t)]
        /\ BaseOf(holds, cache, o, t) \in Int /\ QuoteOf(holds, cache, o, t) \in Int
    <3> HIDE DEF t
    <3> QED BY <1>1, <1>2, <2>2, <2>6, ComponentOfPosition
  <2>8. /\ components[c].quote = QuoteOf(holds, cache, o, t)
        /\ components[c].spot = BaseOf(holds, cache, o, t)
        /\ components[c].weight = IF BaseOf(holds, cache, o, t) > 0 THEN AssetWeight[t] ELSE LiabilityWeight[t]
      BY <2>4, <2>7 DEF HealthComponent, o
  <2> HIDE DEF t
  <2> QED BY <2>3, <2>7, <2>8 DEF WeightOf
<1> QED BY <1>1, <1>2, <1>3

\* get_health_components and get_health_from_components add up to the health by the rules.
LEMMA HealthIsOfPositions ==
    ASSUME NEW m \in DOMAIN MangoAccounts, NEW h \in DOMAIN MangoCaches, NEW openOrders \in OrdersOfPairs
    PROVE  LET holds == MangoAccounts[m]
               cache == MangoCaches[h]
               positions == PositionComponent(holds, cache)
               components == HealthComponents(positions, holds, cache, openOrders)
           IN  HealthFromComponents(QuoteComponent(positions, components), components)
                  = HealthOf(holds, cache, openOrders)
<1> DEFINE holds == MangoAccounts[m]
           cache == MangoCaches[h]
           positions == PositionComponent(holds, cache)
           components == HealthComponents(positions, holds, cache, openOrders)
           D == DOMAIN Currencies
           A == {i \in D : Spot(i)}
           B == {i \in D : Currencies[i] = QuoteIndex}
           quote == [c \in A |-> components[c].quote]
           owned == [c \in B |-> positions[c]]
           spot == [c \in A |-> components[c].spot * components[c].weight]
           Value(t) == ValueOf(holds, cache, openOrders[PairOf(t)], t)
           value == [t \in Tokens |-> Value(t)]
<1>1. IsFiniteSet(D) /\ \A c \in D : Currencies[c] \in Nat
  <2>1. D = 1 .. Len(Currencies) /\ Len(Currencies) \in Nat
      BY MangoAssumption, LenProperties
  <2>2. IsFiniteSet(D)
      BY <2>1, FS_Interval
  <2>3. Currencies \in Seq(Nat)
      BY MangoAssumption
  <2>4. \A c \in 1 .. Len(Currencies) : Currencies[c] \in Nat
      BY <2>3, ElementOfSeq
  <2> QED BY <2>1, <2>2, <2>4
<1>2. A \in SUBSET D /\ B = D \ A
    BY <1>1, MangoAssumption DEF Spot
<1>3. ASSUME NEW c \in D
      PROVE  /\ positions[c] = PositionOf(holds, cache, Currencies[c]) /\ positions[c] \in Int
             /\ c \in A =>
                  LET o == openOrders[PairOf(Currencies[c])]
                  IN  /\ components[c].quote = QuoteOf(holds, cache, o, Currencies[c]) /\ components[c].quote \in Int
                      /\ components[c].spot = BaseOf(holds, cache, o, Currencies[c]) /\ components[c].spot \in Int
                      /\ components[c].weight = WeightOf(holds, cache, o, Currencies[c]) /\ components[c].weight \in Int
    BY ComponentsOfPositions
<1>4. DOMAIN components = A
    BY DEF HealthComponents
<1> HIDE DEF components, positions, holds, cache
<1>5. ASSUME NEW c \in A
      PROVE  quote[c] \in Int /\ spot[c] \in Int /\ Value(Currencies[c]) = 100 * quote[c] + spot[c]
  <2>1. Currencies[c] # QuoteIndex
      BY <1>1, MangoAssumption DEF Spot
  <2>2. PICK q \in Int, base \in Int, weight \in Int :
           /\ components[c].quote = q /\ components[c].spot = base /\ components[c].weight = weight
           /\ Value(Currencies[c]) = 100 * q + base * weight
      BY <1>2, <1>3, <2>1 DEF ValueOf
  <2>3. quote[c] = q /\ spot[c] = base * weight
      BY <1>2, <2>2
  <2>4. base * weight \in Int
      OBVIOUS
  <2> HIDE DEF quote, spot, Value
  <2> QED BY <2>2, <2>3, <2>4
<1>6. ASSUME NEW c \in B
      PROVE  owned[c] \in Int /\ Value(Currencies[c]) = 100 * owned[c]
    BY <1>3 DEF ValueOf
<1>7. \A c \in D : Currencies[c] \in Tokens
    BY DEF Tokens
<1>8. value \in [Tokens -> Int]
  <2> SUFFICES ASSUME NEW t \in Tokens PROVE Value(t) \in Int
      OBVIOUS
  <2>1. PICK c \in D : Currencies[c] = t
      BY DEF Tokens
  <2>2. CASE c \in A
      BY <1>5, <2>1, <2>2
  <2>3. CASE c \in B
      BY <1>6, <2>1, <2>3
  <2> QED BY <1>2, <2>2, <2>3
<1>9. IsFiniteSet(Tokens) /\ IsFiniteSet(A) /\ IsFiniteSet(B)
  <2> DEFINE f == [c \in D |-> Currencies[c]]
  <2>1. f \in Surjection(D, Tokens)
      BY DEF Surjection, Tokens
  <2>2. IsFiniteSet(Tokens)
    <3> HIDE DEF f, D
    <3> QED BY <1>1, <2>1, FS_Surjection
  <2> QED BY <1>1, <1>2, <2>2, FS_Subset
<1>10. quote \in [A -> Int] /\ spot \in [A -> Int] /\ owned \in [B -> Int]
    BY <1>5, <1>6
<1>11. \A c \in D : value[Currencies[c]] = Value(Currencies[c])
    BY <1>7
<1>12. QuoteComponent(positions, components) = SumFunction(quote) + SumFunction(owned)
    BY <1>4 DEF QuoteComponent
<1>13. HealthFromComponents(QuoteComponent(positions, components), components)
         = 100 * (SumFunction(quote) + SumFunction(owned)) + SumFunction(spot)
    BY <1>4, <1>12 DEF HealthFromComponents
<1>14. HealthOf(holds, cache, openOrders) = SumFunction(value)
    BY DEF HealthOf
<1>15. Tokens = {Currencies[c] : c \in D} /\ \A c, d \in D : Currencies[c] = Currencies[d] => c = d
    BY MangoAssumption DEF Tokens
<1> HIDE DEF value, quote, owned, spot, A, B, D, Tokens
<1>16. /\ Totals(SumsOf(quote), A, quote) /\ SumFunction(quote) = SumsOf(quote)[A]
       /\ Totals(SumsOf(spot), A, spot) /\ SumFunction(spot) = SumsOf(spot)[A]
       /\ Totals(SumsOf(owned), B, owned) /\ SumFunction(owned) = SumsOf(owned)[B]
       /\ Totals(SumsOf(value), Tokens, value) /\ SumFunction(value) = SumsOf(value)[Tokens]
  <2>1. Totals(SumsOf(quote), A, quote) /\ SumFunction(quote) = SumsOf(quote)[A]
      BY <1>9, <1>10, SumFunctionIsTotal
  <2>2. Totals(SumsOf(spot), A, spot) /\ SumFunction(spot) = SumsOf(spot)[A]
      BY <1>9, <1>10, SumFunctionIsTotal
  <2>3. Totals(SumsOf(owned), B, owned) /\ SumFunction(owned) = SumsOf(owned)[B]
      BY <1>9, <1>10, SumFunctionIsTotal
  <2>4. Totals(SumsOf(value), Tokens, value) /\ SumFunction(value) = SumsOf(value)[Tokens]
      BY <1>8, <1>9, SumFunctionIsTotal
  <2> QED BY <2>1, <2>2, <2>3, <2>4
<1>17. \A c \in A : quote[c] \in Int /\ spot[c] \in Int /\ value[Currencies[c]] = 100 * quote[c] + spot[c]
    BY <1>2, <1>5, <1>10, <1>11
<1>18. \A c \in B : owned[c] \in Int /\ value[Currencies[c]] = 100 * owned[c]
    BY <1>2, <1>6, <1>11
<1>19. SumsOf(value)[Tokens] = 100 * (SumsOf(quote)[A] + SumsOf(owned)[B]) + SumsOf(spot)[A]
  <2>1. Totals(SumsOf(owned), D \ A, owned) /\ Totals(SumsOf(value), Tokens, value)
      BY <1>2, <1>16
  <2>2. \A c \in D \ A : owned[c] \in Int /\ value[Currencies[c]] = 100 * owned[c]
      BY <1>2, <1>18
  <2>3. SumsOf(value)[Tokens]
          = 100 * (SumsOf(quote)[A] + SumsOf(owned)[D \ A]) + SumsOf(spot)[A]
    <3>1. SaysTogether(D, A, Currencies, Tokens, quote, spot, owned, value)
        BY <1>1, <1>2, <1>15, <1>17, <2>2 DEF SaysTogether
    <3> QED BY <1>16, <2>1, <3>1, SumsAgree
  <2> QED BY <1>2, <2>3
<1> QED BY <1>13, <1>14, <1>16, <1>19 DEF holds, cache, positions, components

\* do_update_positions: the margin of a pair, from the weight of its base currency.
LEMMA MarginsOfHealth ==
    ASSUME NEW m \in DOMAIN MangoAccounts, NEW h \in DOMAIN MangoCaches, NEW openOrders \in OrdersOfPairs,
           NEW p \in DOMAIN TradingPairs, NEW health
    PROVE  LET holds == MangoAccounts[m]
               cache == MangoCaches[h]
               components == HealthComponents(PositionComponent(holds, cache), holds, cache, openOrders)
           IN  MarginAvailable(health, components)[p]
                 = IF health =< 0 THEN <<0, 1>> ELSE <<health, 100 - WeightOf(holds, cache, openOrders[p], TradingPairs[p])>>
<1> DEFINE holds == MangoAccounts[m]
           cache == MangoCaches[h]
           components == HealthComponents(PositionComponent(holds, cache), holds, cache, openOrders)
           of == {c \in DOMAIN components : PairOf(Currencies[c]) = p}
<1>1. PICK c \in DOMAIN Currencies : Spot(c) /\ Currencies[c] = TradingPairs[p]
    BY MangoAssumption
<1>2. \A d \in DOMAIN components : d \in DOMAIN Currencies /\ Spot(d)
    BY DEF HealthComponents
<1>3. c \in DOMAIN components
    BY <1>1 DEF HealthComponents
<1>4. components[c].weight = WeightOf(holds, cache, openOrders[p], TradingPairs[p])
  <2>1. PairOf(Currencies[c]) = p
      BY <1>1, MangoAssumption
  <2> QED BY <1>1, <2>1, ComponentsOfPositions
<1> HIDE DEF components
<1>5. c \in of
    BY <1>1, <1>3, MangoAssumption
<1>6. ASSUME NEW d \in of PROVE d = c
  <2>1. d \in DOMAIN Currencies /\ PairOf(Currencies[d]) = p /\ Currencies[d] \in Nat
      BY <1>2, MangoAssumption, ElementOfSeq, LenProperties
  <2>2. p # 0
      BY MangoAssumption, LenProperties
  <2>3. Currencies[d] = TradingPairs[p]
      BY <2>1, <2>2, PairHasBase
  <2> QED BY <1>1, <2>1, <2>3, MangoAssumption
<1>7. of # {} /\ (CHOOSE d \in of : TRUE) = c
    BY <1>5, <1>6
<1> HIDE DEF of
<1>8. MarginAvailable(health, components)[p]
        = IF health =< 0 THEN <<0, 1>>
          ELSE LET weight == IF of = {} THEN 0 ELSE components[CHOOSE d \in of : TRUE].weight
               IN  <<health, 100 - weight>>
    BY DEF MarginAvailable, of
<1> QED BY <1>4, <1>7, <1>8 DEF components

-----------------------------------------------------------------------------
\* The wallet is that of the accounts as they are held, and no version is held or told that
\* the account did not have.
WalletVersions(k) ==
    IF k = "mango" THEN DOMAIN MangoAccounts
    ELSE IF k = "cache" THEN DOMAIN MangoCaches ELSE DOMAIN OpenOrders

MarginIInv ==
    /\ \A k \in WalletKeys :
          /\ account[k] \in Nat /\ 0 .. account[k] \subseteq WalletVersions(k)
          /\ toNotify[k] \in Seq(WalletVersions(k)) /\ held[k] \in WalletVersions(k)
    /\ wallet = NoWallet \/ wallet = WalletOf(held)
    /\ WalletKeys \subseteq Keys
    /\ DOMAIN held = WalletKeys /\ DOMAIN account = Keys /\ DOMAIN toNotify = Keys

\* What a step does to the wallet and the accounts it is made of.
WalletKept == held' = held /\ wallet' = wallet
WalletTold(versions) == held' = versions /\ wallet' = WalletOf(versions)
WalletAccountTold(k) ==
    /\ account[k] + 1 \in WalletVersions(k)
    /\ account' = [account EXCEPT ![k] = account[k] + 1]
    /\ toNotify' = toNotify \/ toNotify' = [toNotify EXCEPT ![k] = Append(@, account[k] + 1)]
DataOf(v) ==
    \A k \in WalletKeys : v[k] \in 0 .. MaxNotifications /\ v[k] =< account[k]

LEMMA StepOfMargin ==
    [ClientsNext]_allVars =>
       \/ WalletKept /\ AccountsKept
       \/ WalletKept /\ \E k, what : k \notin WalletKeys /\ AccountTold(k, what)
       \/ WalletKept /\ \E k \in WalletKeys : WalletAccountTold(k)
       \/ WalletKept /\ \E k : NotificationTaken(k)
       \/ \E k \in WalletKeys : NotificationTaken(k) /\ WalletTold([held EXCEPT ![k] = Head(toNotify[k])])
       \/ \E v \in [WalletKeys -> 0 .. MaxNotifications] : DataOf(v) /\ AccountsKept /\ WalletTold(v)
<1> SUFFICES ASSUME [ClientsNext]_allVars
             PROVE  \/ WalletKept /\ AccountsKept
                    \/ WalletKept /\ \E k, what : k \notin WalletKeys /\ AccountTold(k, what)
                    \/ WalletKept /\ \E k \in WalletKeys : WalletAccountTold(k)
                    \/ WalletKept /\ \E k : NotificationTaken(k)
                    \/ \E k \in WalletKeys : NotificationTaken(k) /\ WalletTold([held EXCEPT ![k] = Head(toNotify[k])])
                    \/ \E v \in [WalletKeys -> 0 .. MaxNotifications] : DataOf(v) /\ AccountsKept /\ WalletTold(v)
    OBVIOUS
<1>0. \A k \in BookKeys \cup {"events"} : k \notin WalletKeys
    BY ClientsAssumption DEF WalletKeys
<1>1. CASE SubscriberStep
    BY <1>1 DEF SubscriberStep, SubscriptionReturns, serumVars, walletVars, chainVars, AccountsKept, WalletKept
<1>2. CASE MarketDataNext
  <2>0. WalletKept
      BY <1>2 DEF MarketDataNext, WalletKept, walletVars
  <2>1. CASE ChainStep
    <3>1. CASE \E k \in BookKeys : /\ account[k] + 1 \in DOMAIN Slabs[k]
                                   /\ account' = [account EXCEPT ![k] = @ + 1] /\ Tell(k, account[k] + 1)
        BY <1>0, <2>0, <3>1 DEF AccountTold, Tell
    <3>2. "events" \notin BookKeys
        BY DEF BookKeys
    <3>3. CASE \/ account' = [account EXCEPT !["events"] = @ + 1] /\ Tell("events", <<account["events"] + 1, consumed>>)
               \/ account' = account /\ Tell("events", <<account["events"], consumed + 1>>)
      <4>1. \E what : AccountTold("events", what)
          BY <3>2, <3>3 DEF AccountTold, Tell
      <4> QED BY <1>0, <2>0, <4>1
    <3> QED BY <2>1, <3>1, <3>3 DEF ChainStep
  <2>2. CASE \E id \in SubscriptionIds : OnNotification(id)
    <3>1. \E k : NotificationTaken(k)
        BY <2>2 DEF OnNotification, NotificationTaken
    <3> QED BY <2>0, <3>1
  <2>3. CASE MarketDataStep \/ \E a \in DOMAIN told : BookSubscribe(a)
    <3>1. AccountsKept
        BY <2>3 DEF MarketDataStep, BookSubscribe, SubscriberGoesOn, ReferenceDataReturns, SnapshotArrives,
               SnapshotFails, MarketSubscribed, SubscribeMarket, serumVars, chainVars, AccountsKept
    <3> QED BY <2>0, <3>1
  <2> QED BY <1>2, <2>1, <2>2, <2>3 DEF MarketDataNext
<1>3. CASE WalletNext
  <2>1. CASE WalletChainStep
    <3>1. WalletKept
        BY <2>1 DEF WalletChainStep, WalletKept, walletVars
    <3>2. \E k \in WalletKeys : WalletAccountTold(k)
        BY <2>1 DEF WalletChainStep, WalletAccountTold, WalletVersions, Tell
    <3> QED BY <3>1, <3>2
  <2>2. CASE \E id \in SubscriptionIds : OnWalletNotification(id)
    <3>1. PICK k \in WalletKeys, i \in SubscriptionIds :
             /\ toNotify[k] # <<>> /\ toNotify' = [toNotify EXCEPT ![k] = Tail(@)] /\ account' = account
             /\ IF subscriptions[i] \cap WalletCalls # {}
                THEN /\ held' = [held EXCEPT ![k] = Head(toNotify[k])]
                     /\ wallet' = WalletOf(held')
                ELSE UNCHANGED <<held, wallet>>
        BY <2>2 DEF OnWalletNotification
    <3>2. NotificationTaken(k)
        BY <3>1 DEF NotificationTaken
    <3>3. WalletKept \/ WalletTold([held EXCEPT ![k] = Head(toNotify[k])])
        BY <3>1 DEF WalletKept, WalletTold
    <3> QED BY <3>2, <3>3
  <2>3. CASE WalletStep
      BY <2>3 DEF WalletStep, WalletDataThrows, WalletSubscribed, SubscribeAccount, serumVars, walletVars,
             AccountsKept, WalletKept
  <2> QED BY <1>3, <2>1, <2>2, <2>3 DEF WalletNext
<1>4. CASE UserNext
  <2>1. CASE \E v \in [WalletKeys -> 0 .. MaxNotifications] :
                (\A k \in WalletKeys : v[k] =< account[k]) /\ WalletDataReturns(v)
      BY <2>1 DEF WalletDataReturns, serumVars, AccountsKept, WalletTold, DataOf
  <2>2. CASE SubscribeWallet \/ \E c \in OtherCalls : AccountSubscribe(c) /\ UNCHANGED <<refVars, serumVars, walletVars>>
      BY <2>2 DEF SubscribeWallet, serumVars, walletVars, AccountsKept, WalletKept
  <2> QED BY <1>4, <2>1, <2>2 DEF UserNext
<1>5. CASE UNCHANGED allVars
    BY <1>5 DEF allVars, serumVars, walletVars, AccountsKept, WalletKept
<1> QED BY <1>1, <1>2, <1>3, <1>4, <1>5 DEF ClientsNext

\* The invariant holds at first, and every step keeps it.
LEMMA MarginInitially == ClientsInit => MarginIInv
<1> SUFFICES ASSUME ClientsInit PROVE MarginIInv
    OBVIOUS
<1>1. WalletKeys \subseteq Keys
    BY ClientsAssumption DEF ClientsInit, Init, SerumMdInit, WalletKeys
<1>2. /\ account = [k \in Keys |-> 0] /\ toNotify = [k \in Keys |-> <<>>]
      /\ held = [k \in WalletKeys |-> 0] /\ wallet = NoWallet
    BY DEF ClientsInit, SerumMdInit, WalletInit
<1>3. \A k : 0 \in WalletVersions(k)
    BY VersionsAssumption DEF WalletVersions
<1>4. ASSUME NEW k \in WalletKeys
      PROVE  /\ account[k] \in Nat /\ 0 .. account[k] \subseteq WalletVersions(k)
             /\ toNotify[k] \in Seq(WalletVersions(k)) /\ held[k] \in WalletVersions(k)
  <2>1. account[k] = 0 /\ toNotify[k] = <<>> /\ held[k] = 0
      BY <1>1, <1>2
  <2> QED BY <1>3, <2>1
<1> QED BY <1>1, <1>2, <1>4 DEF MarginIInv

LEMMA MarginInductive == MarginIInv /\ [ClientsNext]_allVars => MarginIInv'
<1> SUFFICES ASSUME MarginIInv, [ClientsNext]_allVars PROVE MarginIInv'
    OBVIOUS
<1> DEFINE Had(k) == account[k] \in Nat /\ 0 .. account[k] \subseteq WalletVersions(k)
           Tells(k) == toNotify[k] \in Seq(WalletVersions(k))
           Held == /\ \A k \in WalletKeys : held[k] \in WalletVersions(k)
                   /\ wallet = NoWallet \/ wallet = WalletOf(held)
                   /\ DOMAIN held = WalletKeys
           Accounts == /\ \A k \in WalletKeys : Had(k) /\ Tells(k)
                       /\ DOMAIN account = Keys /\ DOMAIN toNotify = Keys
<1>1. Held /\ Accounts /\ WalletKeys \subseteq Keys
    BY DEF MarginIInv
<1>2. ASSUME Held', Accounts' PROVE MarginIInv'
    BY <1>1, <1>2 DEF MarginIInv
<1>3. ASSUME WalletKept PROVE Held'
    BY <1>1, <1>3 DEF WalletKept
<1>4. ASSUME AccountsKept PROVE Accounts'
    BY <1>1, <1>4 DEF AccountsKept
<1>5. ASSUME NEW l, l \notin WalletKeys, NEW what, AccountTold(l, what) PROVE Accounts'
  <2>1. DOMAIN account' = Keys /\ DOMAIN toNotify' = Keys
      BY <1>1, <1>5 DEF AccountTold
  <2>2. \A k \in WalletKeys : account'[k] = account[k] /\ toNotify'[k] = toNotify[k]
      BY <1>1, <1>5 DEF AccountTold
  <2> QED BY <1>1, <2>1, <2>2
<1>6. ASSUME NEW l \in WalletKeys, WalletAccountTold(l) PROVE Accounts'
  <2>1. DOMAIN account' = Keys /\ DOMAIN toNotify' = Keys
      BY <1>1, <1>6 DEF WalletAccountTold
  <2>2. \A k \in WalletKeys \ {l} : account'[k] = account[k] /\ toNotify'[k] = toNotify[k]
      BY <1>1, <1>6 DEF WalletAccountTold
  <2>3. account[l] + 1 \in WalletVersions(l) /\ account'[l] = account[l] + 1
      BY <1>1, <1>6 DEF WalletAccountTold
  <2>4. account[l] \in Nat /\ 0 .. account[l] \subseteq WalletVersions(l) /\ toNotify[l] \in Seq(WalletVersions(l))
      BY <1>1
  <2>5. toNotify'[l] = toNotify[l] \/ toNotify'[l] = Append(toNotify[l], account[l] + 1)
      BY <1>1, <1>6 DEF WalletAccountTold
  <2>6. toNotify'[l] \in Seq(WalletVersions(l))
    <3>1. Append(toNotify[l], account[l] + 1) \in Seq(WalletVersions(l))
        BY <2>3, <2>4, AppendProperties
    <3> QED BY <2>4, <2>5, <3>1
  <2>7. Had(l)'
    <3>1. 0 .. (account[l] + 1) = (0 .. account[l]) \cup {account[l] + 1}
        BY <2>4
    <3> QED BY <2>3, <2>4, <3>1 DEF WalletVersions
  <2> QED BY <1>1, <2>1, <2>2, <2>6, <2>7 DEF WalletVersions
<1>7. ASSUME NEW l, NotificationTaken(l) PROVE Accounts'
  <2>1. DOMAIN account' = Keys /\ DOMAIN toNotify' = Keys /\ account' = account
      BY <1>1, <1>7 DEF NotificationTaken
  <2>2. ASSUME NEW k \in WalletKeys PROVE Tells(k)'
    <3>1. toNotify[k] \in Seq(WalletVersions(k))
        BY <1>1
    <3>2. CASE k = l
      <4>1. toNotify'[k] = Tail(toNotify[k]) /\ toNotify[k] # <<>>
          BY <1>1, <1>7, <3>2 DEF NotificationTaken
      <4>2. Tail(toNotify[k]) \in Seq(WalletVersions(k))
          BY <3>1, <4>1, HeadTailProperties
      <4> QED BY <4>1, <4>2
    <3>3. CASE k # l
        BY <1>1, <1>7, <3>1, <3>3 DEF NotificationTaken
    <3> QED BY <3>2, <3>3
  <2> QED BY <1>1, <2>1, <2>2
<1>8. ASSUME NEW l \in WalletKeys, NotificationTaken(l), WalletTold([held EXCEPT ![l] = Head(toNotify[l])])
      PROVE  Held'
  <2>1. Head(toNotify[l]) \in WalletVersions(l)
    <3>1. toNotify[l] \in Seq(WalletVersions(l)) /\ toNotify[l] # <<>>
        BY <1>1, <1>8 DEF NotificationTaken
    <3> QED BY <3>1, HeadTailProperties
  <2>2. DOMAIN held' = WalletKeys /\ \A k \in WalletKeys : held'[k] \in WalletVersions(k)
      BY <1>1, <1>8, <2>1 DEF WalletTold
  <2>3. wallet' = WalletOf(held')
      BY <1>8 DEF WalletTold
  <2> QED BY <2>2, <2>3
<1>9. ASSUME NEW v \in [WalletKeys -> 0 .. MaxNotifications], DataOf(v), WalletTold(v) PROVE Held'
  <2>1. DOMAIN held' = WalletKeys /\ held' = v /\ wallet' = WalletOf(held')
      BY <1>9 DEF WalletTold
  <2>2. ASSUME NEW k \in WalletKeys PROVE v[k] \in WalletVersions(k)
    <3>1. v[k] \in Nat /\ v[k] =< account[k] /\ account[k] \in Nat /\ 0 .. account[k] \subseteq WalletVersions(k)
        BY <1>1, <1>9 DEF DataOf
    <3>2. v[k] \in 0 .. account[k]
        BY <3>1
    <3> QED BY <3>1, <3>2
  <2> QED BY <2>1, <2>2
<1> HIDE DEF Held, Accounts
<1> QED BY <1>2, <1>3, <1>4, <1>5, <1>6, <1>7, <1>8, <1>9, StepOfMargin

\* MarginIsOfHealth (do_update_positions): for any tokens, pairs, weights and versions of the
\* accounts, with any open orders in the margin basket, changed, told and asked for in any
\* order.
THEOREM MarginIsOfHealthHolds == ClientsSpec => []MarginIsOfHealth
<1>1. ASSUME MarginIInv PROVE MarginIsOfHealth
  <2> DEFINE holds == MangoAccounts[held["mango"]]
             cache == MangoCaches[held["cache"]]
             orders == [p \in DOMAIN TradingPairs |-> OpenOrders[held[OrdersKey[p]]]]
             components == HealthComponents(PositionComponent(holds, cache), holds, cache, orders)
             health == HealthOf(holds, cache, orders)
             OpenOf(t) == OpenOrders[held[OrdersKey[PairOf(t)]]]
             stated == SumFunction([t \in Tokens |-> ValueOf(holds, cache, OpenOf(t), t)])
  <2> SUFFICES ASSUME wallet # NoWallet, NEW p \in DOMAIN TradingPairs
               PROVE  wallet.marginAvailable[p]
                        = IF stated =< 0 THEN <<0, 1>>
                          ELSE <<stated, 100 - WeightOf(holds, cache, OpenOf(TradingPairs[p]), TradingPairs[p])>>
      BY DEF MarginIsOfHealth, ValueOf, WeightOf, BaseOf, QuoteOf, BidsMoveOf, BidsOf, AsksOf, PositionOf, Tokens
  <2>1. {"mango", "cache"} \subseteq WalletKeys /\ \A q \in DOMAIN TradingPairs : OrdersKey[q] \in WalletKeys \ {"mango", "cache"}
      BY VersionsAssumption DEF WalletKeys
  <2>2. held["mango"] \in DOMAIN MangoAccounts /\ held["cache"] \in DOMAIN MangoCaches /\ orders \in OrdersOfPairs
    <3>1. \A q \in DOMAIN TradingPairs : held[OrdersKey[q]] \in DOMAIN OpenOrders
        BY <1>1, <2>1 DEF MarginIInv, WalletVersions
    <3> QED BY <1>1, <2>1, <3>1 DEF MarginIInv, WalletVersions, OrdersOfPairs
  <2>3. HealthFromComponents(QuoteComponent(PositionComponent(holds, cache), components), components) = health
      BY <2>2, HealthIsOfPositions
  <2>4. MarginAvailable(health, components)[p]
          = IF health =< 0 THEN <<0, 1>> ELSE <<health, 100 - WeightOf(holds, cache, orders[p], TradingPairs[p])>>
      BY <2>2, MarginsOfHealth
  <2>5. wallet.marginAvailable = MarginAvailable(health, components)
    <3>1. wallet = WalletOf(held)
        BY <1>1 DEF MarginIInv
    <3> QED BY <2>3, <3>1 DEF WalletOf
  <2>6. stated = health
    <3>1. ASSUME NEW t \in Tokens
          PROVE  ValueOf(holds, cache, OpenOf(t), t) = ValueOf(holds, cache, orders[PairOf(t)], t)
      <4>1. CASE t = QuoteIndex
          BY <4>1 DEF ValueOf
      <4>2. CASE t # QuoteIndex
        <5>1. PICK c \in DOMAIN Currencies : t = Currencies[c]
            BY DEF Tokens
        <5>2. t \in Nat /\ PairOf(t) # 0
            BY <4>2, <5>1, MangoAssumption, ElementOfSeq, LenProperties DEF Spot
        <5>3. PairOf(t) \in DOMAIN TradingPairs
            BY <5>2, PairHasBase
        <5> QED BY <5>3
      <4> QED BY <4>1, <4>2
    <3> HIDE DEF holds, cache, orders, OpenOf
    <3> QED BY <3>1 DEF HealthOf
  <2>7. OpenOf(TradingPairs[p]) = orders[p]
      BY MangoAssumption
  <2> HIDE DEF holds, cache, orders, components, health, OpenOf, stated
  <2> QED BY <2>4, <2>5, <2>6, <2>7
<1> QED BY <1>1, MarginInitially, MarginInductive, PTL DEF ClientsSpec
==============================================================================
