--------------------------- MODULE AccountSubscriber ---------------------------
(***************************************************************************)
(* Solana/AccountSubscriber: one server subscription per account and       *)
(* commitment, shared by every call of account_subscribe for that key.     *)
(*                                                                         *)
(* The first call makes the request and the others sleep on the timer of   *)
(* its pending entry.  send_subscribe is module SolanaWsClient: it returns *)
(* an id or throws, and a notification comes only after it returned.  No   *)
(* account subscription is ever given up, so the server's ids are taken to *)
(* be distinct.                                                            *)
(***************************************************************************)
EXTENDS Integers, FiniteSets

CONSTANTS
    Calls,              \* calls of account_subscribe, each with its callback
    Keys,               \* pairs of account and commitment
    SubscriptionIds,    \* ids the server gives out
    MaxNotifications    \* bound: notifications handled per subscription

ASSUME MaxNotificationsAssumption == MaxNotifications \in Nat

VARIABLES
    pending,            \* _pendingAccountSubscriptions: timer and callbacks
    subscriptions,      \* _subscriptions: id to callbacks
    accountToCallback,  \* _accountToCallback: key to the id whose list it points to
    status,             \* where each call stands
    key,                \* the key each call asked for
    notified,           \* notifications handled per subscription
    requests            \* the keys, by call, that a request was sent for

vars == <<pending, subscriptions, accountToCallback, status, key, notified, requests>>

Pending == [expiryTimer : {"armed", "expired"}, callbacks : SUBSET Calls]

\* unordered_map::emplace: an entry already there stays as it is.
Emplace(f, k, v) == [i \in DOMAIN f \cup {k} |-> IF i \in DOMAIN f THEN f[i] ELSE v]

\* The calls asleep on the timer of k, once it is cancelled or runs out.
WakeWaiters(k, how) ==
    [c \in Calls |-> IF status[c] = "waiting" /\ key[c] = k THEN how ELSE status[c]]

Init ==
    /\ pending = [k \in {} |-> {}]
    /\ subscriptions = [i \in {} |-> {}]
    /\ accountToCallback = [k \in {} |-> {}]
    /\ status = [c \in Calls |-> "idle"]
    /\ key \in [Calls -> Keys]
    /\ notified = [i \in SubscriptionIds |-> 0]
    /\ requests = [k \in Keys |-> {}]

-----------------------------------------------------------------------------
\* Mutants: slips of the code that the properties below are there to catch.

\* Waiters are woken, as if subscribed, when the request of the first call throws.
SubscribeThrows_WakesWaiters(c) ==
    /\ status[c] = "requesting"
    /\ status' = [WakeWaiters(key[c], "aborted") EXCEPT ![c] = "failed"]
    /\ UNCHANGED <<pending, subscriptions, accountToCallback, key, notified, requests>>

\* The list of the subscription starts empty.
SubscribeReturns_CallbacksDropped(c, id) ==
    /\ status[c] = "requesting"
    /\ id \notin DOMAIN subscriptions
    /\ subscriptions' = Emplace(subscriptions, id, {})
    /\ accountToCallback' = Emplace(accountToCallback, key[c], id)
    /\ pending' = [pending EXCEPT ![key[c]].callbacks = {}]
    /\ status' = [WakeWaiters(key[c], "aborted") EXCEPT ![c] = "subscribed"]
    /\ UNCHANGED <<key, notified, requests>>

\* The timer is not set: waiters depend on the answer alone.
Expire_Never(k) ==
    /\ k \in DOMAIN pending
    /\ pending[k].expiryTimer = "expired"
    /\ UNCHANGED vars

-----------------------------------------------------------------------------
\* account_subscribe where no entry is pending and no subscription known.
FirstRequest(c) ==
    /\ pending' = Emplace(pending, key[c], [expiryTimer |-> "armed", callbacks |-> {c}])
    /\ status' = [status EXCEPT ![c] = "requesting"]
    /\ requests' = [requests EXCEPT ![key[c]] = @ \cup {c}]
    /\ UNCHANGED <<subscriptions, accountToCallback>>

\* account_subscribe where a subscription is known and no entry pending.
JoinSubscription(c) ==
    /\ subscriptions' = [subscriptions EXCEPT ![accountToCallback[key[c]]] = @ \cup {c}]
    /\ status' = [status EXCEPT ![c] = "subscribed"]
    /\ UNCHANGED <<pending, accountToCallback, requests>>

\* account_subscribe where an entry is pending: the callback is not kept.  The wait
\* on a timer that has run out ends at once, without an error code.
JoinPending(c) ==
    /\ status' = [status EXCEPT ![c] =
          IF pending[key[c]].expiryTimer = "armed" THEN "waiting" ELSE "timedOut"]
    /\ UNCHANGED <<pending, subscriptions, accountToCallback, requests>>

\* account_subscribe, up to its first suspension.
AccountSubscribe(c) ==
    /\ status[c] = "idle"
    /\ IF key[c] \in DOMAIN pending THEN JoinPending(c)
       ELSE IF key[c] \in DOMAIN accountToCallback THEN JoinSubscription(c)
       ELSE FirstRequest(c)
    /\ UNCHANGED <<key, notified>>

\* send_subscribe answers.  The pending entry stays, its callbacks moved away.
SubscribeReturns(c, id) ==
    /\ status[c] = "requesting"
    /\ id \notin DOMAIN subscriptions
    /\ subscriptions' = Emplace(subscriptions, id, pending[key[c]].callbacks)
    /\ accountToCallback' = Emplace(accountToCallback, key[c], id)
    /\ pending' = [pending EXCEPT ![key[c]].callbacks = {}]
    /\ status' = [WakeWaiters(key[c], "aborted") EXCEPT ![c] = "subscribed"]
    /\ UNCHANGED <<key, notified, requests>>

\* send_subscribe throws out of account_subscribe; nothing is cleaned up.
SubscribeThrows(c) ==
    /\ status[c] = "requesting"
    /\ status' = [status EXCEPT ![c] = "failed"]
    /\ UNCHANGED <<pending, subscriptions, accountToCallback, key, notified, requests>>

\* The 30 s of a pending entry run out; its deadline is never moved.
Expire(k) ==
    /\ k \in DOMAIN pending
    /\ pending[k].expiryTimer = "armed"
    /\ pending' = [pending EXCEPT ![k].expiryTimer = "expired"]
    /\ status' = WakeWaiters(k, "timedOut")
    /\ UNCHANGED <<subscriptions, accountToCallback, key, notified, requests>>

\* A call that waited resumes: aborted it succeeds, timed out it throws.
Resume(c) ==
    /\ status[c] \in {"aborted", "timedOut"}
    /\ status' = [status EXCEPT ![c] = IF @ = "aborted" THEN "subscribed" ELSE "failed"]
    /\ UNCHANGED <<pending, subscriptions, accountToCallback, key, notified, requests>>

\* do_handle_account_notification: every callback of the list is called.
Notify(id) ==
    /\ id \in DOMAIN subscriptions
    /\ notified[id] < MaxNotifications
    /\ notified' = [notified EXCEPT ![id] = @ + 1]
    /\ UNCHANGED <<pending, subscriptions, accountToCallback, status, key, requests>>

-----------------------------------------------------------------------------
\* A call that waited is told of success only if there is a subscription for its
\* key: the cancelled timer means just that to account_subscribe.
SuccessMeansSubscription ==
    \A c \in Calls : status[c] \in {"aborted", "subscribed"} => key[c] \in DOMAIN accountToCallback

\* Every call ends, whichever of answer, error and timer comes first: as each is made
\* once, there comes a time when none is under way.
EveryCallEnds == []<>(\A c \in Calls : status[c] \in {"idle", "subscribed", "failed"})
=============================================================================
