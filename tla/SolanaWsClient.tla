---------------------------- MODULE SolanaWsClient ----------------------------
(***************************************************************************)
(* Subscriptions of Solana/SolanaWsClient over the RPC WebSocket.          *)
(*                                                                         *)
(* Each active subscription has one do_notify coroutine, which sleeps on   *)
(* the expiry timer of the entry and is the only one to erase it; the      *)
(* entry and its coroutine are one record here.  on_notification and       *)
(* do_cancel cancel the timer to wake it, in vain once the timer has run   *)
(* out and the coroutine is queued.  A request to the server is the call   *)
(* of module RpcSocket: it returns an answer or throws, later.             *)
(* What the server sends is the environment; its notifications are         *)
(* numbered, 0 standing for a message that holds none.                     *)
(***************************************************************************)
EXTENDS Integers, Sequences

CONSTANTS
    Subscribers,        \* calls of send_subscribe, each with its callback
    SubscriptionIds,    \* the ids the server gives out, not necessarily unique
    MaxNotifications    \* bound: notifications sent by the server

ASSUME SubscriptionIdsAssumption == SubscriptionIds # {}
ASSUME MaxNotificationsAssumption == MaxNotifications \in Nat

VARIABLES
    activeSubscriptions,    \* _activeSubscriptions, with the state of each do_notify
    status,                 \* where each subscriber stands
    subscriptionId,         \* the id each subscriber was given, once it was
    delivered,              \* what the callback of each subscriber was called with
    notified,               \* environment: notifications sent so far
    again                   \* history: subscribers that cancelled when they had already

vars == <<activeSubscriptions, status, subscriptionId, delivered, notified, again>>

Nothing == 0

\* The entry emplaced for a subscriber; its do_notify waits at once.
NewSubscription(s) ==
    [owner |-> s, wait |-> "waiting", isCancelled |-> FALSE, message |-> Nothing]

Subscription == [owner : Subscribers,
                 wait : {"waiting", "aborted", "timedOut"},
                 isCancelled : BOOLEAN,
                 message : 0 .. MaxNotifications]

\* expiryTimer.cancel(): only a wait still pending is aborted.
CancelTimer(entry) ==
    [entry EXCEPT !.wait = IF @ = "waiting" THEN "aborted" ELSE @]

\* In force, as far as its owner can tell.
Subscribed(s) == status[s] \in {"subscribed", "unsubscribing"}

Without(f, id) == [i \in DOMAIN f \ {id} |-> f[i]]

Init ==
    /\ activeSubscriptions = [id \in {} |-> Nothing]
    /\ status = [s \in Subscribers |-> "idle"]
    /\ subscriptionId = [s \in Subscribers |-> CHOOSE id \in SubscriptionIds : TRUE]
    /\ delivered = [s \in Subscribers |-> <<>>]
    /\ notified = 0
    /\ again = {}

-----------------------------------------------------------------------------
\* Mutants: slips of the code that the properties below are there to catch.
SubscribeReturns_Replaces(s, id) ==
    /\ status[s] = "subscribing"
    /\ subscriptionId' = [subscriptionId EXCEPT ![s] = id]
    /\ status' = [status EXCEPT ![s] = "subscribed"]
    /\ activeSubscriptions' = [i \in DOMAIN activeSubscriptions \cup {id} |->
                  IF i = id THEN NewSubscription(s) ELSE activeSubscriptions[i]]
    /\ UNCHANGED <<delivered, notified, again>>

Expire_Aborts(id) ==
    /\ id \in DOMAIN activeSubscriptions
    /\ activeSubscriptions[id].wait = "waiting"
    /\ activeSubscriptions' = [activeSubscriptions EXCEPT ![id].wait = "aborted"]
    /\ UNCHANGED <<status, subscriptionId, delivered, notified, again>>

-----------------------------------------------------------------------------
\* send_subscribe, up to its wait for the answer.
Subscribe(s) ==
    /\ status[s] = "idle"
    /\ status' = [status EXCEPT ![s] = "subscribing"]
    /\ UNCHANGED <<activeSubscriptions, subscriptionId, delivered, notified, again>>

\* do_send_subscribe with the answer: an id in use is an error for the subscriber,
\* and the table stays as it is.
SubscribeReturns(s, id) ==
    /\ status[s] = "subscribing"
    /\ subscriptionId' = [subscriptionId EXCEPT ![s] = id]
    /\ IF id \in DOMAIN activeSubscriptions
       THEN /\ status' = [status EXCEPT ![s] = "failed"]
            /\ UNCHANGED activeSubscriptions
       ELSE /\ status' = [status EXCEPT ![s] = "subscribed"]
            /\ activeSubscriptions' = [i \in DOMAIN activeSubscriptions \cup {id} |->
                  IF i = id THEN NewSubscription(s) ELSE activeSubscriptions[i]]
    /\ UNCHANGED <<delivered, notified, again>>

SubscribeThrows(s) ==
    /\ status[s] = "subscribing"
    /\ status' = [status EXCEPT ![s] = "failed"]
    /\ UNCHANGED <<activeSubscriptions, subscriptionId, delivered, notified, again>>

\* send_unsubscribe, up to its wait for the answer.
Unsubscribe(s) ==
    /\ status[s] = "subscribed"
    /\ status' = [status EXCEPT ![s] = "unsubscribing"]
    /\ UNCHANGED <<activeSubscriptions, subscriptionId, delivered, notified, again>>

\* If the request throws, do_cancel is not reached and the subscription stays.
UnsubscribeThrows(s) ==
    /\ status[s] = "unsubscribing"
    /\ status' = [status EXCEPT ![s] = "subscribed"]
    /\ UNCHANGED <<activeSubscriptions, subscriptionId, delivered, notified, again>>

\* do_cancel: after the answer to an unsubscribe, or called by cancel_subscription,
\* and for a subscription that was cancelled before when a client does both or
\* repeats either.  It is given an id and strikes the entry of that id, of whoever
\* was given the id since; that owner is not told.
Cancel(s) ==
    LET id == subscriptionId[s]
        stands == id \in DOMAIN activeSubscriptions
    IN  /\ status[s] \in {"subscribed", "unsubscribing", "cancelled", "struck"}
        /\ status' = [t \in Subscribers |->
              IF ~Subscribed(t) THEN status[t]
              ELSE IF t = s THEN "cancelled"
              ELSE IF stands /\ t = activeSubscriptions[id].owner THEN "struck" ELSE status[t]]
        /\ activeSubscriptions' =
              IF stands
              THEN [activeSubscriptions EXCEPT
                       ![id] = CancelTimer([@ EXCEPT !.isCancelled = TRUE])]
              ELSE activeSubscriptions
        /\ again' = IF status[s] = "cancelled" THEN again \cup {s} ELSE again
        /\ UNCHANGED <<subscriptionId, delivered, notified>>

\* on_notification: the message replaces the one before.  A message for an unknown
\* id, or one that cannot be parsed, changes nothing and is left out.
OnNotification(id) ==
    /\ id \in DOMAIN activeSubscriptions
    /\ notified < MaxNotifications
    /\ notified' = notified + 1
    /\ activeSubscriptions' =
          [activeSubscriptions EXCEPT ![id] = CancelTimer([@ EXCEPT !.message = notified'])]
    /\ UNCHANGED <<status, subscriptionId, delivered, again>>

\* do_notify on an aborted wait: the callback is given the message, which is moved
\* out of the entry; the callback itself may cancel the subscription, and the flag
\* is looked at after it.  Then the entry is erased or waited on again.
Notify(id, callbackCancels) ==
    LET entry == activeSubscriptions[id]
    IN  /\ id \in DOMAIN activeSubscriptions
        /\ entry.wait = "aborted"
        /\ callbackCancels => status[entry.owner] = "subscribed"
        /\ status' = IF callbackCancels
                     THEN [status EXCEPT ![entry.owner] = "cancelled"] ELSE status
        /\ delivered' = [delivered EXCEPT ![entry.owner] = Append(@, entry.message)]
        /\ activeSubscriptions' =
              IF entry.isCancelled \/ callbackCancels
              THEN Without(activeSubscriptions, id)
              ELSE [activeSubscriptions EXCEPT ![id].message = Nothing,
                                               ![id].wait = "waiting"]
        /\ UNCHANGED <<subscriptionId, notified, again>>

\* do_notify when the timer ran out: it only waits again, whatever the entry holds.
NotifyTimedOut(id) ==
    /\ id \in DOMAIN activeSubscriptions
    /\ activeSubscriptions[id].wait = "timedOut"
    /\ activeSubscriptions' = [activeSubscriptions EXCEPT ![id].wait = "waiting"]
    /\ UNCHANGED <<status, subscriptionId, delivered, notified, again>>

\* notification_wait_interval() without a notification.
Expire(id) ==
    /\ id \in DOMAIN activeSubscriptions
    /\ activeSubscriptions[id].wait = "waiting"
    /\ activeSubscriptions' = [activeSubscriptions EXCEPT ![id].wait = "timedOut"]
    /\ UNCHANGED <<status, subscriptionId, delivered, notified, again>>

NotifyStep(id) == (\E b \in BOOLEAN : Notify(id, b)) \/ NotifyTimedOut(id)

Next ==
    \/ \E s \in Subscribers :
          \/ Subscribe(s) \/ SubscribeThrows(s) \/ Unsubscribe(s) \/ UnsubscribeThrows(s)
          \/ Cancel(s)
          \/ \E id \in SubscriptionIds : SubscribeReturns(s, id)
    \/ \E id \in SubscriptionIds : NotifyStep(id) \/ Expire(id) \/ OnNotification(id)

\* The strand runs every coroutine that is queued, and timers run out.
Fairness == \A id \in SubscriptionIds : WF_vars(NotifyStep(id)) /\ WF_vars(Expire(id))

Spec == Init /\ [][Next]_vars /\ Fairness

-----------------------------------------------------------------------------
\* Type invariant.
TypeOK ==
    /\ DOMAIN activeSubscriptions \subseteq SubscriptionIds
    /\ \A id \in DOMAIN activeSubscriptions : activeSubscriptions[id] \in Subscription
    /\ status \in [Subscribers -> {"idle", "subscribing", "subscribed", "unsubscribing",
                                   "cancelled", "struck", "failed"}]
    /\ subscriptionId \in [Subscribers -> SubscriptionIds]
    /\ delivered \in [Subscribers -> Seq(0 .. MaxNotifications)]
    /\ notified \in 0 .. MaxNotifications
    /\ again \subseteq Subscribers

\* A subscription in force has its entry, not cancelled, whatever ids the server
\* gives twice and however the cancellations of others are ordered: no two
\* subscribers share an id in use, and a duplicate never displaces an entry.
\* do_cancel looks at no owner, and may strike the entry of another: but only with
\* an id that a subscriber cancelled, was rid of, and then cancelled again.
OwnedUntilCancelled ==
    /\ \A s \in Subscribers : Subscribed(s) =>
          /\ subscriptionId[s] \in DOMAIN activeSubscriptions
          /\ activeSubscriptions[subscriptionId[s]].owner = s
    /\ \A id \in DOMAIN activeSubscriptions :
          activeSubscriptions[id].isCancelled <=> ~Subscribed(activeSubscriptions[id].owner)
    /\ \A s \in Subscribers : status[s] = "struck" =>
          \E r \in again : r # s /\ subscriptionId[r] = subscriptionId[s]

\* No callback is given a notification twice, or after a later one, although
\* notifications coalesce in the entry; and it is called without one only because of
\* a cancellation, its own or one that struck it, and then for the last time:
\* do_cancel wakes the coroutine as a notification does, and the message was moved
\* away before.
DeliveredInOrder ==
    \A s \in Subscribers : \A i \in DOMAIN delivered[s] :
       IF delivered[s][i] = Nothing
       THEN status[s] \in {"cancelled", "struck"} /\ i = Len(delivered[s])
       ELSE \A j \in 1 .. i - 1 : delivered[s][j] < delivered[s][i]
===============================================================================
