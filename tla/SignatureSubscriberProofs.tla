---------------------- MODULE SignatureSubscriberProofs ----------------------
(***************************************************************************)
(* Proofs about SolanaWsClient and SignatureSubscriber, for any            *)
(* subscribers and subscription ids.                                       *)
(***************************************************************************)
EXTENDS SignatureSubscriber, FiniteSetTheorems, TLAPS

\* An entry was emplaced for the id its owner was given, by a subscribe that
\* returned: a subscriber owns one entry at most, and none before it subscribed.
OwnersKnown ==
    \A id \in DOMAIN activeSubscriptions :
       LET s == activeSubscriptions[id].owner
       IN  subscriptionId[s] = id /\ status[s] \in {"subscribed", "unsubscribing", "cancelled",
                                              "struck"}

\* Whoever cancels again was rid of its subscription.
AgainKnown == \A r \in again : status[r] = "cancelled"

IInv == TypeOK /\ OwnersKnown /\ AgainKnown /\ OwnedUntilCancelled

-----------------------------------------------------------------------------
LEMMA CancelTimerFacts ==
    ASSUME NEW e \in Subscription
    PROVE  /\ CancelTimer(e) \in Subscription
           /\ CancelTimer(e).owner = e.owner
           /\ CancelTimer(e).isCancelled = e.isCancelled
           /\ CancelTimer([e EXCEPT !.isCancelled = TRUE]) \in Subscription
           /\ CancelTimer([e EXCEPT !.isCancelled = TRUE]).owner = e.owner
           /\ CancelTimer([e EXCEPT !.isCancelled = TRUE]).isCancelled = TRUE
BY DEF CancelTimer, Subscription

LEMMA AppendDelivered ==
    ASSUME TypeOK, NEW s \in Subscribers, NEW n \in 0 .. MaxNotifications
    PROVE  [delivered EXCEPT ![s] = Append(@, n)] \in [Subscribers -> Seq(0 .. MaxNotifications)]
<1>1. Append(delivered[s], n) \in Seq(0 .. MaxNotifications)
    BY DEF TypeOK
<1> QED BY <1>1 DEF TypeOK

LEMMA InitIInv == Init => IInv
BY SubscriptionIdsAssumption, MaxNotificationsAssumption
   DEF Init, IInv, TypeOK, OwnersKnown, AgainKnown, OwnedUntilCancelled, Subscribed

\* Requests that leave the table alone and neither begin nor end a subscription.
LEMMA RequestStep ==
    ASSUME IInv, NEW s \in Subscribers,
           Subscribe(s) \/ SubscribeThrows(s) \/ Unsubscribe(s) \/ UnsubscribeThrows(s)
    PROVE  IInv'
<1> USE DEF IInv
<1>1. /\ UNCHANGED <<activeSubscriptions, subscriptionId, delivered, notified, again>>
      /\ \A t \in Subscribers \ {s} : status'[t] = status[t]
      /\ \/ status[s] \in {"idle", "subscribing"} /\ status'[s] \in {"subscribing", "failed"}
         \/ Subscribed(s) /\ status'[s] \in {"subscribed", "unsubscribing"}
    BY DEF Subscribe, SubscribeThrows, Unsubscribe, UnsubscribeThrows, TypeOK, Subscribed
<1>2. TypeOK'
    BY DEF Subscribe, SubscribeThrows, Unsubscribe, UnsubscribeThrows, TypeOK
<1>3. OwnersKnown'
    BY <1>1 DEF OwnersKnown, TypeOK, Subscription
<1>4. \A t \in Subscribers :
         /\ Subscribed(t)' <=> Subscribed(t)
         /\ status[t] = "cancelled" <=> status'[t] = "cancelled"
         /\ status[t] = "struck" <=> status'[t] = "struck"
    BY <1>1 DEF Subscribed
<1>5. OwnedUntilCancelled'
    BY <1>1, <1>4 DEF OwnedUntilCancelled, TypeOK, Subscription
<1>6. AgainKnown'
    BY <1>1, <1>4 DEF AgainKnown, TypeOK
<1> QED BY <1>2, <1>3, <1>5, <1>6

LEMMA SubscribeReturnsStep ==
    ASSUME IInv, NEW s \in Subscribers, NEW id \in SubscriptionIds, SubscribeReturns(s, id)
    PROVE  IInv'
<1> USE DEF IInv
<1>1. /\ UNCHANGED <<delivered, notified, again>>
      /\ status[s] = "subscribing"
      /\ status'[s] \in {"subscribed", "failed"}
      /\ subscriptionId'[s] = id
      /\ \A t \in Subscribers \ {s} :
            status'[t] = status[t] /\ subscriptionId'[t] = subscriptionId[t]
    BY DEF SubscribeReturns, TypeOK
<1>2. \A i \in DOMAIN activeSubscriptions :
         activeSubscriptions[i].owner \in Subscribers \ {s}
    BY <1>1 DEF OwnersKnown, TypeOK, Subscription
<1>5. AgainKnown' /\ s \notin again
    BY <1>1 DEF AgainKnown, TypeOK
<1>6. \A t \in Subscribers : status'[t] = "struck" =>
         \E r \in again' : r # t /\ subscriptionId'[r] = subscriptionId'[t]
  <2> SUFFICES ASSUME NEW t \in Subscribers, status'[t] = "struck"
               PROVE  \E r \in again : r # t /\ subscriptionId'[r] = subscriptionId'[t]
    BY <1>1
  <2>1. t # s /\ status[t] = "struck"
    BY <1>1
  <2>2. PICK r \in again : r # t /\ subscriptionId[r] = subscriptionId[t]
    BY <2>1 DEF OwnedUntilCancelled
  <2>3. r \in Subscribers \ {s}
    BY <1>5 DEF TypeOK
  <2> QED BY <1>1, <2>1, <2>2, <2>3
<1>3. CASE id \in DOMAIN activeSubscriptions
  <2>1. UNCHANGED activeSubscriptions /\ status'[s] = "failed"
    BY <1>3 DEF SubscribeReturns, TypeOK
  <2>2. TypeOK'
    BY <1>3 DEF SubscribeReturns, TypeOK
  <2>3. OwnersKnown'
    BY <1>1, <1>2, <2>1 DEF OwnersKnown
  <2>4. OwnedUntilCancelled'
    BY <1>1, <1>2, <1>6, <2>1 DEF OwnedUntilCancelled, Subscribed
  <2> QED BY <1>5, <2>2, <2>3, <2>4
<1>4. CASE id \notin DOMAIN activeSubscriptions
  <2>1. /\ status'[s] = "subscribed"
        /\ DOMAIN activeSubscriptions' = DOMAIN activeSubscriptions \cup {id}
        /\ activeSubscriptions'[id] = NewSubscription(s)
        /\ \A i \in DOMAIN activeSubscriptions : activeSubscriptions'[i] = activeSubscriptions[i]
    BY <1>4 DEF SubscribeReturns, TypeOK
  <2>2. /\ NewSubscription(s) \in Subscription /\ NewSubscription(s).owner = s
        /\ NewSubscription(s).isCancelled = FALSE
    BY MaxNotificationsAssumption DEF NewSubscription, Subscription, Nothing
  <2>3. TypeOK'
    BY <1>4, <2>1, <2>2 DEF SubscribeReturns, TypeOK
  <2>4. OwnersKnown'
    BY <1>1, <1>2, <2>1, <2>2 DEF OwnersKnown
  <2>5. OwnedUntilCancelled'
    BY <1>1, <1>2, <1>6, <2>1, <2>2 DEF OwnedUntilCancelled, Subscribed
  <2> QED BY <1>5, <2>3, <2>4, <2>5
<1> QED BY <1>3, <1>4

\* What do_cancel does to the table: the entry of the id, whoever owns it.
LEMMA CancelTable ==
    ASSUME TypeOK, NEW s \in Subscribers, Cancel(s)
    PROVE  /\ DOMAIN activeSubscriptions' = DOMAIN activeSubscriptions
           /\ \A i \in DOMAIN activeSubscriptions :
                 /\ activeSubscriptions'[i] \in Subscription
                 /\ activeSubscriptions'[i].owner = activeSubscriptions[i].owner
                 /\ activeSubscriptions'[i].message = activeSubscriptions[i].message
                 /\ i # subscriptionId[s] => activeSubscriptions'[i] = activeSubscriptions[i]
                 /\ i = subscriptionId[s] => activeSubscriptions'[i].isCancelled = TRUE
<1> DEFINE id == subscriptionId[s]
<1>1. CASE id \in DOMAIN activeSubscriptions
  <2>1. /\ activeSubscriptions[id] \in Subscription
        /\ activeSubscriptions'[id] =
              CancelTimer([activeSubscriptions[id] EXCEPT !.isCancelled = TRUE])
        /\ DOMAIN activeSubscriptions' = DOMAIN activeSubscriptions
        /\ \A i \in DOMAIN activeSubscriptions \ {id} :
              activeSubscriptions'[i] = activeSubscriptions[i]
    BY <1>1 DEF Cancel, TypeOK
  <2>2. /\ CancelTimer([activeSubscriptions[id] EXCEPT !.isCancelled = TRUE]) \in Subscription
        /\ CancelTimer([activeSubscriptions[id] EXCEPT !.isCancelled = TRUE]).owner
              = activeSubscriptions[id].owner
        /\ CancelTimer([activeSubscriptions[id] EXCEPT !.isCancelled = TRUE]).isCancelled = TRUE
    BY <2>1, CancelTimerFacts, Zenon
  <2>3. CancelTimer([activeSubscriptions[id] EXCEPT !.isCancelled = TRUE]).message
          = activeSubscriptions[id].message
    BY <2>1 DEF CancelTimer, Subscription
  <2>4. \A i \in DOMAIN activeSubscriptions : activeSubscriptions[i] \in Subscription
    BY DEF TypeOK
  <2> QED BY <2>1, <2>2, <2>3, <2>4
<1>2. CASE id \notin DOMAIN activeSubscriptions
  <2>1. UNCHANGED activeSubscriptions
    BY <1>2 DEF Cancel
  <2> QED BY <1>2, <2>1 DEF TypeOK
<1> QED BY <1>1, <1>2

\* Whom it strikes: the canceller, if it was in force, and then no other, because the
\* entry is its own; otherwise the owner the id has by now, and somebody with that id
\* had cancelled it before and does or did it again.
LEMMA CancelStep ==
    ASSUME IInv, NEW s \in Subscribers, Cancel(s)
    PROVE  IInv'
<1> USE DEF IInv
<1> DEFINE id == subscriptionId[s]
           stands == id \in DOMAIN activeSubscriptions
<1>1. /\ UNCHANGED <<subscriptionId, delivered, notified>>
      /\ status[s] \in {"subscribed", "unsubscribing", "cancelled", "struck"}
      /\ again' = IF status[s] = "cancelled" THEN again \cup {s} ELSE again
      /\ \A t \in Subscribers : status'[t] =
            IF ~Subscribed(t) THEN status[t]
            ELSE IF t = s THEN "cancelled"
            ELSE IF stands /\ t = activeSubscriptions[id].owner THEN "struck" ELSE status[t]
    BY DEF Cancel
<1>2. /\ DOMAIN activeSubscriptions' = DOMAIN activeSubscriptions
      /\ \A i \in DOMAIN activeSubscriptions :
            /\ activeSubscriptions'[i] \in Subscription
            /\ activeSubscriptions'[i].owner = activeSubscriptions[i].owner
            /\ i # id => activeSubscriptions'[i] = activeSubscriptions[i]
            /\ i = id => activeSubscriptions'[i].isCancelled = TRUE
    BY CancelTable
<1>3. status' \in [Subscribers -> {"idle", "subscribing", "subscribed", "unsubscribing",
                                   "cancelled", "struck", "failed"}]
  <2>1. \A t \in Subscribers :
           status[t] \in {"idle", "subscribing", "subscribed", "unsubscribing",
                          "cancelled", "struck", "failed"}
    BY DEF TypeOK
  <2> QED BY <2>1 DEF Cancel
<1>4. TypeOK'
    BY <1>1, <1>2, <1>3 DEF TypeOK
<1>5. \A i \in DOMAIN activeSubscriptions : activeSubscriptions[i].owner \in Subscribers
    BY DEF TypeOK, Subscription
<1>6. OwnersKnown'
    BY <1>1, <1>2, <1>5 DEF OwnersKnown, Subscribed
<1>7. AgainKnown'
    BY <1>1 DEF AgainKnown, TypeOK, Subscribed
<1>8. Subscribed(s) => stands /\ activeSubscriptions[id].owner = s
    BY DEF OwnedUntilCancelled
<1>9. stands => subscriptionId[activeSubscriptions[id].owner] = id
    BY DEF OwnersKnown
<1>10. ASSUME NEW t \in Subscribers, Subscribed(t)'
       PROVE  /\ subscriptionId'[t] \in DOMAIN activeSubscriptions'
              /\ activeSubscriptions'[subscriptionId'[t]].owner = t
  <2>1. Subscribed(t)
    BY <1>1, <1>10 DEF Subscribed
  <2> QED BY <1>1, <1>2, <2>1 DEF OwnedUntilCancelled
<1>11. ASSUME NEW i \in DOMAIN activeSubscriptions'
       PROVE  activeSubscriptions'[i].isCancelled
                <=> ~ (status'[activeSubscriptions'[i].owner] \in {"subscribed", "unsubscribing"})
  <2>1. PICK t \in Subscribers : t = activeSubscriptions[i].owner
    BY <1>2, <1>5
  <2>2. CASE i = id
    <3>1. ~ (status'[t] \in {"subscribed", "unsubscribing"})
        BY <1>1, <1>2, <2>1, <2>2 DEF Subscribed
    <3> QED BY <1>2, <2>1, <2>2, <3>1
  <2>3. CASE i # id
    <3>1. t # s \/ ~Subscribed(t)
        BY <1>2, <2>1, <2>3 DEF OwnersKnown
    <3>2. stands => t # activeSubscriptions[id].owner
        BY <1>2, <1>9, <2>1, <2>3 DEF OwnersKnown
    <3>3. status'[t] = status[t]
        BY <1>1, <3>1, <3>2
    <3>4. activeSubscriptions[i].isCancelled <=> ~Subscribed(t)
        BY <1>2, <2>1 DEF OwnedUntilCancelled
    <3> QED BY <1>2, <2>1, <2>3, <3>3, <3>4 DEF Subscribed
  <2> QED BY <2>2, <2>3
<1>12. ASSUME NEW t \in Subscribers, status'[t] = "struck"
       PROVE  \E r \in again' : r # t /\ subscriptionId'[r] = subscriptionId'[t]
  <2>1. CASE status[t] = "struck"
    BY <1>1, <2>1 DEF OwnedUntilCancelled
  <2>2. CASE status[t] # "struck"
    <3>1. /\ Subscribed(t) /\ t # s /\ stands /\ t = activeSubscriptions[id].owner
          /\ subscriptionId[t] = id
        BY <1>1, <1>9, <1>12, <2>2
    <3>2. ~Subscribed(s)
        BY <1>8, <3>1
    <3>3. CASE status[s] = "cancelled"
      <4>1. s \in again'
        BY <1>1, <3>3
      <4> QED BY <1>1, <3>1, <4>1
    <3>4. CASE status[s] = "struck"
      <4>1. PICK r \in again : subscriptionId[r] = id
        BY <3>4 DEF OwnedUntilCancelled
      <4>2. status[r] = "cancelled" /\ r \in again'
        BY <1>1 DEF AgainKnown
      <4>3. r # t
        BY <3>1, <4>2 DEF Subscribed
      <4> QED BY <1>1, <3>1, <4>1, <4>2, <4>3
    <3> QED BY <1>1, <3>2, <3>3, <3>4 DEF Subscribed
  <2> QED BY <2>1, <2>2
<1>13. OwnedUntilCancelled'
    BY <1>10, <1>11, <1>12 DEF OwnedUntilCancelled, Subscribed
<1> QED BY <1>4, <1>6, <1>7, <1>13

\* Steps that change an entry, but neither its owner nor its flag.
LEMMA EntryStep ==
    ASSUME IInv, NEW id \in SubscriptionIds,
           UNCHANGED <<status, subscriptionId, again>>,
           delivered' \in [Subscribers -> Seq(0 .. MaxNotifications)],
           notified' \in 0 .. MaxNotifications,
           DOMAIN activeSubscriptions' = DOMAIN activeSubscriptions,
           \A i \in DOMAIN activeSubscriptions :
              /\ activeSubscriptions'[i] \in Subscription
              /\ activeSubscriptions'[i].owner = activeSubscriptions[i].owner
              /\ activeSubscriptions'[i].isCancelled = activeSubscriptions[i].isCancelled
    PROVE  IInv'
<1> USE DEF IInv
<1>1. TypeOK'
    BY DEF TypeOK
<1>2. OwnersKnown' /\ AgainKnown'
    BY DEF OwnersKnown, AgainKnown
<1>3. OwnedUntilCancelled'
    BY DEF OwnedUntilCancelled, Subscribed
<1> QED BY <1>1, <1>2, <1>3

LEMMA OnNotificationStep ==
    ASSUME IInv, NEW id \in SubscriptionIds, OnNotification(id)
    PROVE  IInv'
<1>1. /\ UNCHANGED <<status, subscriptionId, delivered, again>>
      /\ notified' \in 0 .. MaxNotifications
    BY MaxNotificationsAssumption DEF OnNotification, IInv, TypeOK
<1>2. /\ DOMAIN activeSubscriptions' = DOMAIN activeSubscriptions
      /\ activeSubscriptions'[id] =
            CancelTimer([activeSubscriptions[id] EXCEPT !.message = notified'])
      /\ \A i \in DOMAIN activeSubscriptions \ {id} :
            activeSubscriptions'[i] = activeSubscriptions[i]
    BY DEF OnNotification
<1>3. activeSubscriptions[id] \in Subscription
    BY DEF OnNotification, IInv, TypeOK
<1>4. /\ activeSubscriptions'[id] \in Subscription
      /\ activeSubscriptions'[id].owner = activeSubscriptions[id].owner
      /\ activeSubscriptions'[id].isCancelled = activeSubscriptions[id].isCancelled
    BY <1>1, <1>2, <1>3 DEF CancelTimer, Subscription
<1>5. \A i \in DOMAIN activeSubscriptions :
         /\ activeSubscriptions'[i] \in Subscription
         /\ activeSubscriptions'[i].owner = activeSubscriptions[i].owner
         /\ activeSubscriptions'[i].isCancelled = activeSubscriptions[i].isCancelled
    BY <1>2, <1>4 DEF IInv, TypeOK
<1>6. delivered' \in [Subscribers -> Seq(0 .. MaxNotifications)]
    BY <1>1 DEF IInv, TypeOK
<1> QED BY <1>1, <1>2, <1>5, <1>6, EntryStep

LEMMA TimerStep ==
    ASSUME IInv, NEW id \in SubscriptionIds, NotifyTimedOut(id) \/ Expire(id)
    PROVE  IInv'
<1>1. PICK w \in {"waiting", "timedOut"} :
         /\ id \in DOMAIN activeSubscriptions
         /\ activeSubscriptions' = [activeSubscriptions EXCEPT ![id].wait = w]
         /\ UNCHANGED <<status, subscriptionId, delivered, notified, again>>
    BY DEF NotifyTimedOut, Expire
<1>2. /\ DOMAIN activeSubscriptions' = DOMAIN activeSubscriptions
      /\ \A i \in DOMAIN activeSubscriptions :
            /\ activeSubscriptions'[i] \in Subscription
            /\ activeSubscriptions'[i].owner = activeSubscriptions[i].owner
            /\ activeSubscriptions'[i].isCancelled = activeSubscriptions[i].isCancelled
    BY <1>1 DEF IInv, TypeOK, Subscription
<1> QED BY <1>1, <1>2, EntryStep DEF IInv, TypeOK

LEMMA NotifyStepIInv ==
    ASSUME IInv, NEW id \in SubscriptionIds, NEW b \in BOOLEAN, Notify(id, b)
    PROVE  IInv'
<1> USE DEF IInv
<1> DEFINE entry == activeSubscriptions[id]
<1>1. /\ id \in DOMAIN activeSubscriptions /\ entry \in Subscription
      /\ UNCHANGED <<subscriptionId, notified, again>>
    BY DEF Notify, TypeOK
<1>2. delivered' \in [Subscribers -> Seq(0 .. MaxNotifications)]
    BY <1>1, AppendDelivered DEF Notify, Subscription
<1>3. CASE ~entry.isCancelled /\ ~b
  <2>1. /\ UNCHANGED status
        /\ activeSubscriptions' = [activeSubscriptions EXCEPT ![id].message = Nothing,
                                                              ![id].wait = "waiting"]
    BY <1>3 DEF Notify
  <2>2. /\ DOMAIN activeSubscriptions' = DOMAIN activeSubscriptions
        /\ \A i \in DOMAIN activeSubscriptions :
              /\ activeSubscriptions'[i] \in Subscription
              /\ activeSubscriptions'[i].owner = activeSubscriptions[i].owner
              /\ activeSubscriptions'[i].isCancelled = activeSubscriptions[i].isCancelled
    <3>1. /\ DOMAIN activeSubscriptions' = DOMAIN activeSubscriptions
          /\ activeSubscriptions'[id] = [entry EXCEPT !.message = Nothing, !.wait = "waiting"]
          /\ \A i \in DOMAIN activeSubscriptions \ {id} :
                activeSubscriptions'[i] = activeSubscriptions[i]
        BY <1>1, <2>1
    <3>2. activeSubscriptions'[id] =
             [owner |-> entry.owner, wait |-> "waiting",
              isCancelled |-> entry.isCancelled, message |-> Nothing]
        BY <1>1, <3>1 DEF Subscription
    <3>3. activeSubscriptions'[id] \in Subscription
        BY <1>1, <3>2, MaxNotificationsAssumption DEF Subscription, Nothing
    <3> QED BY <1>1, <3>1, <3>2, <3>3 DEF TypeOK
  <2> QED BY <1>1, <1>2, <2>1, <2>2, EntryStep DEF TypeOK
<1>4. CASE entry.isCancelled \/ b
  <2>1. /\ DOMAIN activeSubscriptions' = DOMAIN activeSubscriptions \ {id}
        /\ \A i \in DOMAIN activeSubscriptions' : activeSubscriptions'[i] = activeSubscriptions[i]
    BY <1>4 DEF Notify, Without
  <2>2. PICK s \in Subscribers : s = entry.owner
    BY <1>1 DEF Subscription
  <2>3. /\ status'[s] \in {"cancelled", "struck"}
        /\ status[s] = "cancelled" => status'[s] = "cancelled"
        /\ status'[s] = "struck" => status[s] = "struck"
        /\ \A t \in Subscribers \ {s} : status'[t] = status[t]
        /\ status' \in [Subscribers -> {"idle", "subscribing", "subscribed", "unsubscribing",
                                        "cancelled", "struck", "failed"}]
    <3>1. CASE b
      <4>1. status' = [status EXCEPT ![s] = "cancelled"]
        BY <2>2, <3>1 DEF Notify
      <4>2. status[s] # "cancelled"
        BY <2>2, <3>1 DEF Notify
      <4> QED BY <4>1, <4>2 DEF TypeOK
    <3>2. CASE ~b
      <4>1. UNCHANGED status
        BY <3>2 DEF Notify
      <4>2. status[s] \in {"cancelled", "struck"}
        BY <1>1, <1>4, <2>2, <3>2 DEF OwnedUntilCancelled, OwnersKnown, Subscribed
      <4> QED BY <4>1, <4>2 DEF TypeOK
    <3> QED BY <3>1, <3>2
  <2>4. \A i \in DOMAIN activeSubscriptions' :
           activeSubscriptions'[i].owner \in Subscribers \ {s}
    BY <1>1, <2>1, <2>2 DEF OwnersKnown, TypeOK, Subscription
  <2>5. TypeOK'
    BY <1>1, <1>2, <2>1, <2>3 DEF TypeOK
  <2>6. OwnersKnown'
    BY <1>1, <2>1, <2>3, <2>4 DEF OwnersKnown
  <2>7. \A t \in Subscribers : Subscribed(t)' => t # s /\ Subscribed(t)
    BY <2>3 DEF Subscribed
  <2>8. \A t \in Subscribers \ {s} : Subscribed(t)' <=> Subscribed(t)
    BY <2>3 DEF Subscribed
  <2>9. \A t \in Subscribers : Subscribed(t)' =>
           /\ subscriptionId'[t] \in DOMAIN activeSubscriptions'
           /\ activeSubscriptions'[subscriptionId'[t]].owner = t
    BY <1>1, <2>1, <2>2, <2>7 DEF OwnedUntilCancelled
  <2>10. \A i \in DOMAIN activeSubscriptions' :
            activeSubscriptions'[i].isCancelled <=> status'[activeSubscriptions'[i].owner] \notin
                                                     {"subscribed", "unsubscribing"}
    BY <2>1, <2>3, <2>4 DEF OwnedUntilCancelled, Subscribed
  <2>11. AgainKnown'
    BY <1>1, <2>3 DEF AgainKnown, TypeOK
  <2>12. \A t \in Subscribers : status'[t] = "struck" =>
            \E r \in again' : r # t /\ subscriptionId'[r] = subscriptionId'[t]
    BY <1>1, <2>3 DEF OwnedUntilCancelled
  <2>13. OwnedUntilCancelled'
    BY <2>9, <2>10, <2>12 DEF OwnedUntilCancelled, Subscribed
  <2> QED BY <2>5, <2>6, <2>11, <2>13
<1> QED BY <1>3, <1>4

LEMMA NextIInv == IInv /\ [Next]_vars => IInv'
<1> SUFFICES ASSUME IInv, [Next]_vars PROVE IInv'
    OBVIOUS
<1>1. ASSUME NEW s \in Subscribers,
             Subscribe(s) \/ SubscribeThrows(s) \/ Unsubscribe(s) \/ UnsubscribeThrows(s)
      PROVE  IInv'
    BY <1>1, RequestStep
<1>2. ASSUME NEW s \in Subscribers, Cancel(s) PROVE IInv'
    BY <1>2, CancelStep
<1>3. ASSUME NEW s \in Subscribers, NEW id \in SubscriptionIds, SubscribeReturns(s, id)
      PROVE  IInv'
    BY <1>3, SubscribeReturnsStep
<1>4. ASSUME NEW id \in SubscriptionIds, NotifyStep(id) \/ Expire(id) PROVE IInv'
    BY <1>4, NotifyStepIInv, TimerStep DEF NotifyStep
<1>5. ASSUME NEW id \in SubscriptionIds, OnNotification(id) PROVE IInv'
    BY <1>5, OnNotificationStep
<1>6. CASE UNCHANGED vars
    BY <1>6 DEF vars, IInv, TypeOK, OwnersKnown, AgainKnown, OwnedUntilCancelled, Subscribed
<1> QED BY <1>1, <1>2, <1>3, <1>4, <1>5, <1>6 DEF Next

THEOREM Invariance == Spec => []IInv
BY InitIInv, NextIInv, PTL DEF Spec

\* The type invariant of the client.
THEOREM TypeCorrect == Spec => []TypeOK
BY Invariance, PTL DEF IInv

\* _activeSubscriptions keeps the entry of every subscription in force, for its
\* owner alone, until it is cancelled, by its owner or by one who cancels the same id
\* again.
THEOREM SubscriptionsOwned == Spec => []OwnedUntilCancelled
BY Invariance, PTL DEF IInv

-----------------------------------------------------------------------------
\* What an entry holds is newer than what its owner was given, which is then no
\* empty message yet, and a notification or a cancellation is why it was woken.
MessagesNewer ==
    /\ \A id \in DOMAIN activeSubscriptions :
          LET e == activeSubscriptions[id]
          IN  /\ e.message <= notified
              /\ e.wait = "aborted" /\ ~e.isCancelled => e.message # Nothing
              /\ \A j \in DOMAIN delivered[e.owner] :
                    /\ delivered[e.owner][j] # Nothing
                    /\ e.message # Nothing => delivered[e.owner][j] < e.message
    /\ \A s \in Subscribers : \A j \in DOMAIN delivered[s] : delivered[s][j] <= notified
    /\ \A s \in Subscribers : status[s] \in {"idle", "subscribing"} => delivered[s] = <<>>

DeliveryIInv == IInv /\ MessagesNewer /\ DeliveredInOrder

LEMMA InitDelivery == Init => DeliveryIInv
<1>1. Init => MessagesNewer /\ DeliveredInOrder
    BY DEF Init, MessagesNewer, DeliveredInOrder
<1> QED BY <1>1, InitIInv DEF DeliveryIInv

\* Steps that call no callback: an entry keeps its message, takes the latest one, or
\* is new, of a subscriber whose callback was not called yet.
LEMMA QuietStep ==
    ASSUME DeliveryIInv, IInv', delivered' = delivered, notified <= notified',
           \A t \in Subscribers :
              /\ status'[t] \in {"idle", "subscribing"} => status[t] \in {"idle", "subscribing"}
              /\ status[t] \in {"cancelled", "struck"} => status'[t] \in {"cancelled", "struck"},
           \A i \in DOMAIN activeSubscriptions' :
              LET f == activeSubscriptions'[i]
              IN  \/ /\ i \in DOMAIN activeSubscriptions
                     /\ f.owner = activeSubscriptions[i].owner
                     /\ f.wait = "aborted" /\ ~f.isCancelled => f.message # Nothing
                     /\ \/ f.message = activeSubscriptions[i].message
                        \/ notified < f.message /\ f.message = notified'
                  \/ /\ f.message = Nothing /\ f.wait # "aborted"
                     /\ delivered[f.owner] = <<>>
    PROVE  DeliveryIInv'
<1> USE DEF DeliveryIInv
<1>1. /\ notified \in Int /\ notified' \in Int
      /\ \A s \in Subscribers : delivered[s] \in Seq(Nat)
      /\ \A i \in DOMAIN activeSubscriptions : activeSubscriptions[i] \in Subscription
      /\ \A i \in DOMAIN activeSubscriptions' : activeSubscriptions'[i] \in Subscription
    BY MaxNotificationsAssumption DEF IInv, TypeOK
<1>2. ASSUME NEW i \in DOMAIN activeSubscriptions', NEW f, f = activeSubscriptions'[i]
      PROVE  /\ f.message <= notified'
             /\ f.wait = "aborted" /\ ~f.isCancelled => f.message # Nothing
             /\ \A j \in DOMAIN delivered[f.owner] :
                   /\ delivered[f.owner][j] # Nothing
                   /\ f.message # Nothing => delivered[f.owner][j] < f.message
  <2>1. f.owner \in Subscribers /\ f.message \in Nat
    BY <1>1, <1>2 DEF Subscription
  <2>2. \A j \in DOMAIN delivered[f.owner] :
           delivered[f.owner][j] \in Nat /\ delivered[f.owner][j] <= notified
    BY <1>1, <2>1 DEF MessagesNewer
  <2>3. CASE /\ i \in DOMAIN activeSubscriptions
             /\ f.owner = activeSubscriptions[i].owner
             /\ f.wait = "aborted" /\ ~f.isCancelled => f.message # Nothing
             /\ \/ f.message = activeSubscriptions[i].message
                \/ notified < f.message /\ f.message = notified'
    <3>1. /\ activeSubscriptions[i].message <= notified
          /\ \A j \in DOMAIN delivered[f.owner] :
                /\ delivered[f.owner][j] # Nothing
                /\ activeSubscriptions[i].message # Nothing
                      => delivered[f.owner][j] < activeSubscriptions[i].message
        BY <2>3 DEF MessagesNewer
    <3>2. f.message <= notified'
        BY <1>1, <2>1, <2>3, <3>1
    <3> QED BY <1>1, <2>1, <2>2, <2>3, <3>1, <3>2
  <2>4. CASE f.message = Nothing /\ f.wait # "aborted" /\ delivered[f.owner] = <<>>
    <3>1. 0 <= notified'
        BY MaxNotificationsAssumption DEF IInv, TypeOK
    <3> QED BY <2>4, <3>1 DEF Nothing
  <2> QED BY <1>2, <2>3, <2>4
<1>3. \A s \in Subscribers : \A j \in DOMAIN delivered[s] : delivered[s][j] <= notified'
  <2> SUFFICES ASSUME NEW s \in Subscribers, NEW j \in DOMAIN delivered[s]
               PROVE  delivered[s][j] <= notified'
    OBVIOUS
  <2>1. delivered[s][j] <= notified /\ delivered[s][j] \in Int
    BY <1>1 DEF MessagesNewer
  <2> QED BY <1>1, <2>1
<1>4. \A s \in Subscribers : status'[s] \in {"idle", "subscribing"} => delivered[s] = <<>>
    BY DEF MessagesNewer
<1>5. MessagesNewer'
    BY <1>2, <1>3, <1>4 DEF MessagesNewer
<1>6. DeliveredInOrder'
    BY DEF DeliveredInOrder
<1> QED BY <1>5, <1>6

\* Requests, and timers: no entry takes a message, and none is woken.
LEMMA RequestDelivery ==
    ASSUME DeliveryIInv, NEW s \in Subscribers,
           Subscribe(s) \/ SubscribeThrows(s) \/ Unsubscribe(s) \/ UnsubscribeThrows(s)
    PROVE  DeliveryIInv'
<1>1. IInv'
    BY RequestStep DEF DeliveryIInv
<1>2. /\ UNCHANGED <<activeSubscriptions, delivered, notified>>
      /\ \A t \in Subscribers :
            /\ status'[t] \in {"idle", "subscribing"} => status[t] \in {"idle", "subscribing"}
            /\ status[t] \in {"cancelled", "struck"} => status'[t] \in {"cancelled", "struck"}
    BY DEF Subscribe, SubscribeThrows, Unsubscribe, UnsubscribeThrows, DeliveryIInv, IInv, TypeOK
<1>3. notified <= notified'
    BY <1>2 DEF DeliveryIInv, IInv, TypeOK
<1> QED BY <1>1, <1>2, <1>3, QuietStep DEF DeliveryIInv, MessagesNewer

LEMMA SubscribeReturnsDelivery ==
    ASSUME DeliveryIInv, NEW s \in Subscribers, NEW id \in SubscriptionIds,
           SubscribeReturns(s, id)
    PROVE  DeliveryIInv'
<1>1. IInv'
    BY SubscribeReturnsStep DEF DeliveryIInv
<1>2. /\ UNCHANGED <<delivered, notified>>
      /\ \A t \in Subscribers :
            /\ status'[t] \in {"idle", "subscribing"} => status[t] \in {"idle", "subscribing"}
            /\ status[t] \in {"cancelled", "struck"} => status'[t] \in {"cancelled", "struck"}
    BY DEF SubscribeReturns, DeliveryIInv, IInv, TypeOK
<1>3. notified <= notified'
    BY <1>2 DEF DeliveryIInv, IInv, TypeOK
<1>4. CASE id \in DOMAIN activeSubscriptions
  <2>1. UNCHANGED activeSubscriptions
    BY <1>4 DEF SubscribeReturns
  <2> QED BY <1>1, <1>2, <1>3, <2>1, QuietStep DEF DeliveryIInv, MessagesNewer
<1>5. CASE id \notin DOMAIN activeSubscriptions
  <2>1. /\ DOMAIN activeSubscriptions' = DOMAIN activeSubscriptions \cup {id}
        /\ activeSubscriptions'[id] = NewSubscription(s)
        /\ \A i \in DOMAIN activeSubscriptions : activeSubscriptions'[i] = activeSubscriptions[i]
    BY <1>5 DEF SubscribeReturns
  <2>2. delivered[s] = <<>>
    BY DEF DeliveryIInv, MessagesNewer, SubscribeReturns
  <2>3. /\ NewSubscription(s).message = Nothing /\ NewSubscription(s).wait # "aborted"
        /\ NewSubscription(s).owner = s
    BY DEF NewSubscription
  <2>4. \A i \in DOMAIN activeSubscriptions :
           activeSubscriptions[i].wait = "aborted" /\ ~activeSubscriptions[i].isCancelled
             => activeSubscriptions[i].message # Nothing
    BY DEF DeliveryIInv, MessagesNewer
  <2> QED BY <1>1, <1>2, <1>3, <2>1, <2>2, <2>3, <2>4, QuietStep
<1> QED BY <1>4, <1>5

LEMMA CancelDelivery ==
    ASSUME DeliveryIInv, NEW s \in Subscribers, Cancel(s)
    PROVE  DeliveryIInv'
<1>1. IInv'
    BY CancelStep DEF DeliveryIInv
<1>2. /\ DOMAIN activeSubscriptions' = DOMAIN activeSubscriptions
      /\ \A i \in DOMAIN activeSubscriptions :
            /\ activeSubscriptions'[i].owner = activeSubscriptions[i].owner
            /\ activeSubscriptions'[i].message = activeSubscriptions[i].message
            /\ activeSubscriptions'[i] = activeSubscriptions[i] \/ activeSubscriptions'[i].isCancelled
    BY CancelTable DEF DeliveryIInv, IInv
<1>3. UNCHANGED delivered /\ notified <= notified'
    BY DEF Cancel, DeliveryIInv, IInv, TypeOK
<1>4. \A t \in Subscribers :
         /\ status'[t] \in {"idle", "subscribing"} => status[t] \in {"idle", "subscribing"}
         /\ status[t] \in {"cancelled", "struck"} => status'[t] \in {"cancelled", "struck"}
    BY DEF Cancel, Subscribed
<1>5. \A i \in DOMAIN activeSubscriptions :
         activeSubscriptions[i].wait = "aborted" /\ ~activeSubscriptions[i].isCancelled
           => activeSubscriptions[i].message # Nothing
    BY DEF DeliveryIInv, MessagesNewer
<1> QED BY <1>1, <1>2, <1>3, <1>4, <1>5, QuietStep

LEMMA OnNotificationDelivery ==
    ASSUME DeliveryIInv, NEW id \in SubscriptionIds, OnNotification(id)
    PROVE  DeliveryIInv'
<1>1. IInv'
    BY OnNotificationStep DEF DeliveryIInv
<1>2. /\ UNCHANGED <<status, subscriptionId, delivered>>
      /\ notified' = notified + 1
      /\ notified \in Nat
      /\ notified' \in 0 .. MaxNotifications
    BY MaxNotificationsAssumption DEF OnNotification, DeliveryIInv, IInv, TypeOK
<1>3. /\ notified <= notified' /\ notified < notified' /\ notified' # Nothing
    BY <1>2 DEF Nothing
<1>4. \A i \in DOMAIN activeSubscriptions :
         activeSubscriptions[i].wait = "aborted" /\ ~activeSubscriptions[i].isCancelled
           => activeSubscriptions[i].message # Nothing
    BY DEF DeliveryIInv, MessagesNewer
<1>5. /\ activeSubscriptions[id] \in Subscription
      /\ activeSubscriptions'[id] =
            CancelTimer([activeSubscriptions[id] EXCEPT !.message = notified'])
      /\ DOMAIN activeSubscriptions' = DOMAIN activeSubscriptions
      /\ \A i \in DOMAIN activeSubscriptions \ {id} :
            activeSubscriptions'[i] = activeSubscriptions[i]
    BY DEF OnNotification, DeliveryIInv, IInv, TypeOK
<1>6. activeSubscriptions'[id].owner = activeSubscriptions[id].owner
    BY <1>2, <1>5 DEF CancelTimer, Subscription
<1>7. activeSubscriptions'[id].message = notified'
    BY <1>2, <1>5 DEF CancelTimer, Subscription
<1> QED BY <1>1, <1>2, <1>3, <1>4, <1>5, <1>6, <1>7, QuietStep

LEMMA TimerDelivery ==
    ASSUME DeliveryIInv, NEW id \in SubscriptionIds, NotifyTimedOut(id) \/ Expire(id)
    PROVE  DeliveryIInv'
<1>1. IInv'
    BY TimerStep DEF DeliveryIInv
<1>2. PICK w \in {"waiting", "timedOut"} :
         /\ id \in DOMAIN activeSubscriptions
         /\ activeSubscriptions' = [activeSubscriptions EXCEPT ![id].wait = w]
         /\ UNCHANGED <<status, subscriptionId, delivered, notified>>
    BY DEF NotifyTimedOut, Expire
<1>3. /\ DOMAIN activeSubscriptions' = DOMAIN activeSubscriptions
      /\ \A i \in DOMAIN activeSubscriptions :
            /\ activeSubscriptions'[i].owner = activeSubscriptions[i].owner
            /\ activeSubscriptions'[i].isCancelled = activeSubscriptions[i].isCancelled
            /\ activeSubscriptions'[i].message = activeSubscriptions[i].message
            /\ activeSubscriptions'[i].wait = "aborted" => activeSubscriptions[i].wait = "aborted"
    BY <1>2 DEF DeliveryIInv, IInv, TypeOK, Subscription
<1>4. \A i \in DOMAIN activeSubscriptions :
         activeSubscriptions[i].wait = "aborted" /\ ~activeSubscriptions[i].isCancelled
           => activeSubscriptions[i].message # Nothing
    BY DEF DeliveryIInv, MessagesNewer
<1>5. notified <= notified'
    BY <1>2 DEF DeliveryIInv, IInv, TypeOK
<1> QED BY <1>1, <1>2, <1>3, <1>4, <1>5, QuietStep

LEMMA NotifyDelivery ==
    ASSUME DeliveryIInv, NEW id \in SubscriptionIds, NEW b \in BOOLEAN, Notify(id, b)
    PROVE  DeliveryIInv'
<1> DEFINE entry == activeSubscriptions[id]
<1>1. IInv'
    BY NotifyStepIInv DEF DeliveryIInv
<1>2. /\ id \in DOMAIN activeSubscriptions /\ entry \in Subscription
      /\ entry.wait = "aborted"
      /\ UNCHANGED <<subscriptionId, notified>>
      /\ b => status[entry.owner] = "subscribed"
      /\ status' = IF b THEN [status EXCEPT ![entry.owner] = "cancelled"] ELSE status
    BY DEF Notify, DeliveryIInv, IInv, TypeOK
<1>3. PICK s \in Subscribers : s = entry.owner
    BY <1>2 DEF Subscription
<1>4. PICK m \in Nat : m = entry.message
    BY <1>2 DEF Subscription
<1>5. /\ \A t \in Subscribers \ {s} : delivered'[t] = delivered[t]
      /\ delivered[s] \in Seq(Nat)
      /\ delivered'[s] = Append(delivered[s], m)
    BY <1>3, <1>4, MaxNotificationsAssumption DEF Notify, DeliveryIInv, IInv, TypeOK
<1>6. /\ m <= notified
      /\ ~entry.isCancelled => m # Nothing
      /\ \A j \in DOMAIN delivered[s] :
            /\ delivered[s][j] # Nothing
            /\ m # Nothing => delivered[s][j] < m
    BY <1>2, <1>3, <1>4 DEF DeliveryIInv, MessagesNewer
<1>7. m = Nothing => /\ entry.isCancelled /\ ~b
                     /\ status[s] \in {"cancelled", "struck"} /\ status'[s] = status[s]
    BY <1>2, <1>3, <1>6 DEF DeliveryIInv, IInv, OwnedUntilCancelled, OwnersKnown, Subscribed
<1>8. \A t \in Subscribers :
         /\ status'[t] \in {"idle", "subscribing"} => t # s /\ status[t] = status'[t]
         /\ status[t] \in {"cancelled", "struck"} => status'[t] \in {"cancelled", "struck"}
    BY <1>2, <1>3 DEF DeliveryIInv, IInv, OwnersKnown, TypeOK
<1>9. \A i \in DOMAIN activeSubscriptions' :
         \/ /\ i \in DOMAIN activeSubscriptions \ {id}
            /\ activeSubscriptions'[i] = activeSubscriptions[i]
            /\ activeSubscriptions[i].owner \in Subscribers \ {s}
         \/ /\ m # Nothing
            /\ activeSubscriptions'[i].owner = s
            /\ activeSubscriptions'[i].message = Nothing
            /\ activeSubscriptions'[i].wait = "waiting"
  <2>1. \A i \in DOMAIN activeSubscriptions \ {id} :
           activeSubscriptions[i].owner \in Subscribers \ {s}
    BY <1>2, <1>3 DEF DeliveryIInv, IInv, OwnersKnown, TypeOK, Subscription
  <2>2. CASE entry.isCancelled \/ b
    <3>1. activeSubscriptions' = Without(activeSubscriptions, id)
        BY <2>2 DEF Notify
    <3> QED BY <2>1, <3>1 DEF Without
  <2>3. CASE ~(entry.isCancelled \/ b)
    <3>1. activeSubscriptions' = [activeSubscriptions EXCEPT ![id].message = Nothing,
                                                             ![id].wait = "waiting"]
        BY <2>3 DEF Notify
    <3>2. /\ DOMAIN activeSubscriptions' = DOMAIN activeSubscriptions
          /\ activeSubscriptions'[id] = [entry EXCEPT !.message = Nothing, !.wait = "waiting"]
          /\ \A i \in DOMAIN activeSubscriptions \ {id} :
                activeSubscriptions'[i] = activeSubscriptions[i]
        BY <1>2, <3>1
    <3>3. /\ activeSubscriptions'[id].owner = s
          /\ activeSubscriptions'[id].message = Nothing
          /\ activeSubscriptions'[id].wait = "waiting"
        BY <1>2, <1>3, <3>2 DEF Subscription
    <3> QED BY <1>7, <2>1, <2>3, <3>2, <3>3
  <2> QED BY <2>2, <2>3
<1> HIDE DEF entry
<1>10. /\ Len(delivered'[s]) = Len(delivered[s]) + 1
       /\ Len(delivered[s]) \in Nat
       /\ DOMAIN delivered[s] = 1 .. Len(delivered[s])
       /\ DOMAIN delivered'[s] = 1 .. Len(delivered[s]) + 1
       /\ delivered'[s][Len(delivered[s]) + 1] = m
       /\ \A j \in 1 .. Len(delivered[s]) : delivered'[s][j] = delivered[s][j]
    BY <1>5
<1>11. MessagesNewer'
  <2>1. \A j \in DOMAIN delivered'[s] : m # Nothing => delivered'[s][j] # Nothing
    <3>1. \A j \in 1 .. Len(delivered[s]) + 1 :
             j \in 1 .. Len(delivered[s]) \/ j = Len(delivered[s]) + 1
        BY <1>10
    <3> QED BY <1>6, <1>10, <3>1
  <2>2. ASSUME NEW i \in DOMAIN activeSubscriptions', NEW f, f = activeSubscriptions'[i]
        PROVE  /\ f.message <= notified'
               /\ f.wait = "aborted" /\ ~f.isCancelled => f.message # Nothing
               /\ \A j \in DOMAIN delivered'[f.owner] :
                     /\ delivered'[f.owner][j] # Nothing
                     /\ f.message # Nothing => delivered'[f.owner][j] < f.message
    <3>1. CASE /\ i \in DOMAIN activeSubscriptions \ {id}
               /\ f = activeSubscriptions[i]
               /\ f.owner \in Subscribers \ {s}
      <4>1. f.message <= notified
          BY <3>1, Zenon DEF DeliveryIInv, MessagesNewer
      <4>2. delivered'[f.owner] = delivered[f.owner]
          BY <1>5, <3>1
      <4>3. f.message \in Int /\ notified \in Int /\ notified' \in Int
          BY <1>2, <3>1, MaxNotificationsAssumption DEF DeliveryIInv, IInv, TypeOK, Subscription
      <4>4. /\ f.wait = "aborted" /\ ~f.isCancelled => f.message # Nothing
            /\ \A j \in DOMAIN delivered[f.owner] :
                  /\ delivered[f.owner][j] # Nothing
                  /\ f.message # Nothing => delivered[f.owner][j] < f.message
          BY <3>1, Zenon DEF DeliveryIInv, MessagesNewer
      <4>5. f.message <= notified'
          BY <1>2, <4>1, <4>3
      <4> QED BY <4>2, <4>4, <4>5
    <3>2. CASE m # Nothing /\ f.owner = s /\ f.message = Nothing /\ f.wait = "waiting"
      <4>1. 0 <= notified'
        BY <1>2, MaxNotificationsAssumption DEF DeliveryIInv, IInv, TypeOK
      <4> QED BY <2>1, <3>2, <4>1 DEF Nothing
    <3> QED BY <1>9, <2>2, <3>1, <3>2
  <2>3. \A t \in Subscribers : \A j \in DOMAIN delivered'[t] : delivered'[t][j] <= notified'
    <3>1. \A t \in Subscribers : \A j \in DOMAIN delivered[t] : delivered[t][j] <= notified
        BY DEF DeliveryIInv, MessagesNewer
    <3>2. \A j \in 1 .. Len(delivered[s]) + 1 :
             j \in 1 .. Len(delivered[s]) \/ j = Len(delivered[s]) + 1
        BY <1>10
    <3>3. \A j \in DOMAIN delivered'[s] : delivered'[s][j] <= notified
        BY <1>6, <1>10, <3>1, <3>2
    <3> QED BY <1>2, <1>5, <3>1, <3>3
  <2>4. \A t \in Subscribers : status'[t] \in {"idle", "subscribing"} => delivered'[t] = <<>>
    BY <1>5, <1>8 DEF DeliveryIInv, MessagesNewer
  <2> QED BY <2>2, <2>3, <2>4 DEF MessagesNewer
<1>12. DeliveredInOrder'
  <2> SUFFICES ASSUME NEW t \in Subscribers, NEW i \in DOMAIN delivered'[t]
               PROVE  IF delivered'[t][i] = Nothing
                      THEN status'[t] \in {"cancelled", "struck"} /\ i = Len(delivered'[t])
                      ELSE \A j \in 1 .. i - 1 : delivered'[t][j] < delivered'[t][i]
    BY DEF DeliveredInOrder
  <2>1. CASE t # s
    <3>1. delivered'[t] = delivered[t]
        BY <1>5, <2>1
    <3> QED BY <1>8, <3>1 DEF DeliveryIInv, DeliveredInOrder
  <2>2. CASE t = s /\ i \in 1 .. Len(delivered[s])
    <3>1. delivered[s][i] # Nothing /\ delivered'[s][i] = delivered[s][i]
        BY <1>6, <1>10, <2>2
    <3>2. \A j \in 1 .. i - 1 : delivered[s][j] < delivered[s][i]
        BY <1>10, <2>2, <3>1 DEF DeliveryIInv, DeliveredInOrder
    <3>3. \A j \in 1 .. i - 1 : j \in 1 .. Len(delivered[s])
        BY <1>10, <2>2
    <3> QED BY <1>10, <2>2, <3>1, <3>2, <3>3
  <2>3. CASE t = s /\ i = Len(delivered[s]) + 1
    <3>1. delivered'[t][i] = m
        BY <1>10, <2>3
    <3>2. CASE m = Nothing
        BY <1>7, <1>10, <2>3, <3>1, <3>2
    <3>3. CASE m # Nothing
      <4>1. \A j \in 1 .. i - 1 : j \in 1 .. Len(delivered[s])
        BY <1>10, <2>3
      <4>2. \A j \in 1 .. i - 1 : delivered'[s][j] < m
        BY <1>6, <1>10, <3>3, <4>1
      <4> QED BY <2>3, <3>1, <3>3, <4>2
    <3> QED BY <3>2, <3>3
  <2> QED BY <1>10, <2>1, <2>2, <2>3
<1> QED BY <1>1, <1>11, <1>12 DEF DeliveryIInv

LEMMA NextDelivery == DeliveryIInv /\ [Next]_vars => DeliveryIInv'
<1> SUFFICES ASSUME DeliveryIInv, [Next]_vars PROVE DeliveryIInv'
    OBVIOUS
<1>1. ASSUME NEW s \in Subscribers,
             Subscribe(s) \/ SubscribeThrows(s) \/ Unsubscribe(s) \/ UnsubscribeThrows(s)
      PROVE  DeliveryIInv'
    BY <1>1, RequestDelivery
<1>2. ASSUME NEW s \in Subscribers, Cancel(s) PROVE DeliveryIInv'
    BY <1>2, CancelDelivery
<1>3. ASSUME NEW s \in Subscribers, NEW id \in SubscriptionIds, SubscribeReturns(s, id)
      PROVE  DeliveryIInv'
    BY <1>3, SubscribeReturnsDelivery
<1>4. ASSUME NEW id \in SubscriptionIds, NotifyStep(id) \/ Expire(id) PROVE DeliveryIInv'
    BY <1>4, NotifyDelivery, TimerDelivery DEF NotifyStep
<1>5. ASSUME NEW id \in SubscriptionIds, OnNotification(id) PROVE DeliveryIInv'
    BY <1>5, OnNotificationDelivery
<1>6. CASE UNCHANGED vars
  <2>1. IInv'
    BY <1>6, NextIInv DEF DeliveryIInv
  <2>2. MessagesNewer' /\ DeliveredInOrder'
    BY <1>6 DEF vars, DeliveryIInv, MessagesNewer, DeliveredInOrder
  <2> QED BY <2>1, <2>2 DEF DeliveryIInv
<1> QED BY <1>1, <1>2, <1>3, <1>4, <1>5, <1>6 DEF Next

THEOREM Delivery == Spec => []DeliveryIInv
BY InitDelivery, NextDelivery, PTL DEF Spec

\* No callback is given a notification twice or after a later one, and an empty one
\* only for a cancellation, at the end.
THEOREM NotificationsInOrder == Spec => []DeliveredInOrder
BY Delivery, PTL DEF DeliveryIInv

-----------------------------------------------------------------------------
\* A strand that holds handlers of G alone, and one that does up to handler x.
All(strand, G) == \A i \in DOMAIN strand : strand[i] \in G

UpTo(strand, x, G) ==
    \E r \in DOMAIN strand : strand[r] = x /\ \A i \in 1 .. r : strand[i] \in G

LEMMA StrandRuns ==
    ASSUME NEW H, NEW s \in Seq(H), s # <<>>, NEW x, NEW G
    PROVE  /\ Head(s) \in H /\ Tail(s) \in Seq(H)
           /\ All(s, G) => Head(s) \in G /\ All(Tail(s), G)
           /\ UpTo(s, x, G) => Head(s) \in G
           /\ UpTo(s, x, G) /\ Head(s) # x => UpTo(Tail(s), x, G)
<1>1. /\ Head(s) = s[1] /\ Len(s) \in Nat \ {0}
      /\ DOMAIN s = 1 .. Len(s) /\ DOMAIN Tail(s) = 1 .. Len(s) - 1
      /\ \A i \in 1 .. Len(s) - 1 : Tail(s)[i] = s[i + 1] /\ i + 1 \in 1 .. Len(s)
      /\ Head(s) \in H /\ Tail(s) \in Seq(H)
    OBVIOUS
<1>2. All(s, G) => Head(s) \in G /\ All(Tail(s), G)
    BY <1>1 DEF All
<1>3. ASSUME UpTo(s, x, G) PROVE Head(s) \in G /\ (Head(s) # x => UpTo(Tail(s), x, G))
  <2>1. PICK r \in 1 .. Len(s) : s[r] = x /\ \A i \in 1 .. r : s[i] \in G
    BY <1>1, <1>3 DEF UpTo
  <2>2. Head(s) \in G
    BY <1>1, <2>1
  <2>3. ASSUME Head(s) # x PROVE UpTo(Tail(s), x, G)
    <3>1. r - 1 \in 1 .. Len(s) - 1 /\ (r - 1) + 1 = r
        BY <1>1, <2>1, <2>3
    <3>2. Tail(s)[r - 1] = x
        BY <1>1, <2>1, <3>1
    <3>3. ASSUME NEW i \in 1 .. r - 1 PROVE Tail(s)[i] \in G
      <4>1. i \in 1 .. Len(s) - 1 /\ i + 1 \in 1 .. r
        BY <1>1, <2>1
      <4> QED BY <1>1, <2>1, <4>1
    <3> QED BY <1>1, <3>1, <3>2, <3>3 DEF UpTo
  <2> QED BY <2>2, <2>3
<1> QED BY <1>1, <1>2, <1>3

LEMMA StrandGrows ==
    ASSUME NEW H, NEW s \in Seq(H), NEW t \in Seq(H), NEW x, NEW G
    PROVE  /\ s \o t \in Seq(H)
           /\ All(s, G) /\ All(t, G) => All(s \o t, G)
           /\ UpTo(s, x, G) => UpTo(s \o t, x, G)
           /\ All(s, G) /\ All(t, G) /\ (\E i \in DOMAIN t : t[i] = x) => UpTo(s \o t, x, G)
<1>1. /\ s \o t \in Seq(H)
      /\ Len(s) \in Nat /\ Len(t) \in Nat
      /\ DOMAIN s = 1 .. Len(s) /\ DOMAIN t = 1 .. Len(t)
      /\ DOMAIN (s \o t) = 1 .. Len(s) + Len(t)
      /\ \A i \in 1 .. Len(s) + Len(t) :
            IF i <= Len(s) THEN i \in 1 .. Len(s) /\ (s \o t)[i] = s[i]
            ELSE i - Len(s) \in 1 .. Len(t) /\ (s \o t)[i] = t[i - Len(s)]
    OBVIOUS
<1>2. All(s, G) /\ All(t, G) => All(s \o t, G)
    BY <1>1 DEF All
<1>3. ASSUME UpTo(s, x, G) PROVE UpTo(s \o t, x, G)
  <2>1. PICK r \in 1 .. Len(s) : s[r] = x /\ \A i \in 1 .. r : s[i] \in G
    BY <1>1, <1>3 DEF UpTo
  <2>2. r \in 1 .. Len(s) + Len(t) /\ r <= Len(s)
    BY <1>1
  <2>3. ASSUME NEW i \in 1 .. r PROVE (s \o t)[i] \in G
    <3>1. i \in 1 .. Len(s) + Len(t) /\ i <= Len(s)
        BY <1>1
    <3> QED BY <1>1, <2>1, <3>1
  <2> QED BY <1>1, <2>1, <2>2, <2>3 DEF UpTo
<1>4. ASSUME All(s, G), All(t, G), NEW i \in DOMAIN t, t[i] = x PROVE UpTo(s \o t, x, G)
  <2>1. Len(s) + i \in 1 .. Len(s) + Len(t) /\ ~(Len(s) + i <= Len(s)) /\ (Len(s) + i) - Len(s) = i
    BY <1>1
  <2>2. (s \o t)[Len(s) + i] = x
    BY <1>1, <1>4, <2>1
  <2>3. \A j \in 1 .. Len(s) + i : j \in 1 .. Len(s) + Len(t)
    BY <1>1
  <2>4. \A j \in 1 .. Len(s) + i : (s \o t)[j] \in G
    BY <1>1, <1>2, <1>4, <2>3 DEF All
  <2> QED BY <1>1, <2>1, <2>2, <2>4 DEF UpTo
<1> QED BY <1>1, <1>2, <1>3, <1>4

Handlers == [kind : {"notify"}, id : SubscriptionIds, call : SignatureCalls,
             message : 0 .. MaxNotifications]
              \cup [kind : {"resume"}, call : SignatureCalls]

Resumption(s) == [kind |-> "resume", call |-> s]

\* Every call that waits is queued when the timer of its entry is cancelled.
LEMMA EveryWaiterResumes ==
    ASSUME NEW id
    PROVE  /\ Resumptions(id) \in Seq(Handlers)
           /\ \A i \in DOMAIN Resumptions(id) : Resumptions(id)[i].kind = "resume"
           /\ \A s \in Waiters(id) :
                 \E i \in DOMAIN Resumptions(id) : Resumptions(id)[i] = Resumption(s)
<1> DEFINE W == Waiters(id)
           n == Cardinality(W)
           calls == SetToSeq(W)
<1>1. W \subseteq SignatureCalls
    BY DEF Waiters
<1>2. IsFiniteSet(W)
    BY <1>1, SignatureCallsAssumption, FS_Subset
<1>3. n \in Nat /\ ExistsBijection(1 .. n, W)
    BY <1>2, FS_CardinalityType
<1>4. \E f \in [1 .. n -> W] : IsInjective(f)
    BY <1>3 DEF ExistsBijection, Bijection, Injection
<1>5. calls \in [1 .. n -> W] /\ IsInjective(calls)
    BY <1>4 DEF SetToSeq
<1>6. IsFiniteSet(1 .. n) /\ Cardinality(1 .. n) = n
    BY <1>3, FS_Interval
<1>7. calls \in Injection(1 .. n, W)
    BY <1>5 DEF Injection
<1> HIDE DEF calls, n, W
<1>8. calls \in Surjection(1 .. n, W)
    BY <1>2, <1>6, <1>7, FS_Injection DEF n
<1>9. \A s \in W : \E i \in 1 .. n : calls[i] = s
    BY <1>8 DEF Surjection
<1>10. Resumptions(id) = [i \in 1 .. n |-> Resumption(calls[i])]
    BY <1>5 DEF Resumptions, calls, W, Resumption
<1>11. \A i \in 1 .. n : Resumption(calls[i]) \in Handlers
    BY <1>1, <1>5 DEF Resumption, Handlers
<1>12. Resumptions(id) \in Seq(Handlers)
    BY <1>3, <1>10, <1>11
<1>13. \A i \in DOMAIN Resumptions(id) : Resumptions(id)[i].kind = "resume"
    BY <1>10 DEF Resumption
<1> QED BY <1>9, <1>10, <1>12, <1>13 DEF W

SigTypeOK ==
    /\ DOMAIN subscriptions \subseteq SubscriptionIds
    /\ \A id \in DOMAIN subscriptions :
          subscriptions[id] \in [expired : BOOLEAN, notification : 0 .. MaxNotifications]
    /\ wait \in [SignatureCalls -> {"none", "waiting", "aborted", "timedOut"}]
    /\ sigStrand \in Seq(Handlers)
    /\ cancels \in Seq(SignatureCalls)
    /\ verdict \in [SignatureCalls -> Timeout .. MaxNotifications]
    /\ reused \subseteq Subscribers

\* Call s was given an id, which is no longer awaited and whose entry is kept.
Given(s) ==
    /\ status[s] \in {"subscribed", "cancelled", "struck"}
    /\ subscriptionId[s] \in DOMAIN subscriptions

\* Entries are never erased, so that a queued handler finds its own, and a call
\* that waits does it on the entry of the id it was given.
EntriesKept ==
    /\ \A i \in DOMAIN sigStrand : sigStrand[i].kind = "notify" =>
          Given(sigStrand[i].call) /\ sigStrand[i].id = subscriptionId[sigStrand[i].call]
    /\ \A i \in DOMAIN cancels : Given(cancels[i])
    /\ \A id \in DOMAIN activeSubscriptions :
          activeSubscriptions[id].owner \in SignatureCalls =>
             Given(activeSubscriptions[id].owner)
    /\ \A s \in SignatureCalls : wait[s] # "none" => Given(s)

\* n is a notification that call s was given.
Own(s, n) == n # Nothing /\ Contains(delivered[s], n)

\* The handlers that do not bring call s a notification of another.
OwnHandlers(s) ==
    {h \in Handlers : h.kind = "notify" /\ h.id = subscriptionId[s] => Own(s, h.message)}

\* While a call waits its subscription is in force and nothing queued cancels it;
\* whatever is queued for its entry was given to it.  Once it is woken, that holds of
\* what the entry holds and of what is queued ahead of the coroutine, since only the
\* handling of a notification wakes it.
WokenByOwn(s) ==
    /\ wait[s] = "waiting" =>
          /\ status[s] = "subscribed"
          /\ \A i \in DOMAIN cancels : subscriptionId[cancels[i]] # subscriptionId[s]
          /\ All(sigStrand, OwnHandlers(s))
    /\ wait[s] = "aborted" =>
          /\ Own(s, subscriptions[subscriptionId[s]].notification)
          /\ UpTo(sigStrand, Resumption(s), OwnHandlers(s))

VerdictIInv ==
    /\ SigTypeOK /\ EntriesKept /\ VerdictIsOwn
    /\ \A s \in SignatureCalls \ reused : status[s] # "struck" => WokenByOwn(s)

LEMMA SigInitVerdict == SigInit => VerdictIInv
BY SignatureCallsAssumption, MaxNotificationsAssumption
   DEF SigInit, Init, VerdictIInv, SigTypeOK, EntriesKept, VerdictIsOwn, WokenByOwn,
       Pending, Timeout

\* Steps of the client that give no call of signature_subscribe a notification, and
\* end no subscription of a call that waits except by striking it.
LEMMA ClientQuiet ==
    ASSUME VerdictIInv, UNCHANGED sigVars, UNCHANGED subscriptionId,
           \A s \in SignatureCalls :
              /\ delivered'[s] = delivered[s]
              /\ status[s] = "struck" => status'[s] = "struck"
              /\ status[s] \in {"subscribed", "cancelled"} => status'[s] \in {status[s], "struck"},
           \A id \in DOMAIN activeSubscriptions' :
              /\ id \in DOMAIN activeSubscriptions
              /\ activeSubscriptions'[id].owner = activeSubscriptions[id].owner
    PROVE  VerdictIInv'
<1> USE DEF VerdictIInv, sigVars
<1>1. SigTypeOK'
    BY DEF SigTypeOK
<1>2. EntriesKept'
  <2>1. \A s \in SignatureCalls : Given(s) => Given(s)'
    BY DEF Given
  <2>2. \A i \in DOMAIN sigStrand : sigStrand[i].kind = "notify" =>
           sigStrand[i].call \in SignatureCalls
    BY DEF SigTypeOK, Handlers
  <2>3. \A i \in DOMAIN cancels : cancels[i] \in SignatureCalls
    BY DEF SigTypeOK
  <2> QED BY <2>1, <2>2, <2>3 DEF EntriesKept
<1>3. \A s \in SignatureCalls : \A n : Own(s, n)' <=> Own(s, n)
    BY DEF Own
<1>4. VerdictIsOwn'
    BY DEF VerdictIsOwn
<1>5. \A s \in SignatureCalls : OwnHandlers(s)' = OwnHandlers(s)
    BY <1>3 DEF OwnHandlers
<1>6. ASSUME NEW s \in SignatureCalls \ reused, status'[s] # "struck" PROVE WokenByOwn(s)'
  <2>1. OwnHandlers(s)' = OwnHandlers(s)
    BY <1>5
  <2>2. WokenByOwn(s)
    BY <1>6
  <2>3. wait[s] = "waiting" => status'[s] = status[s]
    BY <1>6, <2>2 DEF WokenByOwn
  <2> QED BY <1>3, <2>1, <2>2, <2>3 DEF WokenByOwn
<1> QED BY <1>1, <1>2, <1>4, <1>6

LEMMA WsStepVerdict ==
    ASSUME DeliveryIInv, VerdictIInv, WsStep, UNCHANGED sigVars
    PROVE  VerdictIInv'
<1> USE DEF DeliveryIInv, IInv, TypeOK
<1> DEFINE Quiet ==
       /\ UNCHANGED subscriptionId
       /\ \A s \in SignatureCalls :
             /\ delivered'[s] = delivered[s]
             /\ status[s] = "struck" => status'[s] = "struck"
             /\ status[s] \in {"subscribed", "cancelled"} => status'[s] \in {status[s], "struck"}
       /\ \A id \in DOMAIN activeSubscriptions' :
             /\ id \in DOMAIN activeSubscriptions
             /\ activeSubscriptions'[id].owner = activeSubscriptions[id].owner
<1>1. \A s \in SignatureCalls : s \in Subscribers
    BY SignatureCallsAssumption
<1>2. ASSUME NEW s \in Subscribers, Subscribe(s) \/ SubscribeThrows(s) PROVE Quiet
    BY <1>1, <1>2 DEF Subscribe, SubscribeThrows
<1>3. ASSUME NEW s \in Subscribers \ SignatureCalls, OtherClient(s) PROVE Quiet
  <2>1. CASE Unsubscribe(s) \/ UnsubscribeThrows(s)
    BY <1>1, <2>1 DEF Unsubscribe, UnsubscribeThrows
  <2>2. CASE Cancel(s)
    <3>1. /\ UNCHANGED <<subscriptionId, delivered>>
          /\ \A t \in SignatureCalls : status'[t] = status[t] \/ (Subscribed(t) /\ status'[t] = "struck")
      <4>1. status' = [t \in Subscribers |->
               IF ~Subscribed(t) THEN status[t]
               ELSE IF t = s THEN "cancelled"
               ELSE IF subscriptionId[s] \in DOMAIN activeSubscriptions
                       /\ t = activeSubscriptions[subscriptionId[s]].owner
                    THEN "struck" ELSE status[t]]
        BY <2>2 DEF Cancel
      <4>2. UNCHANGED <<subscriptionId, delivered>>
        BY <2>2 DEF Cancel
      <4> HIDE DEF DeliveryIInv, IInv, TypeOK
      <4> QED BY <1>1, <1>3, <4>1, <4>2
    <3>2. \A i \in DOMAIN activeSubscriptions' :
             /\ i \in DOMAIN activeSubscriptions
             /\ activeSubscriptions'[i].owner = activeSubscriptions[i].owner
        BY <2>2, CancelTable
    <3> QED BY <1>1, <3>1, <3>2 DEF Subscribed
  <2> QED BY <1>3, <2>1, <2>2 DEF OtherClient
<1>4. ASSUME NEW id \in SubscriptionIds, OtherNotify(id) PROVE Quiet
  <2>1. PICK b \in BOOLEAN : Notify(id, b) /\ activeSubscriptions[id].owner \notin SignatureCalls
    BY <1>4 DEF OtherNotify
  <2>2. PICK s \in Subscribers \ SignatureCalls : s = activeSubscriptions[id].owner
    BY <2>1 DEF Notify, Subscription
  <2>3. /\ UNCHANGED subscriptionId
        /\ \A t \in Subscribers \ {s} : delivered'[t] = delivered[t] /\ status'[t] = status[t]
    BY <2>1, <2>2 DEF Notify
  <2>4. \A i \in DOMAIN activeSubscriptions' :
           /\ i \in DOMAIN activeSubscriptions
           /\ activeSubscriptions'[i].owner = activeSubscriptions[i].owner
    <3>1. CASE activeSubscriptions' = Without(activeSubscriptions, id)
        BY <3>1 DEF Without
    <3>2. CASE activeSubscriptions' = [activeSubscriptions EXCEPT ![id].message = Nothing,
                                                                  ![id].wait = "waiting"]
      <4>1. /\ DOMAIN activeSubscriptions' = DOMAIN activeSubscriptions
            /\ \A i \in DOMAIN activeSubscriptions \ {id} :
                  activeSubscriptions'[i] = activeSubscriptions[i]
            /\ id \in DOMAIN activeSubscriptions
            /\ activeSubscriptions'[id] =
                  [activeSubscriptions[id] EXCEPT !.message = Nothing, !.wait = "waiting"]
        BY <2>1, <3>2 DEF Notify
      <4>2. activeSubscriptions'[id].owner = activeSubscriptions[id].owner
        BY <4>1 DEF Subscription
      <4> QED BY <4>1, <4>2
    <3> QED BY <2>1, <3>1, <3>2 DEF Notify
  <2> QED BY <1>1, <2>3, <2>4
<1>5. ASSUME NEW id \in SubscriptionIds, NotifyTimedOut(id) \/ Expire(id) PROVE Quiet
  <2>1. PICK w \in {"waiting", "timedOut"} :
           /\ activeSubscriptions' = [activeSubscriptions EXCEPT ![id].wait = w]
           /\ UNCHANGED <<status, subscriptionId, delivered, notified>>
    BY <1>5 DEF NotifyTimedOut, Expire
  <2>2. /\ DOMAIN activeSubscriptions' = DOMAIN activeSubscriptions
        /\ \A i \in DOMAIN activeSubscriptions :
              activeSubscriptions'[i].owner = activeSubscriptions[i].owner
    BY <2>1 DEF Subscription
  <2> QED BY <2>1, <2>2
<1>6. ASSUME NEW id \in SubscriptionIds, OnNotification(id) PROVE Quiet
  <2>1. UNCHANGED <<subscriptionId, status, delivered>>
    BY <1>6 DEF OnNotification
  <2>2. /\ activeSubscriptions[id] \in Subscription
        /\ activeSubscriptions'[id] =
              CancelTimer([activeSubscriptions[id] EXCEPT !.message = notified'])
        /\ DOMAIN activeSubscriptions' = DOMAIN activeSubscriptions
        /\ \A i \in DOMAIN activeSubscriptions \ {id} :
              activeSubscriptions'[i] = activeSubscriptions[i]
    BY <1>6 DEF OnNotification
  <2>3. notified' \in 0 .. MaxNotifications
    BY <1>6, MaxNotificationsAssumption DEF OnNotification
  <2>4. activeSubscriptions'[id].owner = activeSubscriptions[id].owner
    BY <2>2, <2>3 DEF CancelTimer, Subscription
  <2> QED BY <2>1, <2>2, <2>4
<1>7. Quiet
    BY <1>2, <1>3, <1>4, <1>5, <1>6 DEF WsStep
<1> HIDE DEF DeliveryIInv, IInv, TypeOK
<1> QED BY <1>7, ClientQuiet

\* A signature's own notification: it goes to the end of the strand, behind any
\* coroutine of the call that was woken before it.
LEMMA NotifySignatureVerdict ==
    ASSUME DeliveryIInv, VerdictIInv, NEW id \in SubscriptionIds, NotifySignature(id)
    PROVE  VerdictIInv'
<1> DEFINE entry == activeSubscriptions[id]
<1>1. id \in DOMAIN activeSubscriptions /\ entry \in Subscription
    BY DEF NotifySignature, Notify, DeliveryIInv, IInv, TypeOK
<1>2. PICK m \in 0 .. MaxNotifications : m = entry.message
    BY <1>1 DEF Subscription
<1> DEFINE h == Notification(id, m)
<1>3. /\ id \in DOMAIN activeSubscriptions /\ entry \in Subscription
      /\ entry.owner \in SignatureCalls
      /\ sigStrand' = Append(sigStrand, h)
      /\ UNCHANGED <<status, subscriptionId, notified>>
      /\ UNCHANGED <<subscriptions, wait, cancels, verdict, reused>>
      /\ delivered' = [delivered EXCEPT ![entry.owner] = Append(@, m)]
      /\ entry.wait = "aborted"
    BY <1>1, <1>2 DEF NotifySignature, Notify
<1>4. PICK s \in SignatureCalls : s = entry.owner
    BY <1>3
<1>5. /\ subscriptionId[s] = id
      /\ Given(s)
      /\ status[s] = "subscribed" => m # Nothing
  <2>1. ~entry.isCancelled => m # Nothing
    BY <1>3, <1>2 DEF DeliveryIInv, MessagesNewer
  <2>2. status[s] = "subscribed" => ~entry.isCancelled
    BY <1>3, <1>4 DEF DeliveryIInv, IInv, OwnedUntilCancelled, Subscribed
  <2> QED BY <1>3, <1>4, <2>1, <2>2 DEF DeliveryIInv, IInv, OwnersKnown, VerdictIInv, EntriesKept
<1>6. /\ m \in 0 .. MaxNotifications
      /\ delivered \in [Subscribers -> Seq(0 .. MaxNotifications)]
      /\ s \in Subscribers
    BY <1>3, SignatureCallsAssumption DEF Subscription, DeliveryIInv, IInv, TypeOK
<1>7. \A t \in Subscribers \ {s} : delivered'[t] = delivered[t]
    BY <1>3, <1>4, <1>6
<1>8. delivered'[s] = Append(delivered[s], m)
    BY <1>3, <1>4, <1>6
<1>9. /\ h \in Handlers /\ h.kind = "notify" /\ h.id = id /\ h.message = m
      /\ h.call = s
      /\ <<h>> \in Seq(Handlers) /\ sigStrand' = sigStrand \o <<h>>
      /\ sigStrand \in Seq(Handlers)
  <2>1. h \in Handlers /\ h.kind = "notify" /\ h.id = id /\ h.message = m /\ h.call = s
    BY <1>4, <1>6 DEF Notification, Handlers
  <2>2. sigStrand \in Seq(Handlers)
    BY DEF VerdictIInv, SigTypeOK
  <2> HIDE DEF h
  <2> QED BY <1>3, <2>1, <2>2
<1> HIDE DEF h, entry
<1>10. \A i \in DOMAIN sigStrand' :
         (i \in DOMAIN sigStrand /\ sigStrand'[i] = sigStrand[i]) \/ sigStrand'[i] = h
    BY <1>9
<1>11. SigTypeOK'
  <2>1. sigStrand' \in Seq(Handlers)
    BY <1>9, StrandGrows
  <2> QED BY <1>3, <2>1 DEF VerdictIInv, SigTypeOK
<1>12. EntriesKept'
  <2>1. \A i \in DOMAIN activeSubscriptions' :
           /\ i \in DOMAIN activeSubscriptions
           /\ activeSubscriptions'[i].owner = activeSubscriptions[i].owner
    <3>1. \/ activeSubscriptions' = Without(activeSubscriptions, id)
          \/ activeSubscriptions' = [activeSubscriptions EXCEPT ![id].message = Nothing,
                                                                ![id].wait = "waiting"]
        BY DEF NotifySignature, Notify
    <3>2. CASE activeSubscriptions' = Without(activeSubscriptions, id)
        BY <3>2 DEF Without
    <3>3. CASE activeSubscriptions' = [activeSubscriptions EXCEPT ![id].message = Nothing,
                                                                  ![id].wait = "waiting"]
      <4>1. /\ DOMAIN activeSubscriptions' = DOMAIN activeSubscriptions
            /\ activeSubscriptions'[id] = [entry EXCEPT !.message = Nothing, !.wait = "waiting"]
            /\ \A i \in DOMAIN activeSubscriptions \ {id} :
                  activeSubscriptions'[i] = activeSubscriptions[i]
        BY <1>3, <3>3 DEF entry
      <4>2. activeSubscriptions'[id].owner = activeSubscriptions[id].owner
        BY <1>3, <4>1 DEF Subscription, entry
      <4> QED BY <4>1, <4>2
    <3> QED BY <3>1, <3>2, <3>3
  <2>3. \A u \in SignatureCalls : Given(u)' <=> Given(u)
    BY <1>3 DEF Given
  <2>4. \A i \in DOMAIN sigStrand : sigStrand[i].kind = "notify" =>
           sigStrand[i].call \in SignatureCalls
    BY <1>9 DEF Handlers
  <2>5. \A i \in DOMAIN cancels : cancels[i] \in SignatureCalls
    BY DEF VerdictIInv, SigTypeOK
  <2> QED BY <1>3, <1>4, <1>5, <1>9, <1>10, <2>1, <2>3, <2>4, <2>5
          DEF VerdictIInv, EntriesKept
<1>13. \A t \in SignatureCalls : \A n : Own(t, n) => Own(t, n)'
  <2>1. \A n : Contains(delivered[s], n) => Contains(delivered'[s], n)
    <3>1. /\ delivered[s] \in Seq(0 .. MaxNotifications)
          /\ Len(delivered'[s]) = Len(delivered[s]) + 1
          /\ \A j \in 1 .. Len(delivered[s]) : delivered'[s][j] = delivered[s][j]
        BY <1>6, <1>8
    <3> QED BY <3>1 DEF Contains
  <2> QED BY <1>7, <2>1, SignatureCallsAssumption DEF Own
<1>14. status[s] = "subscribed" => Own(s, m)'
  <2>1. Contains(delivered'[s], m)
    <3>1. /\ Len(delivered'[s]) \in 1 .. Len(delivered'[s])
          /\ delivered'[s][Len(delivered'[s])] = m
        BY <1>6, <1>8
    <3> QED BY <3>1 DEF Contains
  <2> QED BY <1>5, <2>1 DEF Own
<1>15. VerdictIsOwn'
    BY <1>3, <1>13 DEF VerdictIInv, VerdictIsOwn, Own
<1>16. \A t \in SignatureCalls : OwnHandlers(t) \subseteq OwnHandlers(t)'
    BY <1>3, <1>13 DEF OwnHandlers
<1>17. ASSUME NEW t \in SignatureCalls \ reused, status[t] # "struck" PROVE WokenByOwn(t)'
  <2> DEFINE G == OwnHandlers(t)'
             x == Resumption(t)
  <2>1. OwnHandlers(t) \subseteq G /\ WokenByOwn(t)
    BY <1>16, <1>17 DEF VerdictIInv
  <2>2. ASSUME wait[t] = "waiting"
        PROVE  /\ status[t] = "subscribed"
               /\ \A i \in DOMAIN cancels : subscriptionId[cancels[i]] # subscriptionId[t]
               /\ All(sigStrand', G)
    <3>1. /\ status[t] = "subscribed"
          /\ \A i \in DOMAIN cancels : subscriptionId[cancels[i]] # subscriptionId[t]
          /\ All(sigStrand, G)
        BY <2>1, <2>2 DEF WokenByOwn, All
    <3>2. t = s \/ subscriptionId[t] # id
      <4>1. activeSubscriptions[subscriptionId[t]].owner = t
        BY <3>1, SignatureCallsAssumption DEF DeliveryIInv, IInv, OwnedUntilCancelled, Subscribed
      <4> QED BY <1>4, <4>1 DEF entry
    <3>3. h \in G
        BY <1>3, <1>9, <1>14, <3>1, <3>2 DEF OwnHandlers
    <3>4. All(<<h>>, G)
        BY <3>3 DEF All
    <3> HIDE DEF G
    <3> QED BY <1>9, <3>1, <3>4, StrandGrows
  <2>3. ASSUME wait[t] = "aborted"
        PROVE  /\ Own(t, subscriptions[subscriptionId[t]].notification)'
               /\ UpTo(sigStrand', x, G)
    <3>1. Own(t, subscriptions[subscriptionId[t]].notification) /\ UpTo(sigStrand, x, G)
        BY <2>1, <2>3 DEF WokenByOwn, UpTo
    <3>2. Own(t, subscriptions[subscriptionId[t]].notification)'
        BY <1>3, <1>13, <3>1
    <3> HIDE DEF G, x
    <3> QED BY <1>9, <3>1, <3>2, StrandGrows
  <2> QED BY <1>3, <2>2, <2>3 DEF WokenByOwn, Resumption
<1>18. \A t \in SignatureCalls \ reused' : status'[t] # "struck" => WokenByOwn(t)'
    BY <1>3, <1>17
<1> QED BY <1>11, <1>12, <1>15, <1>18 DEF VerdictIInv

LEMMA TimerVerdict ==
    ASSUME VerdictIInv, NEW id \in SubscriptionIds, TimerExpires(id)
    PROVE  VerdictIInv'
<1> DEFINE R == Resumptions(id)
<1>1. /\ id \in DOMAIN subscriptions
      /\ subscriptions' = [subscriptions EXCEPT ![id].expired = TRUE]
      /\ wait' = [s \in SignatureCalls |-> IF s \in Waiters(id) THEN "timedOut" ELSE wait[s]]
      /\ sigStrand' = sigStrand \o R
      /\ UNCHANGED <<activeSubscriptions, status, subscriptionId, delivered, notified>>
      /\ UNCHANGED <<cancels, verdict, reused>>
    BY DEF TimerExpires, EndWaits, vars
<1>2. /\ R \in Seq(Handlers) /\ sigStrand \in Seq(Handlers)
      /\ \A i \in DOMAIN R : R[i].kind = "resume"
    BY EveryWaiterResumes DEF VerdictIInv, SigTypeOK
<1>3. \A s \in SignatureCalls : All(R, OwnHandlers(s))
  <2>1. \A i \in DOMAIN R : R[i] \in Handlers
    BY <1>2
  <2> HIDE DEF R
  <2> QED BY <1>2, <2>1 DEF All, OwnHandlers
<1> HIDE DEF R
<1>4. /\ sigStrand' \in Seq(Handlers)
      /\ \A i \in DOMAIN sigStrand' :
            \/ i \in DOMAIN sigStrand /\ sigStrand'[i] = sigStrand[i]
            \/ sigStrand'[i].kind = "resume"
    BY <1>1, <1>2
<1>5. /\ DOMAIN subscriptions' = DOMAIN subscriptions
      /\ \A i \in DOMAIN subscriptions :
            /\ subscriptions'[i] \in [expired : BOOLEAN, notification : 0 .. MaxNotifications]
            /\ subscriptions'[i].notification = subscriptions[i].notification
    BY <1>1 DEF VerdictIInv, SigTypeOK
<1>6. SigTypeOK'
    BY <1>1, <1>4, <1>5 DEF VerdictIInv, SigTypeOK
<1>7. \A s \in SignatureCalls : wait'[s] # "none" => wait[s] # "none"
    BY <1>1 DEF Waiters
<1>8. EntriesKept'
  <2>1. \A u : Given(u)' <=> Given(u)
    BY <1>1, <1>5 DEF Given
  <2> QED BY <1>1, <1>4, <1>7, <2>1 DEF VerdictIInv, EntriesKept
<1>9. \A s \in SignatureCalls : \A n : Own(s, n)' <=> Own(s, n)
    BY <1>1 DEF Own
<1>10. VerdictIsOwn'
    BY <1>1 DEF VerdictIInv, VerdictIsOwn
<1>11. \A s \in SignatureCalls : OwnHandlers(s)' = OwnHandlers(s)
    BY <1>1, <1>9 DEF OwnHandlers
<1>12. ASSUME NEW s \in SignatureCalls \ reused, status[s] # "struck" PROVE WokenByOwn(s)'
  <2> DEFINE G == OwnHandlers(s)
             x == Resumption(s)
  <2>1. WokenByOwn(s) /\ All(R, G)
    BY <1>3, <1>12 DEF VerdictIInv
  <2>2. ASSUME wait'[s] = "waiting"
        PROVE  /\ status[s] = "subscribed"
               /\ \A i \in DOMAIN cancels : subscriptionId[cancels[i]] # subscriptionId[s]
               /\ All(sigStrand', G)
    <3>1. wait[s] = "waiting"
        BY <1>1, <2>2
    <3>2. /\ status[s] = "subscribed"
          /\ \A i \in DOMAIN cancels : subscriptionId[cancels[i]] # subscriptionId[s]
          /\ All(sigStrand, G)
        BY <2>1, <3>1 DEF WokenByOwn
    <3> HIDE DEF G
    <3> QED BY <1>1, <1>2, <2>1, <3>2, StrandGrows
  <2>3. ASSUME wait'[s] = "aborted"
        PROVE  /\ Own(s, subscriptions[subscriptionId[s]].notification)'
               /\ UpTo(sigStrand', x, G)
    <3>1. wait[s] = "aborted"
        BY <1>1, <2>3
    <3>2. Own(s, subscriptions[subscriptionId[s]].notification) /\ UpTo(sigStrand, x, G)
        BY <2>1, <3>1 DEF WokenByOwn
    <3>3. subscriptions'[subscriptionId'[s]].notification
             = subscriptions[subscriptionId[s]].notification
        BY <1>1, <1>5, <3>1 DEF VerdictIInv, EntriesKept, Given
    <3>4. Own(s, subscriptions[subscriptionId[s]].notification)'
        BY <1>9, <3>2, <3>3
    <3> HIDE DEF G, x
    <3> QED BY <1>1, <1>2, <3>2, <3>4, StrandGrows
  <2> QED BY <1>1, <1>11, <2>2, <2>3 DEF WokenByOwn, Resumption
<1>13. \A s \in SignatureCalls \ reused' : status'[s] # "struck" => WokenByOwn(s)'
    BY <1>1, <1>12
<1> QED BY <1>6, <1>8, <1>10, <1>13 DEF VerdictIInv

\* The handling of a notification wakes the calls that wait on its id, and what is
\* at the head of the strand then was given to each of them.
LEMMA HandleVerdict ==
    ASSUME VerdictIInv, HandleNotification
    PROVE  VerdictIInv'
<1> DEFINE h == Head(sigStrand)
<1>1. PICK id \in SubscriptionIds, m \in 0 .. MaxNotifications, c \in SignatureCalls :
         /\ h.kind = "notify" /\ h.id = id /\ h.message = m /\ h.call = c
         /\ id \in DOMAIN subscriptions /\ Given(c) /\ subscriptionId[c] = id
  <2>1. sigStrand \in Seq(Handlers) /\ sigStrand # <<>> /\ h.kind = "notify"
    BY DEF HandleNotification, VerdictIInv, SigTypeOK
  <2>2. h \in Handlers /\ h = sigStrand[1] /\ 1 \in DOMAIN sigStrand
    BY <2>1
  <2>3. h.id \in SubscriptionIds /\ h.message \in 0 .. MaxNotifications /\ h.call \in SignatureCalls
    BY <2>1, <2>2 DEF Handlers
  <2>4. h.id \in DOMAIN subscriptions /\ Given(h.call) /\ subscriptionId[h.call] = h.id
    BY <2>1, <2>2 DEF VerdictIInv, EntriesKept, Given
  <2> QED BY <2>1, <2>3, <2>4
<1> DEFINE R == Resumptions(id)
<1>2. /\ subscriptions' = [subscriptions EXCEPT ![id].notification = m]
      /\ wait' = [s \in SignatureCalls |-> IF s \in Waiters(id) THEN "aborted" ELSE wait[s]]
      /\ sigStrand' = Tail(sigStrand) \o R
      /\ cancels' = Append(cancels, c)
      /\ UNCHANGED <<activeSubscriptions, status, subscriptionId, delivered, notified>>
      /\ UNCHANGED <<verdict, reused>>
    BY <1>1 DEF HandleNotification, EndWaits, vars
<1>3. /\ R \in Seq(Handlers) /\ sigStrand \in Seq(Handlers) /\ sigStrand # <<>>
      /\ Tail(sigStrand) \in Seq(Handlers)
      /\ \A i \in DOMAIN R : R[i].kind = "resume"
      /\ \A s \in Waiters(id) : \E i \in DOMAIN R : R[i] = Resumption(s)
  <2>1. sigStrand \in Seq(Handlers) /\ sigStrand # <<>>
    BY DEF HandleNotification, VerdictIInv, SigTypeOK
  <2> QED BY <2>1, EveryWaiterResumes
<1>4. \A s \in SignatureCalls : All(R, OwnHandlers(s))
  <2>1. \A i \in DOMAIN R : R[i] \in Handlers
    BY <1>3
  <2> HIDE DEF R
  <2> QED BY <1>3, <2>1 DEF All, OwnHandlers
<1> HIDE DEF R
<1>5. /\ sigStrand' \in Seq(Handlers)
      /\ \A i \in DOMAIN sigStrand' :
            \/ \E j \in DOMAIN sigStrand : sigStrand'[i] = sigStrand[j]
            \/ sigStrand'[i].kind = "resume"
  <2>1. /\ Len(sigStrand) \in Nat \ {0} /\ DOMAIN sigStrand = 1 .. Len(sigStrand)
        /\ DOMAIN Tail(sigStrand) = 1 .. Len(sigStrand) - 1
        /\ \A i \in 1 .. Len(sigStrand) - 1 :
              Tail(sigStrand)[i] = sigStrand[i + 1] /\ i + 1 \in 1 .. Len(sigStrand)
    BY <1>3
  <2>2. /\ sigStrand' \in Seq(Handlers)
        /\ \A i \in DOMAIN sigStrand' :
              \/ i \in DOMAIN Tail(sigStrand) /\ sigStrand'[i] = Tail(sigStrand)[i]
              \/ sigStrand'[i].kind = "resume"
    BY <1>2, <1>3
  <2> QED BY <2>1, <2>2
<1>6. /\ DOMAIN subscriptions' = DOMAIN subscriptions
      /\ \A i \in DOMAIN subscriptions :
            /\ subscriptions'[i] \in [expired : BOOLEAN, notification : 0 .. MaxNotifications]
            /\ subscriptions'[i].notification = IF i = id THEN m ELSE subscriptions[i].notification
    BY <1>1, <1>2 DEF VerdictIInv, SigTypeOK
<1>7. /\ cancels \in Seq(SignatureCalls) /\ cancels' \in Seq(SignatureCalls)
      /\ \A i \in DOMAIN cancels' : cancels'[i] = c \/ \E j \in DOMAIN cancels : cancels'[i] = cancels[j]
  <2>1. cancels \in Seq(SignatureCalls)
    BY DEF VerdictIInv, SigTypeOK
  <2>2. cancels' = Append(cancels, c) /\ c \in SignatureCalls
    BY <1>2
  <2> QED BY <2>1, <2>2
<1>8. SigTypeOK'
    BY <1>2, <1>5, <1>6, <1>7 DEF VerdictIInv, SigTypeOK
<1>9. \A s \in SignatureCalls : wait'[s] # "none" => wait[s] # "none"
    BY <1>2 DEF Waiters
<1>10. EntriesKept'
  <2>1. \A u : Given(u)' <=> Given(u)
    BY <1>2, <1>6 DEF Given
  <2>2. \A i \in DOMAIN sigStrand' : sigStrand'[i].kind = "notify" =>
           Given(sigStrand'[i].call) /\ sigStrand'[i].id = subscriptionId[sigStrand'[i].call]
    BY <1>5 DEF VerdictIInv, EntriesKept
  <2>3. \A i \in DOMAIN cancels' : Given(cancels'[i])
    BY <1>1, <1>7 DEF VerdictIInv, EntriesKept
  <2> QED BY <1>2, <1>9, <2>1, <2>2, <2>3 DEF VerdictIInv, EntriesKept
<1>11. \A s \in SignatureCalls : \A n : Own(s, n)' <=> Own(s, n)
    BY <1>2 DEF Own
<1>12. VerdictIsOwn'
    BY <1>2 DEF VerdictIInv, VerdictIsOwn
<1>13. \A s \in SignatureCalls : OwnHandlers(s)' = OwnHandlers(s)
    BY <1>2, <1>11 DEF OwnHandlers
<1>14. ASSUME NEW s \in SignatureCalls \ reused, status[s] # "struck" PROVE WokenByOwn(s)'
  <2> DEFINE G == OwnHandlers(s)
             x == Resumption(s)
  <2>1. WokenByOwn(s) /\ All(R, G)
    BY <1>4, <1>14 DEF VerdictIInv
  <2>2. h \in G /\ subscriptionId[s] = id => Own(s, m)
    BY <1>1 DEF OwnHandlers
  <2>3. h # x
    BY <1>1 DEF Resumption
  <2>4. ASSUME wait'[s] = "waiting"
        PROVE  /\ status[s] = "subscribed"
               /\ \A i \in DOMAIN cancels' : subscriptionId[cancels'[i]] # subscriptionId[s]
               /\ All(sigStrand', G)
    <3>1. wait[s] = "waiting" /\ subscriptionId[s] # id
        BY <1>2, <2>4 DEF Waiters
    <3>2. /\ status[s] = "subscribed"
          /\ \A i \in DOMAIN cancels : subscriptionId[cancels[i]] # subscriptionId[s]
          /\ All(sigStrand, G)
        BY <2>1, <3>1 DEF WokenByOwn
    <3> HIDE DEF G
    <3>3. All(Tail(sigStrand), G)
        BY <1>3, <3>2, StrandRuns
    <3>4. All(sigStrand', G)
        BY <1>2, <1>3, <2>1, <3>3, StrandGrows
    <3> QED BY <1>1, <1>7, <3>1, <3>2, <3>4
  <2>5. ASSUME wait'[s] = "aborted"
        PROVE  /\ Own(s, subscriptions'[subscriptionId[s]].notification)
               /\ UpTo(sigStrand', x, G)
    <3>1. CASE s \in Waiters(id)
      <4>1. wait[s] = "waiting" /\ subscriptionId[s] = id
        BY <3>1 DEF Waiters
      <4>2. All(sigStrand, G) /\ \E i \in DOMAIN R : R[i] = x
        BY <1>3, <2>1, <3>1, <4>1 DEF WokenByOwn
      <4>3. h \in G /\ All(Tail(sigStrand), G)
        <5> HIDE DEF G, x
        <5> QED BY <1>3, <4>2, StrandRuns
      <4>4. Own(s, subscriptions'[subscriptionId[s]].notification)
        BY <1>1, <1>6, <2>2, <4>1, <4>3
      <4> HIDE DEF G, x
      <4> QED BY <1>2, <1>3, <2>1, <4>2, <4>3, <4>4, StrandGrows
    <3>2. CASE s \notin Waiters(id)
      <4>1. wait[s] = "aborted"
        BY <1>2, <2>5, <3>2
      <4>2. Own(s, subscriptions[subscriptionId[s]].notification) /\ UpTo(sigStrand, x, G)
        BY <2>1, <4>1 DEF WokenByOwn
      <4>3. h \in G /\ UpTo(Tail(sigStrand), x, G)
        <5> HIDE DEF G, x
        <5> QED BY <1>3, <2>3, <4>2, StrandRuns
      <4>4. subscriptionId[s] \in DOMAIN subscriptions
        BY <4>1 DEF VerdictIInv, EntriesKept, Given
      <4>5. Own(s, subscriptions'[subscriptionId[s]].notification)
        BY <1>6, <2>2, <4>2, <4>3, <4>4
      <4> HIDE DEF G, x
      <4> QED BY <1>2, <1>3, <4>3, <4>5, StrandGrows
    <3> QED BY <3>1, <3>2
  <2> QED BY <1>2, <1>11, <1>13, <2>4, <2>5 DEF WokenByOwn, Resumption
<1>15. \A s \in SignatureCalls \ reused' : status'[s] # "struck" => WokenByOwn(s)'
    BY <1>2, <1>14
<1> QED BY <1>8, <1>10, <1>12, <1>15 DEF VerdictIInv

LEMMA ResumeVerdict ==
    ASSUME VerdictIInv, Resume
    PROVE  VerdictIInv'
<1> DEFINE h == Head(sigStrand)
<1>1. /\ sigStrand \in Seq(Handlers) /\ sigStrand # <<>> /\ h.kind = "resume"
      /\ wait' = [wait EXCEPT ![h.call] = "none"]
      /\ sigStrand' = Tail(sigStrand)
      /\ UNCHANGED <<activeSubscriptions, status, subscriptionId, delivered, notified>>
      /\ UNCHANGED <<subscriptions, cancels, reused>>
    BY DEF Resume, VerdictIInv, SigTypeOK, vars
<1>2. PICK c \in SignatureCalls : c = h.call
  <2>1. h \in Handlers
    BY <1>1
  <2> QED BY <1>1, <2>1 DEF Handlers
<1>3. \A s \in SignatureCalls : wait'[s] = IF s = c THEN "none" ELSE wait[s]
    BY <1>1, <1>2 DEF VerdictIInv, SigTypeOK
<1>4. PICK n : /\ verdict' = [verdict EXCEPT ![c] = n]
               /\ \/ n = Timeout
                  \/ wait[c] = "aborted" /\ n = subscriptions[subscriptionId[c]].notification
    BY <1>2 DEF Resume
<1>5. n \in Timeout .. MaxNotifications
  <2>1. CASE n = Timeout
    BY <2>1, MaxNotificationsAssumption DEF Timeout
  <2>2. CASE wait[c] = "aborted" /\ n = subscriptions[subscriptionId[c]].notification
    <3>1. subscriptionId[c] \in DOMAIN subscriptions
        BY <2>2 DEF VerdictIInv, EntriesKept, Given
    <3>2. n \in 0 .. MaxNotifications
        BY <2>2, <3>1 DEF VerdictIInv, SigTypeOK
    <3> QED BY <3>2, MaxNotificationsAssumption DEF Timeout
  <2> QED BY <1>4, <2>1, <2>2
<1>6. /\ sigStrand' \in Seq(Handlers)
      /\ \A i \in DOMAIN sigStrand' : \E j \in DOMAIN sigStrand : sigStrand'[i] = sigStrand[j]
  <2>1. /\ Len(sigStrand) \in Nat \ {0} /\ DOMAIN sigStrand = 1 .. Len(sigStrand)
        /\ DOMAIN Tail(sigStrand) = 1 .. Len(sigStrand) - 1
        /\ \A i \in 1 .. Len(sigStrand) - 1 :
              Tail(sigStrand)[i] = sigStrand[i + 1] /\ i + 1 \in 1 .. Len(sigStrand)
        /\ Tail(sigStrand) \in Seq(Handlers)
    BY <1>1
  <2> QED BY <1>1, <2>1
<1>7. SigTypeOK'
  <2>1. verdict' \in [SignatureCalls -> Timeout .. MaxNotifications]
    BY <1>4, <1>5 DEF VerdictIInv, SigTypeOK
  <2> QED BY <1>1, <1>2, <1>6, <2>1 DEF VerdictIInv, SigTypeOK
<1>8. EntriesKept'
  <2>1. \A u : Given(u)' <=> Given(u)
    BY <1>1 DEF Given
  <2> QED BY <1>1, <1>3, <1>6, <2>1 DEF VerdictIInv, EntriesKept
<1>9. \A s \in SignatureCalls : \A k : Own(s, k)' <=> Own(s, k)
    BY <1>1 DEF Own
<1>10. VerdictIsOwn'
  <2> SUFFICES ASSUME NEW s \in SignatureCalls \ reused, status[s] # "struck", verdict'[s] >= 0
               PROVE  Own(s, verdict'[s])
    BY <1>1 DEF VerdictIsOwn, Own
  <2>1. CASE s # c
    <3>1. verdict'[s] = verdict[s]
        BY <1>4, <2>1 DEF VerdictIInv, SigTypeOK
    <3> QED BY <3>1 DEF VerdictIInv, VerdictIsOwn, Own
  <2>2. CASE s = c
    <3>1. verdict'[s] = n
        BY <1>4, <2>2 DEF VerdictIInv, SigTypeOK
    <3>2. n # Timeout
        BY <3>1 DEF Timeout
    <3> QED BY <1>4, <2>2, <3>1, <3>2 DEF VerdictIInv, WokenByOwn
  <2> QED BY <2>1, <2>2
<1>11. \A s \in SignatureCalls : OwnHandlers(s)' = OwnHandlers(s)
    BY <1>1, <1>9 DEF OwnHandlers
<1>12. ASSUME NEW s \in SignatureCalls \ reused, s # c, status[s] # "struck" PROVE WokenByOwn(s)'
  <2> DEFINE G == OwnHandlers(s)
             x == Resumption(s)
  <2>1. WokenByOwn(s) /\ wait'[s] = wait[s]
    BY <1>3, <1>12 DEF VerdictIInv
  <2>2. h # x
    BY <1>2, <1>12 DEF Resumption
  <2>3. (All(sigStrand, G) => All(sigStrand', G)) /\ (UpTo(sigStrand, x, G) => UpTo(sigStrand', x, G))
    <3> HIDE DEF G, x
    <3> QED BY <1>1, <2>2, StrandRuns
  <2> QED BY <1>1, <1>9, <1>11, <2>1, <2>3 DEF WokenByOwn, Resumption
<1>13. WokenByOwn(c)'
    BY <1>3 DEF WokenByOwn
<1>14. \A s \in SignatureCalls \ reused' : status'[s] # "struck" => WokenByOwn(s)'
    BY <1>1, <1>12, <1>13
<1> QED BY <1>7, <1>8, <1>10, <1>14 DEF VerdictIInv

\* What is cancelled is of a call whose notification was handled: none that waits,
\* unless its id was another's before.
LEMMA CancelVerdict ==
    ASSUME DeliveryIInv, VerdictIInv, CancelSubscription
    PROVE  VerdictIInv'
<1> DEFINE c == Head(cancels)
<1>1. /\ cancels \in Seq(SignatureCalls) /\ cancels # <<>>
      /\ cancels' = Tail(cancels)
      /\ Cancel(c)
      /\ UNCHANGED <<subscriptionId, delivered, notified>>
      /\ UNCHANGED <<subscriptions, wait, sigStrand, verdict, reused>>
    BY DEF CancelSubscription, Cancel, VerdictIInv, SigTypeOK
<1>2. /\ c = cancels[1] /\ 1 \in DOMAIN cancels /\ c \in SignatureCalls
      /\ cancels' \in Seq(SignatureCalls)
      /\ \A i \in DOMAIN cancels' : \E j \in DOMAIN cancels : cancels'[i] = cancels[j]
  <2>1. /\ Len(cancels) \in Nat \ {0} /\ DOMAIN cancels = 1 .. Len(cancels)
        /\ DOMAIN Tail(cancels) = 1 .. Len(cancels) - 1
        /\ \A i \in 1 .. Len(cancels) - 1 :
              Tail(cancels)[i] = cancels[i + 1] /\ i + 1 \in 1 .. Len(cancels)
        /\ Tail(cancels) \in Seq(SignatureCalls) /\ c = cancels[1] /\ c \in SignatureCalls
    BY <1>1
  <2> QED BY <1>1, <2>1
<1> HIDE DEF c
<1>3. /\ DOMAIN activeSubscriptions' = DOMAIN activeSubscriptions
      /\ \A i \in DOMAIN activeSubscriptions :
            activeSubscriptions'[i].owner = activeSubscriptions[i].owner
    BY <1>1, <1>2, CancelTable, SignatureCallsAssumption DEF DeliveryIInv, IInv
<1>4. \A s \in SignatureCalls :
         \/ status'[s] = status[s]
         \/ s = c /\ status[s] \in {"subscribed", "unsubscribing"} /\ status'[s] = "cancelled"
         \/ s # c /\ status[s] \in {"subscribed", "unsubscribing"} /\ status'[s] = "struck"
    BY <1>1, SignatureCallsAssumption DEF Cancel, Subscribed
<1>5. SigTypeOK'
    BY <1>1, <1>2 DEF VerdictIInv, SigTypeOK
<1>6. EntriesKept'
  <2>1. \A s \in SignatureCalls : Given(s) => Given(s)'
    BY <1>1, <1>4 DEF Given
  <2>2. \A i \in DOMAIN sigStrand : sigStrand[i].kind = "notify" =>
           sigStrand[i].call \in SignatureCalls
    BY DEF VerdictIInv, SigTypeOK, Handlers
  <2>3. \A i \in DOMAIN cancels : cancels[i] \in SignatureCalls
    BY <1>1
  <2> QED BY <1>1, <1>2, <1>3, <2>1, <2>2, <2>3 DEF VerdictIInv, EntriesKept
<1>7. \A s \in SignatureCalls : \A n : Own(s, n)' <=> Own(s, n)
    BY <1>1 DEF Own
<1>8. VerdictIsOwn'
    BY <1>1, <1>4 DEF VerdictIInv, VerdictIsOwn
<1>9. \A s \in SignatureCalls : OwnHandlers(s)' = OwnHandlers(s)
    BY <1>1, <1>7 DEF OwnHandlers
<1>10. ASSUME NEW s \in SignatureCalls \ reused, status'[s] # "struck" PROVE WokenByOwn(s)'
  <2>1. status[s] # "struck"
    BY <1>4, <1>10
  <2>2. WokenByOwn(s)
    BY <1>10, <2>1 DEF VerdictIInv
  <2>3. wait[s] = "waiting" => status'[s] = status[s]
    BY <1>2, <1>4, <1>10, <2>2 DEF WokenByOwn
  <2> QED BY <1>1, <1>2, <1>7, <1>9, <2>2, <2>3 DEF WokenByOwn
<1>11. \A s \in SignatureCalls \ reused' : status'[s] # "struck" => WokenByOwn(s)'
    BY <1>1, <1>10
<1> QED BY <1>5, <1>6, <1>8, <1>11 DEF VerdictIInv

\* A subscription that returns strikes nobody and gives no verdict.
LEMMA SubscribedKeepsVerdicts ==
    ASSUME VerdictIInv, NEW s \in Subscribers, UNCHANGED <<delivered, verdict>>,
           status[s] = "subscribing", status'[s] \in {"subscribed", "failed"},
           NEW id, reused' = IF id \in DOMAIN subscriptions THEN reused \cup {s} ELSE reused,
           \A t \in Subscribers \ {s} : status'[t] = status[t]
    PROVE  VerdictIsOwn' /\ reused \subseteq reused'
<1>1. \A t \in SignatureCalls : status'[t] # "struck" => status[t] # "struck"
    BY SignatureCallsAssumption
<1> QED BY <1>1 DEF VerdictIInv, VerdictIsOwn

\* The answer to the subscription.  A call whose id had no entry finds nothing queued
\* for it, neither a notification nor a cancellation.
LEMMA SubscribedVerdict ==
    ASSUME DeliveryIInv, VerdictIInv, NEW s \in Subscribers, NEW id \in SubscriptionIds,
           Subscribed_Waits(s, id)
    PROVE  VerdictIInv'
<1>1. /\ status[s] = "subscribing"
      /\ \A t \in Subscribers \ {s} :
            status'[t] = status[t] /\ subscriptionId'[t] = subscriptionId[t]
      /\ subscriptionId'[s] = id
      /\ status'[s] \in {"subscribed", "failed"}
      /\ status'[s] = "subscribed" => id \notin DOMAIN activeSubscriptions
      /\ UNCHANGED <<delivered, notified>>
      /\ UNCHANGED <<cancels, verdict>>
      /\ reused' = IF id \in DOMAIN subscriptions THEN reused \cup {s} ELSE reused
    BY DEF Subscribed_Waits, SubscribeReturns, DeliveryIInv, IInv, TypeOK
<1>2. \A i \in DOMAIN activeSubscriptions' :
         \/ i \in DOMAIN activeSubscriptions /\ activeSubscriptions'[i] = activeSubscriptions[i]
         \/ /\ i = id /\ activeSubscriptions'[i].owner = s
            /\ status'[s] = "subscribed"
    BY DEF Subscribed_Waits, SubscribeReturns, NewSubscription, DeliveryIInv, IInv, TypeOK
<1>3. s \in SignatureCalls => wait[s] = "none"
    BY <1>1 DEF VerdictIInv, EntriesKept, Given
<1>6. /\ \A i \in DOMAIN sigStrand : sigStrand[i].kind = "notify" =>
            /\ sigStrand[i].call \in Subscribers \ {s} /\ Given(sigStrand[i].call)
            /\ sigStrand[i].id = subscriptionId[sigStrand[i].call]
      /\ \A i \in DOMAIN cancels : cancels[i] \in Subscribers \ {s} /\ Given(cancels[i])
      /\ ~Given(s)
  <2>1. ~Given(s)
    BY <1>1 DEF Given
  <2>2. \A i \in DOMAIN sigStrand : sigStrand[i].kind = "notify" =>
           sigStrand[i].call \in SignatureCalls
    BY DEF VerdictIInv, SigTypeOK, Handlers
  <2>3. \A i \in DOMAIN cancels : cancels[i] \in SignatureCalls
    BY DEF VerdictIInv, SigTypeOK
  <2> QED BY <2>1, <2>2, <2>3, SignatureCallsAssumption DEF VerdictIInv, EntriesKept
<1>4. CASE ~(s \in SignatureCalls /\ status'[s] = "subscribed")
  <2>1. UNCHANGED <<subscriptions, wait, sigStrand>>
    BY <1>4 DEF Subscribed_Waits
  <2>2. SigTypeOK'
    BY <1>1, <2>1 DEF VerdictIInv, SigTypeOK
  <2>3. EntriesKept'
    <3>1. \A u \in Subscribers \ {s} : Given(u)' <=> Given(u)
        BY <1>1, <2>1 DEF Given
    <3>2. \A i \in DOMAIN activeSubscriptions' :
             activeSubscriptions'[i].owner \in SignatureCalls =>
                /\ activeSubscriptions'[i].owner \in Subscribers \ {s}
                /\ Given(activeSubscriptions'[i].owner)
        BY <1>2, <1>4, <1>6, SignatureCallsAssumption DEF VerdictIInv, EntriesKept
    <3>3. \A u \in SignatureCalls : wait[u] # "none" => u \in Subscribers \ {s} /\ Given(u)
        BY <1>3, SignatureCallsAssumption DEF VerdictIInv, EntriesKept
    <3> QED BY <1>1, <1>6, <2>1, <3>1, <3>2, <3>3 DEF EntriesKept
  <2>4. \A t \in SignatureCalls : \A n : Own(t, n)' <=> Own(t, n)
    BY <1>1 DEF Own
  <2>5. VerdictIsOwn' /\ reused \subseteq reused'
    BY <1>1, SubscribedKeepsVerdicts
  <2>6. ASSUME NEW t \in SignatureCalls \ reused', status'[t] # "struck" PROVE WokenByOwn(t)'
    <3>1. CASE t = s
        BY <1>3, <2>1, <3>1 DEF WokenByOwn
    <3>2. CASE t # s
      <4>1. /\ WokenByOwn(t) /\ t \in Subscribers
            /\ status'[t] = status[t] /\ subscriptionId'[t] = subscriptionId[t]
        BY <1>1, <2>5, <2>6, <3>2, SignatureCallsAssumption DEF VerdictIInv
      <4>2. OwnHandlers(t)' = OwnHandlers(t)
        BY <2>4, <4>1 DEF OwnHandlers
      <4>3. \A i \in DOMAIN cancels : subscriptionId'[cancels[i]] = subscriptionId[cancels[i]]
        BY <1>1, <1>6
      <4> QED BY <1>1, <2>1, <2>4, <4>1, <4>2, <4>3 DEF WokenByOwn
    <3> QED BY <3>1, <3>2
  <2> QED BY <2>2, <2>3, <2>5, <2>6 DEF VerdictIInv
<1>5. CASE s \in SignatureCalls /\ status'[s] = "subscribed"
  <2> DEFINE entry == [expired |-> FALSE, notification |-> Nothing]
  <2>1. /\ subscriptions' = Emplaced(id)
        /\ IF subscriptions'[id].expired
           THEN /\ wait' = [wait EXCEPT ![s] = "timedOut"]
                /\ sigStrand' = Append(sigStrand, Resumption(s))
           ELSE wait' = [wait EXCEPT ![s] = "waiting"] /\ sigStrand' = sigStrand
    BY <1>5 DEF Subscribed_Waits, Resumption
  <2>2. /\ DOMAIN subscriptions' = DOMAIN subscriptions \cup {id}
        /\ \A i \in DOMAIN subscriptions : subscriptions'[i] = subscriptions[i]
        /\ id \notin DOMAIN subscriptions => subscriptions'[id] = entry
    BY <2>1 DEF Emplaced
  <2>3. PICK w \in {"waiting", "timedOut"} : wait' = [wait EXCEPT ![s] = w]
    BY <2>1
  <2>4. id \notin DOMAIN subscriptions => wait' = [wait EXCEPT ![s] = "waiting"]
                                          /\ sigStrand' = sigStrand
    BY <2>1, <2>2
  <2>5. PICK t \in Seq(Handlers) :
           /\ sigStrand' = sigStrand \o t
           /\ \A i \in DOMAIN t : t[i] \in Handlers /\ t[i].kind = "resume"
    <3>1. sigStrand \in Seq(Handlers)
        BY DEF VerdictIInv, SigTypeOK
    <3>2. CASE sigStrand' = sigStrand
      <4>1. <<>> \in Seq(Handlers)
        OBVIOUS
      <4>2. sigStrand' = sigStrand \o <<>>
        BY <3>1, <3>2
      <4> WITNESS <<>> \in Seq(Handlers)
      <4> QED BY <4>2
    <3>3. CASE sigStrand' = Append(sigStrand, Resumption(s))
      <4>1. Resumption(s) \in Handlers /\ Resumption(s).kind = "resume"
        BY <1>5 DEF Resumption, Handlers
      <4> DEFINE r == Resumption(s)
      <4>2. <<r>> \in Seq(Handlers) /\ sigStrand' = sigStrand \o <<r>>
        <5> HIDE DEF r
        <5> QED BY <3>1, <3>3, <4>1 DEF r
      <4>3. \A i \in DOMAIN <<r>> : <<r>>[i] = r
        <5> HIDE DEF r
        <5> QED OBVIOUS
      <4> QED BY <4>1, <4>2, <4>3
    <3> QED BY <2>1, <3>2, <3>3
  <2>6. /\ sigStrand \in Seq(Handlers) /\ sigStrand' \in Seq(Handlers)
        /\ \A i \in DOMAIN sigStrand' :
              \/ i \in DOMAIN sigStrand /\ sigStrand'[i] = sigStrand[i]
              \/ sigStrand'[i].kind = "resume"
    <3>1. sigStrand \in Seq(Handlers)
        BY DEF VerdictIInv, SigTypeOK
    <3> QED BY <2>5, <3>1
  <2>7. SigTypeOK'
    <3>1. entry \in [expired : BOOLEAN, notification : 0 .. MaxNotifications]
        BY MaxNotificationsAssumption DEF Nothing
    <3> HIDE DEF entry
    <3>2. /\ DOMAIN subscriptions' \subseteq SubscriptionIds
          /\ \A i \in DOMAIN subscriptions' :
                subscriptions'[i] \in [expired : BOOLEAN, notification : 0 .. MaxNotifications]
        BY <1>1, <2>2, <3>1 DEF VerdictIInv, SigTypeOK
    <3>3. wait' \in [SignatureCalls -> {"none", "waiting", "aborted", "timedOut"}]
        BY <2>3 DEF VerdictIInv, SigTypeOK
    <3> QED BY <1>1, <2>6, <3>2, <3>3 DEF VerdictIInv, SigTypeOK
  <2>8. \A u \in SignatureCalls : u # s => wait'[u] = wait[u]
    BY <2>3 DEF VerdictIInv, SigTypeOK
  <2>9. EntriesKept'
    <3>1. /\ \A u \in Subscribers \ {s} : Given(u) => Given(u)'
          /\ Given(s)'
        BY <1>1, <1>5, <2>2 DEF Given
    <3>2. \A i \in DOMAIN activeSubscriptions' :
             activeSubscriptions'[i].owner \in SignatureCalls =>
                \/ activeSubscriptions'[i].owner = s
                \/ /\ activeSubscriptions'[i].owner \in Subscribers
                   /\ Given(activeSubscriptions'[i].owner)
        BY <1>2, SignatureCallsAssumption DEF VerdictIInv, EntriesKept
    <3>3. \A u \in SignatureCalls : wait'[u] # "none" => u = s \/ (u \in Subscribers /\ Given(u))
      <4>1. \A u \in SignatureCalls : u \in Subscribers /\ (wait[u] # "none" => Given(u))
        BY SignatureCallsAssumption DEF VerdictIInv, EntriesKept
      <4> QED BY <2>8, <4>1
    <3> QED BY <1>1, <1>6, <2>6, <3>1, <3>2, <3>3 DEF EntriesKept
  <2>10. \A u \in SignatureCalls : \A n : Own(u, n)' <=> Own(u, n)
    BY <1>1 DEF Own
  <2>11. VerdictIsOwn' /\ reused \subseteq reused'
    BY <1>1, SubscribedKeepsVerdicts
  <2>12. ASSUME NEW u \in SignatureCalls \ reused', status'[u] # "struck" PROVE WokenByOwn(u)'
    <3>1. CASE u = s
      <4>1. id \notin DOMAIN subscriptions
        BY <1>1, <2>12, <3>1
      <4>2. wait'[s] = "waiting" /\ sigStrand' = sigStrand
        BY <1>5, <2>4, <4>1 DEF VerdictIInv, SigTypeOK
      <4>3. \A i \in DOMAIN cancels : subscriptionId'[cancels[i]] # id
        BY <1>1, <1>6, <4>1 DEF Given
      <4>4. \A i \in DOMAIN sigStrand :
               /\ sigStrand[i] \in Handlers
               /\ sigStrand[i].kind = "notify" => sigStrand[i].id # id
        BY <1>6, <2>6, <4>1 DEF Given
      <4>5. All(sigStrand, OwnHandlers(s)')
        BY <1>1, <4>4 DEF All, OwnHandlers
      <4> QED BY <1>1, <1>5, <3>1, <4>2, <4>3, <4>5 DEF WokenByOwn
    <3>2. CASE u # s
      <4> DEFINE G == OwnHandlers(u)
                 x == Resumption(u)
      <4>1. /\ WokenByOwn(u) /\ u \in Subscribers
            /\ status'[u] = status[u] /\ subscriptionId'[u] = subscriptionId[u]
            /\ wait'[u] = wait[u]
        BY <1>1, <2>8, <2>11, <2>12, <3>2, SignatureCallsAssumption DEF VerdictIInv
      <4>2. OwnHandlers(u)' = OwnHandlers(u)
        BY <2>10, <4>1 DEF OwnHandlers
      <4>3. All(t, G)
        BY <2>5 DEF All, OwnHandlers
      <4>4. /\ All(sigStrand, G) => All(sigStrand', G)
            /\ UpTo(sigStrand, x, G) => UpTo(sigStrand', x, G)
        <5> HIDE DEF G, x
        <5> QED BY <2>5, <2>6, <4>3, StrandGrows
      <4>5. wait[u] # "none" =>
               subscriptions'[subscriptionId[u]] = subscriptions[subscriptionId[u]]
        BY <2>2, <4>1 DEF VerdictIInv, EntriesKept, Given
      <4>6. \A i \in DOMAIN cancels : subscriptionId'[cancels[i]] = subscriptionId[cancels[i]]
        BY <1>1, <1>6
      <4> QED BY <1>1, <2>10, <4>1, <4>2, <4>4, <4>5, <4>6 DEF WokenByOwn, Resumption
    <3> QED BY <3>1, <3>2
  <2> QED BY <2>7, <2>9, <2>11, <2>12 DEF VerdictIInv
<1> QED BY <1>4, <1>5

LEMMA SigNextVerdict == DeliveryIInv /\ VerdictIInv /\ [SigNext]_allVars => VerdictIInv'
<1> SUFFICES ASSUME DeliveryIInv, VerdictIInv, [SigNext]_allVars PROVE VerdictIInv'
    OBVIOUS
<1>1. CASE WsStep /\ UNCHANGED sigVars
    BY <1>1, WsStepVerdict
<1>2. ASSUME NEW s \in Subscribers, NEW id \in SubscriptionIds, Subscribed_Waits(s, id)
      PROVE  VerdictIInv'
    BY <1>2, SubscribedVerdict
<1>3. ASSUME NEW id \in SubscriptionIds, NotifySignature(id) \/ TimerExpires(id) PROVE VerdictIInv'
    BY <1>3, NotifySignatureVerdict, TimerVerdict
<1>4. CASE HandleNotification \/ Resume
    BY <1>4, HandleVerdict, ResumeVerdict
<1>5. CASE CancelSubscription
    BY <1>5, CancelVerdict
<1>6. CASE UNCHANGED allVars
  <2>1. /\ UNCHANGED <<activeSubscriptions, status, subscriptionId, delivered>>
        /\ UNCHANGED sigVars
    BY <1>6 DEF allVars, vars
  <2> QED BY <2>1, ClientQuiet
<1> QED BY <1>1, <1>2, <1>3, <1>4, <1>5, <1>6 DEF SigNext

\* The steps of the signature subscriber are steps of the client, or none of it.
LEMMA SigStepOfClient ==
    ASSUME VerdictIInv, [SigNext]_allVars
    PROVE  [Next]_vars
<1>1. ASSUME WsStep PROVE Next
    BY <1>1 DEF WsStep, OtherClient, OtherNotify, Next, NotifyStep
<1>2. ASSUME NEW s \in Subscribers, NEW id \in SubscriptionIds, Subscribed_Waits(s, id) PROVE Next
    BY <1>2 DEF Subscribed_Waits, Next
<1>3. ASSUME NEW id \in SubscriptionIds, NotifySignature(id) PROVE Next
    BY <1>3 DEF NotifySignature, Next, NotifyStep
<1>4. ASSUME NEW id \in SubscriptionIds, TimerExpires(id) PROVE UNCHANGED vars
    BY <1>4 DEF TimerExpires
<1>5. ASSUME HandleNotification \/ Resume PROVE UNCHANGED vars
    BY <1>5 DEF HandleNotification, Resume
<1>6. ASSUME CancelSubscription PROVE Next
  <2>1. cancels \in Seq(SignatureCalls) /\ cancels # <<>>
    BY <1>6 DEF CancelSubscription, VerdictIInv, SigTypeOK
  <2>2. Head(cancels) \in Subscribers
    BY <2>1, SignatureCallsAssumption
  <2>3. Cancel(Head(cancels))
    BY <1>6 DEF CancelSubscription
  <2> QED BY <2>2, <2>3 DEF Next
<1> QED BY <1>1, <1>2, <1>3, <1>4, <1>5, <1>6 DEF SigNext, allVars

SigIInv == DeliveryIInv /\ VerdictIInv

LEMMA SigInitIInv == SigInit => SigIInv
BY InitDelivery, SigInitVerdict DEF SigInit, SigIInv

LEMMA SigNextIInv == SigIInv /\ [SigNext]_allVars => SigIInv'
BY SigStepOfClient, NextDelivery, SigNextVerdict DEF SigIInv

THEOREM SigInvariance == SigSpec => []SigIInv
BY SigInitIInv, SigNextIInv, PTL DEF SigSpec

\* The promises of the client, kept when notifications cancel their subscriptions
\* by way of the other strand, twice each.
THEOREM SigSubscriptionsOwned == SigSpec => []OwnedUntilCancelled
BY SigInvariance, PTL DEF SigIInv, DeliveryIInv, IInv

THEOREM SigNotificationsInOrder == SigSpec => []DeliveredInOrder
BY SigInvariance, PTL DEF SigIInv, DeliveryIInv

\* A call returns a notification its own subscription was given, whoever else
\* subscribes, is woken and is cancelled meanwhile, unless its id was another's before.
THEOREM VerdictsOwn == SigSpec => []VerdictIsOwn
BY SigInvariance, PTL DEF SigIInv, VerdictIInv
=============================================================================
