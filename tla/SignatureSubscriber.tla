-------------------------- MODULE SignatureSubscriber --------------------------
(***************************************************************************)
(* Solana/SignatureSubscriber on top of SolanaWsClient: a call subscribes  *)
(* to a signature, waits for one notification and returns it.              *)
(*                                                                         *)
(* The two components run on strands of their own.  The WebSocket client   *)
(* posts notifications to the strand of this component (sigStrand), and    *)
(* the cancellations that each notification makes go the other way         *)
(* (cancels); both are first in, first out.  The coroutine of a call goes  *)
(* on in the thread of the WebSocket client when its subscription is       *)
(* answered, so that it waits on its timer in the very step.               *)
(***************************************************************************)
EXTENDS SolanaWsClient, SequencesExt, FiniteSetsExt

CONSTANTS
    SignatureCalls  \* the subscribers that are calls of signature_subscribe

ASSUME SignatureCallsAssumption ==
    SignatureCalls \subseteq Subscribers /\ IsFiniteSet(SignatureCalls)

VARIABLES
    subscriptions,  \* _subscriptions: expired timer and notification by id, never erased
    wait,           \* the wait of each call on the timer of its entry
    sigStrand,      \* handlers queued on the strand
    cancels,        \* cancel_subscription queued on the other strand, by whose call
    verdict,        \* what each call returned
    reused          \* history: subscribers whose id a signature call had before

sigVars == <<subscriptions, wait, sigStrand, cancels, verdict, reused>>
allVars == <<vars, sigVars>>

Pending == -1
Timeout == -2

SigInit ==
    /\ Init
    /\ subscriptions = [id \in {} |-> Nothing]
    /\ wait = [s \in SignatureCalls |-> "none"]
    /\ sigStrand = <<>>
    /\ cancels = <<>>
    /\ verdict = [s \in SignatureCalls |-> Pending]
    /\ reused = {}

Waiters(id) == {s \in SignatureCalls : wait[s] = "waiting" /\ subscriptionId[s] = id}

\* The waits on a timer end together; the coroutines are queued one by one.
EndWaits(id, how) ==
    wait' = [s \in SignatureCalls |-> IF s \in Waiters(id) THEN how ELSE wait[s]]

Resumptions(id) ==
    LET calls == SetToSeq(Waiters(id))
    IN  [i \in DOMAIN calls |-> [kind |-> "resume", call |-> calls[i]]]

\* emplace: an id that has an entry keeps it.
Emplaced(id) ==
    [i \in DOMAIN subscriptions \cup {id} |->
        IF i \in DOMAIN subscriptions THEN subscriptions[i]
        ELSE [expired |-> FALSE, notification |-> Nothing]]

\* The callback of a call, posted with the id and the message.
Notification(id, n) ==
    [kind |-> "notify", id |-> id, call |-> activeSubscriptions[id].owner, message |-> n]

-----------------------------------------------------------------------------
\* Mutants: slips of the code that the properties below are there to catch.
HandleNotification_WakesAfterCancel ==
    LET h == Head(sigStrand)
    IN  /\ sigStrand # <<>>
        /\ h.kind = "notify"
        /\ IF h.id \in DOMAIN subscriptions
           THEN /\ subscriptions' = [subscriptions EXCEPT ![h.id].notification = h.message]
                /\ cancels' = Append(cancels, h.call)
                /\ IF h.message = Nothing
                   THEN /\ EndWaits(h.id, "aborted")
                        /\ sigStrand' = Tail(sigStrand) \o Resumptions(h.id)
                   ELSE wait' = wait /\ sigStrand' = Tail(sigStrand)
           ELSE sigStrand' = Tail(sigStrand) /\ UNCHANGED <<subscriptions, wait, cancels>>
        /\ UNCHANGED <<vars, verdict, reused>>

Subscribed_WaitsAlways(s, id) ==
    /\ SubscribeReturns(s, id)
    /\ reused' = IF id \in DOMAIN subscriptions THEN reused \cup {s} ELSE reused
    /\ IF s \in SignatureCalls /\ status'[s] = "subscribed"
       THEN /\ subscriptions' = Emplaced(id)
            /\ wait' = [wait EXCEPT ![s] = "waiting"]
       ELSE UNCHANGED <<subscriptions, wait>>
    /\ UNCHANGED <<sigStrand, cancels, verdict>>

-----------------------------------------------------------------------------
\* do_signature_subscribe, once the subscription is answered: an id that had an
\* entry keeps it, timer and all, and a wait on an expired timer ends at once.
Subscribed_Waits(s, id) ==
    /\ SubscribeReturns(s, id)
    /\ reused' = IF id \in DOMAIN subscriptions THEN reused \cup {s} ELSE reused
    /\ IF s \in SignatureCalls /\ status'[s] = "subscribed"
       THEN /\ subscriptions' = Emplaced(id)
            /\ IF subscriptions'[id].expired
               THEN /\ wait' = [wait EXCEPT ![s] = "timedOut"]
                    /\ sigStrand' = Append(sigStrand, [kind |-> "resume", call |-> s])
               ELSE wait' = [wait EXCEPT ![s] = "waiting"] /\ sigStrand' = sigStrand
       ELSE UNCHANGED <<subscriptions, wait, sigStrand>>
    /\ UNCHANGED <<cancels, verdict>>

\* do_notify of the WebSocket client: the callback of a signature is posted.
NotifySignature(id) ==
    /\ Notify(id, FALSE)
    /\ activeSubscriptions[id].owner \in SignatureCalls
    /\ sigStrand' = Append(sigStrand, Notification(id, activeSubscriptions[id].message))
    /\ UNCHANGED <<subscriptions, wait, cancels, verdict, reused>>

\* do_handle_signature_notification: the calls that wait are woken, and the
\* subscription is cancelled, whichever call it belongs to.
HandleNotification ==
    LET h == Head(sigStrand)
    IN  /\ sigStrand # <<>>
        /\ h.kind = "notify"
        /\ IF h.id \in DOMAIN subscriptions
           THEN /\ subscriptions' = [subscriptions EXCEPT ![h.id].notification = h.message]
                /\ EndWaits(h.id, "aborted")
                /\ sigStrand' = Tail(sigStrand) \o Resumptions(h.id)
                /\ cancels' = Append(cancels, h.call)
           ELSE sigStrand' = Tail(sigStrand) /\ UNCHANGED <<subscriptions, wait, cancels>>
        /\ UNCHANGED <<vars, verdict, reused>>

\* The end of do_signature_subscribe: an aborted wait returns what the entry holds
\* by now, and any other throws.
Resume ==
    LET h == Head(sigStrand)
        entry == subscriptions[subscriptionId[h.call]]
    IN  /\ sigStrand # <<>>
        /\ h.kind = "resume"
        /\ verdict' = [verdict EXCEPT ![h.call] =
                          IF wait[h.call] = "aborted" THEN entry.notification ELSE Timeout]
        /\ wait' = [wait EXCEPT ![h.call] = "none"]
        /\ sigStrand' = Tail(sigStrand)
        /\ UNCHANGED <<vars, subscriptions, cancels, reused>>

\* The 30 s that began when the entry was made.
TimerExpires(id) ==
    /\ id \in DOMAIN subscriptions
    /\ ~subscriptions[id].expired
    /\ subscriptions' = [subscriptions EXCEPT ![id].expired = TRUE]
    /\ EndWaits(id, "timedOut")
    /\ sigStrand' = sigStrand \o Resumptions(id)
    /\ UNCHANGED <<vars, cancels, verdict, reused>>

\* cancel_subscription, on the strand of the WebSocket client, by the id that the
\* call was given: twice for each call, because the cancellation notifies as well.
CancelSubscription ==
    /\ cancels # <<>>
    /\ Cancel(Head(cancels))
    /\ cancels' = Tail(cancels)
    /\ UNCHANGED <<subscriptions, wait, sigStrand, verdict, reused>>

\* The other clients of the WebSocket client, which cancel as they like.
OtherClient(s) == Unsubscribe(s) \/ UnsubscribeThrows(s) \/ Cancel(s)

OtherNotify(id) ==
    \E b \in BOOLEAN : Notify(id, b) /\ activeSubscriptions[id].owner \notin SignatureCalls

WsStep ==
    \/ \E s \in Subscribers : Subscribe(s) \/ SubscribeThrows(s)
    \/ \E s \in Subscribers \ SignatureCalls : OtherClient(s)
    \/ \E id \in SubscriptionIds :
          OtherNotify(id) \/ NotifyTimedOut(id) \/ Expire(id) \/ OnNotification(id)

SigNext ==
    \/ WsStep /\ UNCHANGED sigVars
    \/ \E s \in Subscribers, id \in SubscriptionIds : Subscribed_Waits(s, id)
    \/ \E id \in SubscriptionIds : NotifySignature(id) \/ TimerExpires(id)
    \/ HandleNotification \/ Resume \/ CancelSubscription

\* Both strands run what is queued, and timers run out.
SigFairness ==
    /\ \A id \in SubscriptionIds :
          /\ WF_allVars(NotifySignature(id))
          /\ WF_allVars((OtherNotify(id) \/ NotifyTimedOut(id)) /\ UNCHANGED sigVars)
          /\ WF_allVars(Expire(id) /\ UNCHANGED sigVars)
          /\ WF_allVars(TimerExpires(id))
    /\ WF_allVars(HandleNotification \/ Resume)
    /\ WF_allVars(CancelSubscription)

SigSpec == SigInit /\ [][SigNext]_allVars /\ SigFairness

-----------------------------------------------------------------------------
\* The verdict of a call is a notification its own subscription was given, and not
\* the empty one with which do_notify calls it back after the cancellation, unless
\* an earlier call had the id: the entry of that call is found then, and a late
\* notification of that call wakes this one.  A subscription that the cancellation
\* of another struck is called back with the empty one too.
VerdictIsOwn ==
    \A s \in SignatureCalls \ reused :
       status[s] # "struck" /\ verdict[s] >= 0 => verdict[s] # Nothing /\ Contains(delivered[s], verdict[s])

\* A call that waits ends, by a notification or by the timer, whoever else waits on
\* the entry and whether the subscription itself is still there.
EverySignatureCallEnds ==
    \A s \in SignatureCalls : wait[s] = "waiting" ~> verdict[s] # Pending
=============================================================================
