---------------------------- MODULE SlotSubscriber ----------------------------
(***************************************************************************)
(* Solana/SlotSubscriber: on slot notifications the recent blockhash is    *)
(* asked for again, and told to its subscribers.                           *)
(*                                                                         *)
(* Every notification has a coroutine of its own, which suspends while it  *)
(* publishes a measurement and while it asks for the blockhash, so several *)
(* refreshes can be under way and their answers come in any order.  A      *)
(* blockhash is identified by its last valid block height, 0 standing for  *)
(* none.                                                                   *)
(***************************************************************************)
EXTENDS Integers

CONSTANTS
    Notifications,          \* slot notifications of the server
    Subscribers,            \* calls of subscribe_recent_blockhash
    RefreshSlotInterval,    \* recent_blockhash_refresh_slot_interval
    MaxSlot,                \* bound: slots
    MaxBlockHeight          \* bound: block heights

ASSUME IntervalAssumption == RefreshSlotInterval \in Nat
ASSUME BoundsAssumption == MaxSlot \in Nat /\ MaxBlockHeight \in Nat

VARIABLES
    slotLoad,               \* where do_load_subscription stands
    handler,                \* where the coroutine of each notification stands
    slot,                   \* the slot of each notification
    recentBlockhashSlot,    \* _recentBlockhashSlot
    lastValidBlockHeight,   \* _lastValidBlockHeight
    recentBlockhash,        \* _recentBlockhash
    subscribing,            \* subscribers that are told, but not yet in the list
    onBlockhashCallbacks,   \* _onBlockhashCallbacks, by subscriber
    told,                   \* the blockhash each subscriber was last told
    overtaken               \* those that a refresh overtook while subscribing

recentVars == <<recentBlockhashSlot, lastValidBlockHeight, recentBlockhash>>
callbacks == <<subscribing, onBlockhashCallbacks, told, overtaken>>
slotVars == <<slotLoad, handler, slot, recentVars, callbacks>>

Slots == 0 .. MaxSlot
BlockHeights == 0 .. MaxBlockHeight

SlotInit ==
    /\ slotLoad = "subscribing"
    /\ handler = [n \in Notifications |-> "none"]
    /\ slot = [n \in Notifications |-> 0]
    /\ recentBlockhashSlot = 0 /\ lastValidBlockHeight = 0 /\ recentBlockhash = 0
    /\ subscribing = {} /\ onBlockhashCallbacks = {} /\ overtaken = {}
    /\ told = [s \in Subscribers |-> 0]

\* Every callback in the list is called.
Tell(height) ==
    /\ told' = [s \in Subscribers |-> IF s \in onBlockhashCallbacks THEN height ELSE told[s]]
    /\ overtaken' = (overtaken \ onBlockhashCallbacks) \cup subscribing
    /\ UNCHANGED <<subscribing, onBlockhashCallbacks>>

-----------------------------------------------------------------------------
\* Mutants: slips of the code that the properties below are there to catch.

\* The answer is taken without comparing its height.
BlockhashResponds_Unchecked(n, height) ==
    /\ handler[n] = "requesting"
    /\ handler' = [handler EXCEPT ![n] = "done"]
    /\ recentBlockhash' = height /\ lastValidBlockHeight' = height
    /\ Tell(height)
    /\ UNCHANGED <<slotLoad, slot, recentBlockhashSlot>>

\* A new subscriber waits for the next refresh.
SubscribeRecentBlockhash_NotTold(s) ==
    /\ s \notin subscribing \cup onBlockhashCallbacks
    /\ subscribing' = subscribing \cup {s}
    /\ UNCHANGED <<slotLoad, handler, slot, recentVars, onBlockhashCallbacks, told, overtaken>>

-----------------------------------------------------------------------------
\* do_load_subscription: an exception ends it unseen, and no notification comes.
LoadSubscription ==
    /\ slotLoad = "subscribing"
    /\ slotLoad' \in {"subscribed", "failed"}
    /\ UNCHANGED <<handler, slot, recentVars, callbacks>>

\* on_slot_notification and do_on_slot_notification, up to the measurement's publishing.
OnSlotNotification(n, newSlot) ==
    /\ slotLoad = "subscribed"
    /\ handler[n] = "none"
    /\ handler' = [handler EXCEPT ![n] = "publishing"]
    /\ slot' = [slot EXCEPT ![n] = newSlot]
    /\ UNCHANGED <<slotLoad, recentVars, callbacks>>

\* Then, if the slot is far enough from the recent one, the blockhash is asked for.
SlotPublished(n) ==
    /\ handler[n] = "publishing"
    /\ handler' = [handler EXCEPT ![n] =
          IF slot[n] < recentBlockhashSlot + RefreshSlotInterval THEN "done" ELSE "requesting"]
    /\ UNCHANGED <<slotLoad, slot, recentVars, callbacks>>

\* The answer is compared with what is known by now; _recentBlockhashSlot stays.
BlockhashResponds(n, height) ==
    /\ handler[n] = "requesting"
    /\ handler' = [handler EXCEPT ![n] = "done"]
    /\ IF height =< lastValidBlockHeight
       THEN UNCHANGED <<recentBlockhash, lastValidBlockHeight, callbacks>>
       ELSE recentBlockhash' = height /\ lastValidBlockHeight' = height /\ Tell(height)
    /\ UNCHANGED <<slotLoad, slot, recentBlockhashSlot>>

BlockhashThrows(n) ==
    /\ handler[n] = "requesting"
    /\ handler' = [handler EXCEPT ![n] = "done"]
    /\ UNCHANGED <<slotLoad, slot, recentVars, callbacks>>

\* do_subscribe_recent_blockhash: told at once if there is a blockhash, ...
SubscribeRecentBlockhash(s) ==
    /\ s \notin subscribing \cup onBlockhashCallbacks
    /\ subscribing' = subscribing \cup {s}
    /\ told' = IF recentBlockhash # 0 THEN [told EXCEPT ![s] = recentBlockhash] ELSE told
    /\ UNCHANGED <<slotLoad, handler, slot, recentVars, onBlockhashCallbacks, overtaken>>

\* ... then put into the list.  A refresh goes on in the thread of the client it awaited,
\* so that it can come between the two.
PushCallback(s) ==
    /\ s \in subscribing
    /\ subscribing' = subscribing \ {s}
    /\ onBlockhashCallbacks' = onBlockhashCallbacks \cup {s}
    /\ UNCHANGED <<slotLoad, handler, slot, recentVars, told, overtaken>>

SlotStep ==
    \/ LoadSubscription
    \/ \E n \in Notifications : SlotPublished(n) \/ BlockhashThrows(n)
    \/ \E n \in Notifications, height \in BlockHeights : BlockhashResponds(n, height)

-----------------------------------------------------------------------------
=============================================================================
