------------------------ MODULE SerumMarketDataClient ------------------------
(***************************************************************************)
(* Serum/SerumMarketDataClient over AccountSubscriber: the books of the    *)
(* markets, read once and then kept by notifications of their accounts,    *)
(* and the events of their queues.                                         *)
(*                                                                         *)
(* The accounts change on the chain at any time; a change between the read *)
(* and the subscription is not told.  The account of a version is what     *)
(* Slabs says for a side of the book; an event queue is counted by what    *)
(* was pushed and consumed.  Waiting for the books is the same pattern as  *)
(* for reference data, its timer armed when the client is made.            *)
(*                                                                         *)
(* Of Serum/SerumTypes: an order book is a slab, nodes in an array, a tree *)
(* from its root.  An event queue is a ring of slots, counted by the       *)
(* remainder of the size of the data by the size of an event, not by the   *)
(* quotient.                                                               *)
(***************************************************************************)
EXTENDS AccountSubscriber, ReferenceDataClient, Sequences, SequencesExt, FiniteSetsExt, TLC

CONSTANTS
    QueueDataSize,  \* bytes of an event queue account behind its header
    EventSize,      \* bytes of an event
    CallKey,        \* the account each call of account_subscribe is for
    MarketCalls,    \* the calls of this client
    Slabs,          \* the slabs of each side, by version
    MaxEvents,      \* bound: events pushed to the queue
    BaseLotSize, QuoteLotSize,  \* of the market
    PriceScale, QuantityScale   \* 10 to the decimals of the mints, taken together

VARIABLES
    account,        \* chain: the version of each account, the queue's the events pushed
    consumed,       \* chain: events consumed
    toNotify,       \* notifications under way, per key
    loading,        \* where do_load_market_data stands
    books,          \* the levels of each side
    told,           \* the book each of _onBooks, the callers that have the data, was told
    read,           \* history: the version each side's levels were made from
    missed,         \* history: sides that changed between read and subscription
    eventQueueSequenceNumber,
    processed       \* history: events processed, in order

serumVars == <<account, consumed, toNotify, loading, books, told, read, missed,
               eventQueueSequenceNumber, processed>>

\* Slots of the ring the program on chain writes to, and those the client counts.  Where
\* the division leaves nothing the client divides by zero.
Capacity == QueueDataSize \div EventSize
MaxItemCount == QueueDataSize % EventSize

\* The leaves of a slab are orders, and an inner node has its children below it.
WellFormed(slab) ==
    /\ slab.rootNode \in DOMAIN slab.nodes
    /\ \A n \in DOMAIN slab.nodes :
          slab.nodes[n].tag = "leaf" => slab.nodes[n].limitPrice \in Nat /\ slab.nodes[n].quantity \in Nat
    /\ \E height \in [DOMAIN slab.nodes -> 0 .. Cardinality(DOMAIN slab.nodes)] :
          \A n \in DOMAIN slab.nodes : slab.nodes[n].tag = "inner" =>
             \A i \in 1 .. 2 : /\ slab.nodes[n].children[i] \in DOMAIN slab.nodes
                              /\ height[slab.nodes[n].children[i]] < height[n]

ASSUME QueueAssumption == QueueDataSize \in Nat /\ EventSize \in Nat \ {0} /\ MaxItemCount > 0

ASSUME SlabsAssumption ==
    /\ BaseLotSize \in Nat \ {0} /\ QuoteLotSize \in Nat /\ PriceScale \in Nat /\ QuantityScale \in Nat
    /\ \A side \in {"bids", "asks"} :
          /\ 0 \in DOMAIN Slabs[side]
          /\ \A v \in DOMAIN Slabs[side] : Slabs[side][v].side = side /\ WellFormed(Slabs[side][v])

\* get_leaf_nodes: the leaves below the root, from left to right.  A free node, and one
\* never initialised, as the root of an empty slab, has none.
LeafNodes(slab) ==
    LET Below[n \in DOMAIN slab.nodes] ==
            CASE slab.nodes[n].tag = "inner" -> Below[slab.nodes[n].children[1]] \o Below[slab.nodes[n].children[2]]
              [] slab.nodes[n].tag = "leaf" -> <<slab.nodes[n]>>
              [] OTHER -> <<>>
    IN  Below[slab.rootNode]

\* account_to< SerumOrderbookAccount >
OrderbookAccount(slab) == [side |-> slab.side, orders |-> LeafNodes(slab)]

\* account_to< SerumEventQueueAccount >: the items from the head on.
EventQueueAccount(queue) ==
    [sequenceNumber |-> queue.sequenceNumber,
     events |-> [i \in 1 .. queue.count |-> queue.slots[(queue.head + i - 1) % MaxItemCount]]]

\* What each order offers at a price, and all of them together.
Offered(orders, price) ==
    [i \in DOMAIN orders |-> IF orders[i].price = price THEN orders[i].quantity ELSE 0]
SumQuantity(orders, price) == SumFunction(Offered(orders, price))

-----------------------------------------------------------------------------
BookKeys == {"bids", "asks"}

queueVars == <<eventQueueSequenceNumber, processed>>
chainVars == <<account, consumed, toNotify>>

SerumMdInit ==
    /\ RefInit /\ key = CallKey
    /\ account = [k \in Keys |-> 0] /\ consumed = 0
    /\ toNotify = [k \in Keys |-> <<>>]
    /\ loading = "referenceData"
    /\ books = [k \in BookKeys |-> <<>>] /\ told = [a \in Callers["marketData"] |-> <<>>] /\ read = [k \in BookKeys |-> 0] /\ missed = {}
    /\ eventQueueSequenceNumber = 0 /\ processed = <<>>

-----------------------------------------------------------------------------
\* What an account of a version holds.  An event is its number, from 1 on.
Queue(pushed, taken) ==
    [head |-> taken % Capacity, count |-> pushed - taken, sequenceNumber |-> pushed,
     slots |-> [i \in 0 .. Capacity - 1 |->
                  LET here == {n \in 1 .. pushed : (n - 1) % Capacity = i}
                  IN  IF here = {} THEN 0 ELSE Max(here)]]

\* do_update_book: an order at its price and quantity, scaled by constants of the market,
PriceQuantity(order) ==
    [price |-> (order.limitPrice * QuoteLotSize * PriceScale) \div BaseLotSize,
     quantity |-> order.quantity * BaseLotSize * QuantityScale]

Better(side, a, b) == IF side = "bids" THEN a.price > b.price ELSE a.price < b.price

\* the orders sorted by price; which of two at one price comes first makes no difference below.
SortOrders(side, orders) ==
    LET Before(i) == {j \in DOMAIN orders :
               \/ Better(side, orders[j], orders[i])
               \/ (j < i /\ ~Better(side, orders[i], orders[j]))}
    IN  [n \in DOMAIN orders |-> orders[CHOOSE i \in DOMAIN orders : Cardinality(Before(i)) = n - 1]]

\* Mutants: slips of the code that the properties below are there to catch.
MergeLevels_ComparesFirst(orders) ==
    FoldLeft(LAMBDA levels, o :
               IF levels = <<>> \/ Head(levels).price # o.price THEN Append(levels, o)
               ELSE [levels EXCEPT ![Len(levels)].quantity = @ + o.quantity],
             <<>>, orders)

\* and those at one price merged.
MergeOrder(levels, order) ==
    IF levels = <<>> \/ Last(levels).price # order.price THEN Append(levels, order)
    ELSE [levels EXCEPT ![Len(levels)].quantity = @ + order.quantity]

MergeLevels(orders) == FoldLeft(MergeOrder, <<>>, orders)

SideBook(orderbook) ==
    MergeLevels(SortOrders(orderbook.side, [i \in DOMAIN orderbook.orders |-> PriceQuantity(orderbook.orders[i])]))

\* A subscriber is told before the side is replaced.
UpdateBook_ToldBefore(k, version) ==
    /\ books' = [books EXCEPT ![k] = SideBook(OrderbookAccount(Slabs[k][version]))]
    /\ told' = [a \in DOMAIN told |-> IF call["marketData"][a] = "data" THEN books ELSE told[a]]
    /\ read' = [read EXCEPT ![k] = version]

\* and each subscriber is told.
UpdateBook(k, version) ==
    /\ books' = [books EXCEPT ![k] = SideBook(OrderbookAccount(Slabs[k][version]))]
    /\ told' = [a \in DOMAIN told |-> IF call["marketData"][a] = "data" THEN books' ELSE told[a]]
    /\ read' = [read EXCEPT ![k] = version]

\* The number of events to process: all of the first queue seen; after that the
\* difference is compared with 0, so that it is 1 where nothing was pushed and 0 else.
Unprocessed(queue) ==
    IF eventQueueSequenceNumber = 0 THEN Len(queue.events)
    ELSE IF queue.sequenceNumber - eventQueueSequenceNumber = 0 THEN 1 ELSE 0

\* do_on_event_queue_account; events are taken from the head of the queue.
ProcessEvents(queue) ==
    LET count == Min({Len(queue.events), Unprocessed(queue)})
    IN  /\ processed' = processed \o SubSeq(queue.events, 1, count)
        /\ eventQueueSequenceNumber' = queue.sequenceNumber

-----------------------------------------------------------------------------
\* do_load_market_data: the reference data comes, or the coroutine ends.
ReferenceDataReturns(ok) ==
    /\ loading = "referenceData"
    /\ loading' = IF ok THEN "accounts" ELSE "failed"
    /\ UNCHANGED <<chainVars, books, told, read, missed, queueVars>>
    /\ UNCHANGED <<vars, refVars>>

\* get_multiple_accounts: both sides are read; no one is told of the book.
SnapshotArrives ==
    /\ loading = "accounts"
    /\ loading' = "subscribing"
    /\ books' = [k \in BookKeys |-> SideBook(OrderbookAccount(Slabs[k][account[k]]))]
    /\ read' = [k \in BookKeys |-> account[k]]
    /\ UNCHANGED <<chainVars, told, missed, queueVars, vars, refVars>>

SnapshotFails ==
    /\ loading = "accounts"
    /\ loading' = "failed"
    /\ UNCHANGED <<chainVars, books, told, read, missed, queueVars, vars, refVars>>

\* The three subscriptions of the market are made together.
SubscribeMarket(c) ==
    /\ loading = "subscribing" /\ c \in MarketCalls
    /\ AccountSubscribe(c)
    /\ UNCHANGED serumVars /\ UNCHANGED refVars

\* When all have ended, one failure fails the load; else those that wait are woken.
MarketSubscribed ==
    /\ loading = "subscribing"
    /\ \A c \in MarketCalls : status[c] \in {"subscribed", "failed"}
    /\ IF \A c \in MarketCalls : status[c] = "subscribed"
       THEN loading' = "done" /\ Loaded("marketData")
       ELSE loading' = "failed" /\ LoadFails("marketData")
    /\ UNCHANGED <<chainVars, books, told, read, missed, queueVars>>
    /\ UNCHANGED vars

\* on_orderbook_account and on_event_queue_account.
OnNotification(id) ==
    \E k \in DOMAIN accountToCallback :
       /\ accountToCallback[k] = id
       /\ toNotify[k] # <<>> /\ Notify(id)
       /\ toNotify' = [toNotify EXCEPT ![k] = Tail(@)]
       /\ IF k \in BookKeys
          THEN UpdateBook(k, Head(toNotify[k])) /\ UNCHANGED queueVars
          ELSE /\ ProcessEvents(EventQueueAccount(Queue(Head(toNotify[k])[1], Head(toNotify[k])[2])))
               /\ UNCHANGED <<books, told, read>>
       /\ UNCHANGED <<account, consumed, loading, missed>> /\ UNCHANGED refVars

-----------------------------------------------------------------------------
\* The chain: an account changes, and the server tells of it if it is subscribed to.
Tell(k, what) ==
    toNotify' = IF k \in DOMAIN accountToCallback THEN [toNotify EXCEPT ![k] = Append(@, what)] ELSE toNotify

ChainStep ==
    /\ \/ \E k \in BookKeys : /\ account[k] + 1 \in DOMAIN Slabs[k]
                              /\ account' = [account EXCEPT ![k] = @ + 1]
                              /\ Tell(k, account[k] + 1) /\ UNCHANGED consumed
       \/ /\ account["events"] < MaxEvents /\ account["events"] - consumed < Capacity
          /\ account' = [account EXCEPT !["events"] = @ + 1]
          /\ Tell("events", <<account["events"] + 1, consumed>>) /\ UNCHANGED consumed
       \/ /\ consumed < account["events"]
          /\ consumed' = consumed + 1
          /\ Tell("events", <<account["events"], consumed + 1>>) /\ UNCHANGED account
    /\ UNCHANGED <<loading, books, told, read, missed, queueVars>>
    /\ UNCHANGED <<vars, refVars>>

\* do_orderbook_subscribe: the caller's callback is kept once the books are loaded, at
\* once or when the wait for them ends well.
BookSubscribe(a) == GetReferenceData("marketData", a) /\ UNCHANGED serumVars /\ UNCHANGED vars
SubscriberGoesOn(a) == CallerGoesOn("marketData", a) /\ UNCHANGED serumVars /\ UNCHANGED vars

MarketDataStep ==
    \/ \E ok \in BOOLEAN : ReferenceDataReturns(ok)
    \/ SnapshotArrives \/ SnapshotFails \/ MarketSubscribed
    \/ \E c \in MarketCalls : SubscribeMarket(c)
    \/ \E a \in DOMAIN told : SubscriberGoesOn(a)
    \/ DeadlinePasses("marketData") /\ UNCHANGED serumVars /\ UNCHANGED vars

-----------------------------------------------------------------------------
\* The levels of a side go strictly from the best price on, and at each price there is
\* just what the orders of the account offer there.
BookLadder ==
    loading \in {"subscribing", "done"} =>
       \A k \in BookKeys :
          LET levels == books[k]
              orders == LET leaves == LeafNodes(Slabs[k][read[k]])
                        IN  [i \in DOMAIN leaves |-> PriceQuantity(leaves[i])]
          IN  /\ \A i, j \in DOMAIN levels : i < j =>
                    IF k = "bids" THEN levels[i].price > levels[j].price ELSE levels[i].price < levels[j].price
              /\ {levels[i].price : i \in DOMAIN levels} = {orders[i].price : i \in DOMAIN orders}
              /\ \A i \in DOMAIN levels : levels[i].quantity = SumQuantity(orders, levels[i].price)

\* A side is behind its account only by what is under way, unless the account changed
\* between the read and the subscription; and who was told of a book was told of both
\* sides as they are.
BooksFollowAccounts ==
    /\ \A k \in DOMAIN accountToCallback \cap BookKeys :
          k \notin missed \/ notified[accountToCallback[k]] > 0 =>
             read[k] = account[k] - Len(toNotify[k])
    /\ \A a \in DOMAIN told : told[a] # <<>> => told[a] = books
==============================================================================
