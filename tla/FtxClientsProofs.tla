--------------------------- MODULE FtxClientsProofs ---------------------------
(***************************************************************************)
(* Proofs about FtxClients, for any orders, subscriptions, callers,        *)
(* configuration and answers of FTX.                                       *)
(***************************************************************************)
EXTENDS FtxClients, FiniteSetTheorems, DataLemmas, TLAPS

Places == Sending \cup {"idle", "returned", "failed"}
Reports == [order_state : States, fill : 0 .. Quantity]
Updates == [order : Orders, state : States, fill : 0 .. Quantity]

OrdersTypeOK ==
    /\ DOMAIN orders \subseteq Orders
    /\ status \in [Orders -> Places]
    /\ result \in [Orders -> Reports]
    /\ exchange \in [Orders -> [state : States \cup {"none"}, fill : 0 .. Quantity]]
    /\ channel \in Seq(Updates)

\* A report of an order that is behind the exchange or level with it.
NotAhead(c, state, fill) ==
    /\ fill =< exchange[c].fill
    /\ state = "CLOSED" => exchange[c] = [state |-> "CLOSED", fill |-> fill]

\* No update is ahead, and CLOSED is the last that is told of an order.
ChannelInOrder ==
    /\ \A i \in DOMAIN channel : NotAhead(channel[i].order, channel[i].state, channel[i].fill)
    /\ \A i, j \in DOMAIN channel :
          channel[i].state = "CLOSED" /\ i < j => channel[j].order # channel[i].order

\* Of one order: it is in the table while its call goes on; what the client knows and what
\* the call returned is not ahead; and nothing follows the CLOSED that wakes the call.
OrderOK(c) ==
    /\ exchange[c].state = "none" => exchange[c].fill = 0
    /\ c \in DOMAIN orders <=> status[c] \in Sending
    /\ c \in DOMAIN orders =>
          /\ orders[c] \in OrderSubscription
          /\ NotAhead(c, orders[c].order_state, orders[c].fill)
          /\ orders[c].order_state = "CLOSED" => \A i \in DOMAIN channel : channel[i].order # c
    /\ status[c] = "aborted" => orders[c].order_state = "CLOSED"
    /\ status[c] = "returned" => NotAhead(c, result[c].order_state, result[c].fill)

OrdersIInv == OrdersTypeOK /\ ChannelInOrder /\ \A c \in Orders : OrderOK(c)

-----------------------------------------------------------------------------
\* What the steps of the clients together do to the order client.
OrdersStep(c) ==
    \/ SendOrder(c) \/ RestResponds(c) \/ RestFails(c) \/ Expire(c) \/ Resume(c)
    \/ TakeOrder(c) \/ CloseOrder(c)
    \/ \E fill \in 1 .. Quantity : FillOrder(c, fill)

LEMMA StepOfOrders ==
    [FtxNext]_ftxVars =>
       \/ UNCHANGED vars
       \/ LoginSent \/ DelayOver \/ Authenticate \/ \E ok : ReferenceDataLoaded(ok)
       \/ LoseConnection \/ OnMessage
       \/ \E c \in Orders : OrdersStep(c)
BY DEF FtxNext, ftxVars, FtxProgramStep, OrderClientStep, LoginGoesOn, OrderAnswered, OrderGoesOn,
       Login, OrderSent, WalletCalls, ExchangeStep, RestServes, OrdersKept, OrdersStep

LEMMA OrdersInit == FtxInit => OrdersIInv
<1> SUFFICES ASSUME FtxInit PROVE OrdersIInv
    OBVIOUS
<1>1. /\ orders = [c \in {} |-> NewOrder] /\ channel = <<>>
      /\ status = [c \in Orders |-> "idle"] /\ result = [c \in Orders |-> Unsent]
      /\ exchange = [c \in Orders |-> [state |-> "none", fill |-> 0]]
    BY DEF FtxInit, Init
<1>2. DOMAIN orders = {} /\ DOMAIN channel = {}
    BY <1>1
<1>3. OrdersTypeOK
    BY <1>1, <1>2, QuantityAssumption DEF OrdersTypeOK, Places, Reports, States, Unsent
<1>4. ChannelInOrder
    BY <1>2 DEF ChannelInOrder
<1>5. \A c \in Orders : OrderOK(c)
    BY <1>1, <1>2 DEF OrderOK, Sending
<1> QED BY <1>3, <1>4, <1>5 DEF OrdersIInv

\* Steps that only the session of the channel sees, and the loss of what is on it.
LEMMA SessionStep ==
    ASSUME OrdersIInv,
           client' = client, exchange' = exchange, channel' = channel \/ channel' = <<>>
    PROVE  OrdersIInv'
<1> USE DEF OrdersIInv
<1>1. /\ orders' = orders /\ status' = status /\ result' = result
    BY DEF client
<1>2. <<>> \in Seq(Updates) /\ DOMAIN <<>> = {}
    OBVIOUS
<1>3. OrdersTypeOK'
    BY <1>1, <1>2 DEF OrdersTypeOK
<1>4. ChannelInOrder'
    BY <1>2 DEF ChannelInOrder, NotAhead
<1>5. ASSUME NEW c \in Orders PROVE OrderOK(c)'
    BY <1>1, <1>2 DEF OrderOK, NotAhead
<1> QED BY <1>3, <1>4, <1>5

\* What a call does to its own order leaves the others as they are.
LEMMA CallStep ==
    ASSUME OrdersIInv, NEW c \in Orders,
           SendOrder(c) \/ RestResponds(c) \/ RestFails(c) \/ Expire(c) \/ Resume(c)
    PROVE  OrdersIInv'
<1> USE DEF OrdersIInv
<1>1. /\ exchange' = exchange /\ channel' = channel
      /\ \A d \in Orders \ {c} : status'[d] = status[d]
      /\ \A d \in Orders \ {c} : result'[d] = result[d]
      /\ \A d \in Orders \ {c} : d \in DOMAIN orders' <=> d \in DOMAIN orders
      /\ \A d \in DOMAIN orders \ {c} : orders'[d] = orders[d]
    BY DEF SendOrder, RestResponds, RestFails, Expire, Resume, Without, OrdersTypeOK
<1>2. OrderOK(c)
    OBVIOUS
<1>3. OrdersTypeOK'
  <2>1. /\ DOMAIN orders' \subseteq Orders
        /\ status' \in [Orders -> Places]
      BY <1>1 DEF SendOrder, RestResponds, RestFails, Expire, Resume, Without, OrdersTypeOK,
                  Places, Sending
  <2>2. result' \in [Orders -> Reports]
    <3>1. CASE Resume(c)
      <4>1. orders[c] \in OrderSubscription
          BY <1>2, <3>1 DEF Resume, OrderOK, Sending
      <4>2. Seen(orders[c]) \in Reports
          BY <4>1 DEF OrderSubscription, Reports, Seen
      <4> QED BY <3>1, <4>2 DEF Resume, OrdersTypeOK
    <3>2. CASE ~Resume(c)
        BY <3>2 DEF SendOrder, RestResponds, RestFails, Expire, OrdersTypeOK
    <3> QED BY <3>1, <3>2
  <2> QED BY <1>1, <2>1, <2>2 DEF OrdersTypeOK
<1>4. ChannelInOrder'
    BY <1>1 DEF ChannelInOrder, NotAhead
<1>5. OrderOK(c)'
  <2>1. CASE SendOrder(c)
    <3>1. /\ status[c] = "idle" /\ status'[c] = "requesting"
          /\ c \in DOMAIN orders' /\ orders'[c] = NewOrder
        BY <2>1 DEF SendOrder, OrdersTypeOK
    <3>2. exchange[c].fill \in Nat
        BY <1>2, <3>1, QuantityAssumption DEF OrderOK, Sending, OrdersTypeOK
    <3>3. NewOrder \in OrderSubscription
        BY QuantityAssumption DEF NewOrder, OrderSubscription, States
    <3> QED BY <1>1, <1>2, <3>1, <3>2, <3>3 DEF OrderOK, NotAhead, NewOrder, Sending
  <2>2. CASE RestResponds(c)
      BY <1>2, <2>2 DEF RestResponds, OrderOK, NotAhead, Sending, OrdersTypeOK
  <2>3. CASE RestFails(c)
      BY <1>2, <2>3 DEF RestFails, OrderOK, NotAhead, Without, Sending, OrdersTypeOK
  <2>4. CASE Expire(c)
    <3> DEFINE expired == [orders[c] EXCEPT !.expiryTimer = "expired"]
    <3>1. c \in DOMAIN orders /\ DOMAIN orders' = DOMAIN orders /\ orders'[c] = expired
        BY <2>4 DEF Expire
    <3>3. status'[c] = IF status[c] = "waiting" THEN "timedOut" ELSE status[c]
      <4>1. DOMAIN status = Orders
          BY DEF OrdersTypeOK
      <4> QED BY <2>4, <4>1 DEF Expire
    <3>2. /\ expired \in OrderSubscription
          /\ expired.order_state = orders[c].order_state /\ expired.fill = orders[c].fill
        BY <1>2, <3>1 DEF OrderOK, OrderSubscription
    <3> QED BY <1>1, <1>2, <3>1, <3>2, <3>3 DEF OrderOK, NotAhead, Sending
  <2>5. CASE Resume(c)
      BY <1>2, <2>5 DEF Resume, OrderOK, NotAhead, Without, Seen, Sending, OrdersTypeOK
  <2> QED BY <2>1, <2>2, <2>3, <2>4, <2>5
<1>6. ASSUME NEW d \in Orders \ {c} PROVE OrderOK(d)'
  <2>1. /\ status'[d] = status[d] /\ result'[d] = result[d]
        /\ d \in DOMAIN orders' <=> d \in DOMAIN orders
        /\ d \in DOMAIN orders => orders'[d] = orders[d]
      BY <1>1
  <2>2. OrderOK(d)
      OBVIOUS
  <2> QED BY <1>1, <2>1, <2>2 DEF OrderOK, NotAhead, Sending
<1> QED BY <1>3, <1>4, <1>5, <1>6

\* A step of the exchange: its order goes on, and what it tells is its last word.
LEMMA ExchangeTells ==
    ASSUME OrdersIInv, NEW c \in Orders,
           NEW state \in States, NEW fill \in 0 .. Quantity, Tell(c, state, fill),
           exchange[c].state # "CLOSED", exchange[c].fill =< fill
    PROVE  OrdersIInv'
<1> USE DEF OrdersIInv
<1> DEFINE m == [order |-> c, state |-> state, fill |-> fill]
<1>1. /\ orders' = orders /\ status' = status /\ result' = result
      /\ exchange'[c] = [state |-> state, fill |-> fill]
      /\ \A d \in Orders \ {c} : exchange'[d] = exchange[d]
      /\ channel' = channel \/ channel' = Append(channel, m)
    BY DEF Tell, client, OrdersTypeOK
<1>2. /\ m \in Updates
      /\ channel \in Seq(Updates)
    BY DEF Updates, OrdersTypeOK
<1>3. /\ DOMAIN channel \subseteq DOMAIN channel'
      /\ \A i \in DOMAIN channel : channel'[i] = channel[i] /\ channel[i] \in Updates
      /\ \A i \in DOMAIN channel' \ DOMAIN channel :
            channel'[i] = m /\ \A j \in DOMAIN channel : j < i
      /\ \A i, j \in DOMAIN channel' \ DOMAIN channel : i = j
      /\ channel' \in Seq(Updates)
      /\ DOMAIN channel' \subseteq Nat
  <2>1. CASE channel' = channel
      BY <1>2, <2>1
  <2>2. CASE channel' = Append(channel, m)
      BY <1>2, <2>2
  <2> QED BY <1>1, <2>1, <2>2
<1>4. ASSUME NEW d \in Orders, NEW s, NEW f \in 0 .. Quantity, NotAhead(d, s, f)
      PROVE  /\ NotAhead(d, s, f)'
             /\ s = "CLOSED" => d # c
    BY <1>1, <1>4 DEF NotAhead, OrdersTypeOK
<1>5. OrdersTypeOK'
    BY <1>1, <1>3 DEF OrdersTypeOK, Tell
<1>6. ChannelInOrder'
  <2>1. ASSUME NEW i \in DOMAIN channel'
        PROVE  NotAhead(channel[i].order, channel[i].state, channel[i].fill)'
    <3>1. CASE i \in DOMAIN channel
        BY <1>3, <1>4, <3>1 DEF ChannelInOrder, Updates
    <3>2. CASE i \notin DOMAIN channel
        BY <1>1, <1>3, <3>2 DEF NotAhead
    <3> QED BY <3>1, <3>2
  <2>2. ASSUME NEW i \in DOMAIN channel', NEW j \in DOMAIN channel',
               channel'[i].state = "CLOSED", i < j
        PROVE  channel'[j].order # channel'[i].order
    <3>1. CASE i \in DOMAIN channel /\ j \in DOMAIN channel
        BY <1>3, <2>2, <3>1 DEF ChannelInOrder
    <3>2. CASE i \in DOMAIN channel /\ j \notin DOMAIN channel
        BY <1>3, <1>4, <2>2, <3>2 DEF ChannelInOrder, Updates
    <3>3. CASE i \notin DOMAIN channel
        BY <1>3, <2>2, <3>3
    <3> QED BY <3>1, <3>2, <3>3
  <2> QED BY <2>1, <2>2 DEF ChannelInOrder
<1>7. ASSUME NEW d \in Orders PROVE OrderOK(d)'
  <2>1. OrderOK(d)
      OBVIOUS
  <2>2. exchange'[d].state = "none" => exchange'[d].fill = 0
      BY <1>1, <2>1 DEF OrderOK, States
  <2>3. d \in DOMAIN orders =>
           /\ NotAhead(d, orders[d].order_state, orders[d].fill)'
           /\ orders[d].order_state = "CLOSED" => \A i \in DOMAIN channel' : channel'[i].order # d
      BY <1>1, <1>3, <1>4, <2>1 DEF OrderOK, OrderSubscription
  <2>4. status[d] = "returned" => NotAhead(d, result[d].order_state, result[d].fill)'
      BY <1>1, <1>4, <2>1 DEF OrderOK, OrdersTypeOK, Reports
  <2> QED BY <1>1, <2>1, <2>2, <2>3, <2>4 DEF OrderOK
<1> QED BY <1>5, <1>6, <1>7

LEMMA ExchangeOrderStep ==
    ASSUME OrdersIInv, NEW c \in Orders,
           TakeOrder(c) \/ CloseOrder(c) \/ \E fill \in 1 .. Quantity : FillOrder(c, fill)
    PROVE  OrdersIInv'
<1>1. exchange[c].fill \in 0 .. Quantity /\ OrderOK(c)
    BY DEF OrdersIInv, OrdersTypeOK
<1>2. CASE TakeOrder(c)
    BY <1>1, <1>2, ExchangeTells, QuantityAssumption DEF TakeOrder, OrderOK, States
<1>3. CASE CloseOrder(c)
    BY <1>1, <1>3, ExchangeTells DEF CloseOrder, States
<1>4. ASSUME NEW fill \in 1 .. Quantity, FillOrder(c, fill) PROVE OrdersIInv'
    BY <1>1, <1>4, ExchangeTells DEF FillOrder, States
<1> QED BY <1>2, <1>3, <1>4

\* An update is read from the channel, and the entry of its order brought up to it.
LEMMA MessageStep ==
    ASSUME OrdersIInv, OnMessage
    PROVE  OrdersIInv'
<1> USE DEF OrdersIInv
<1> DEFINE m == channel[1]
<1>1. /\ channel \in Seq(Updates) /\ channel # <<>>
      /\ channel' = Tail(channel) /\ Head(channel) = m
      /\ result' = result /\ exchange' = exchange
    BY DEF OnMessage, OrdersTypeOK
<1>2. /\ m \in Updates /\ 1 \in DOMAIN channel
      /\ channel' \in Seq(Updates)
      /\ \A i \in DOMAIN channel' : i + 1 \in DOMAIN channel /\ channel'[i] = channel[i + 1] /\ 1 < i + 1
      /\ DOMAIN channel' \subseteq Nat
    BY <1>1
<1>3. ChannelInOrder'
  <2>1. ASSUME NEW i \in DOMAIN channel'
        PROVE  NotAhead(channel[i].order, channel[i].state, channel[i].fill)'
      BY <1>1, <1>2 DEF ChannelInOrder, NotAhead
  <2>2. ASSUME NEW i \in DOMAIN channel', NEW j \in DOMAIN channel',
               channel'[i].state = "CLOSED", i < j
        PROVE  channel'[j].order # channel'[i].order
    <3>1. i + 1 < j + 1
        BY <1>2, <2>2
    <3> QED BY <1>2, <2>2, <3>1 DEF ChannelInOrder
  <2> QED BY <2>1, <2>2 DEF ChannelInOrder
<1>4. CASE OnUnexpectedOrder(m)
  <2>1. orders' = orders /\ status' = status
      BY <1>4 DEF OnUnexpectedOrder
  <2>2. OrdersTypeOK'
      BY <1>1, <1>2, <2>1 DEF OrdersTypeOK
  <2>3. ASSUME NEW d \in Orders PROVE OrderOK(d)'
      BY <1>1, <1>2, <2>1 DEF OrderOK, NotAhead
  <2> QED BY <1>3, <2>2, <2>3
<1>5. ASSUME NEW c \in Orders, c = m.order, OnOrderMessage(m)
      PROVE  OrdersIInv'
  <2>1. /\ m.state \in States /\ m.fill \in 0 .. Quantity
        /\ c \in DOMAIN orders /\ orders[c] \in OrderSubscription
        /\ status[c] \in Sending
        /\ NotAhead(c, m.state, m.fill)
        /\ m.state = "CLOSED" => \A i \in DOMAIN channel' : channel'[i].order # c
        /\ orders[c].order_state # "CLOSED"
      BY <1>2, <1>5 DEF OnOrderMessage, Updates, OrderOK, ChannelInOrder
  <2>2. /\ DOMAIN orders' = DOMAIN orders
        /\ \A d \in DOMAIN orders \ {c} : orders'[d] = orders[d]
        /\ orders'[c] = [orders[c] EXCEPT !.order_state = m.state, !.fill = m.fill]
      BY <1>5, <2>1 DEF OnOrderMessage
  <2>7. /\ \A d \in Orders \ {c} : status'[d] = status[d]
        /\ status'[c] = IF m.state = "CLOSED" /\ status[c] = "waiting" THEN "aborted" ELSE status[c]
        /\ status' \in [Orders -> Places]
      BY <1>5, <2>1 DEF OnOrderMessage, OrdersTypeOK, Places, Sending
  <2>8. /\ orders'[c] \in OrderSubscription
        /\ orders'[c].order_state = m.state /\ orders'[c].fill = m.fill
      BY <2>1, <2>2 DEF OrderSubscription
  <2>4. OrdersTypeOK'
      BY <1>1, <1>2, <2>1, <2>2, <2>7 DEF OrdersTypeOK
  <2>5. OrderOK(c)'
    <3>1. OrderOK(c) /\ status[c] # "aborted"
        BY <2>1 DEF OrderOK
    <3>3. /\ status'[c] \in Sending /\ status'[c] # "returned"
          /\ status'[c] = "aborted" => orders'[c].order_state = "CLOSED"
      <4>1. CASE m.state = "CLOSED" /\ status[c] = "waiting"
          BY <2>7, <2>8, <4>1 DEF Sending
      <4>2. CASE ~(m.state = "CLOSED" /\ status[c] = "waiting")
          BY <2>1, <2>7, <3>1, <4>2 DEF Sending
      <4> QED BY <4>1, <4>2
    <3> QED BY <1>1, <2>1, <2>2, <2>8, <3>1, <3>3 DEF OrderOK, NotAhead
  <2>6. ASSUME NEW d \in Orders \ {c} PROVE OrderOK(d)'
    <3>1. OrderOK(d)
        OBVIOUS
    <3>2. /\ status'[d] = status[d]
          /\ d \in DOMAIN orders' <=> d \in DOMAIN orders
          /\ d \in DOMAIN orders => orders'[d] = orders[d]
        BY <2>2, <2>7
    <3>3. (\A i \in DOMAIN channel : channel[i].order # d) =>
             \A i \in DOMAIN channel' : channel'[i].order # d
        BY <1>2
    <3> QED BY <1>1, <3>1, <3>2, <3>3 DEF OrderOK, NotAhead, Sending
  <2> QED BY <1>3, <2>4, <2>5, <2>6
<1> QED BY <1>1, <1>2, <1>4, <1>5 DEF OnMessage, Updates

LEMMA OrdersInductive == OrdersIInv /\ [FtxNext]_ftxVars => OrdersIInv'
<1> SUFFICES ASSUME OrdersIInv, [FtxNext]_ftxVars PROVE OrdersIInv'
    OBVIOUS
<1>1. CASE UNCHANGED vars
    BY <1>1, SessionStep DEF vars
<1>2. CASE LoginSent \/ DelayOver \/ Authenticate \/ \E ok : ReferenceDataLoaded(ok)
    BY <1>2, SessionStep DEF LoginSent, DelayOver, Authenticate, ReferenceDataLoaded
<1>3. CASE LoseConnection
    BY <1>3, SessionStep DEF LoseConnection
<1>4. CASE OnMessage
    BY <1>4, MessageStep
<1>5. ASSUME NEW c \in Orders, OrdersStep(c) PROVE OrdersIInv'
    BY <1>5, CallStep, ExchangeOrderStep DEF OrdersStep
<1> QED BY <1>1, <1>2, <1>3, <1>4, <1>5, StepOfOrders

\* A call is woken early, and an order returned as CLOSED, only with the state and the
\* fill the exchange has closed it with; any other report of send_order may be behind
\* the exchange, never ahead of it.
THEOREM ResultNotAheadHolds == FtxSpec => []ResultNotAhead
<1>1. OrdersIInv => ResultNotAhead
    BY DEF OrdersIInv, OrderOK, NotAhead, ResultNotAhead, Sending
<1> QED BY <1>1, OrdersInit, OrdersInductive, PTL DEF FtxSpec

-----------------------------------------------------------------------------
\* What find_if finds in the configuration.
LEMMA FindFacts ==
    ASSUME NEW S, NEW s \in Seq(S), NEW x, Find(s, x) # 0
    PROVE  Find(s, x) \in DOMAIN s /\ s[Find(s, x)] = x
<1> DEFINE I == {i \in 1 .. Len(s) : s[i] = x}
<1>1. Find(s, x) = IF I # {} THEN Min(I) ELSE 0
    BY DEF Find, SelectInSeq
<1>2. I \in SUBSET Nat
    OBVIOUS
<1>3. I # {} => Min(I) \in I
  <2> HIDE DEF I
  <2> QED BY <1>2, MinIsLeast
<1> QED BY <1>1, <1>3


Market == [name : STRING, base : STRING, quote : STRING]
Named(list, n) == {i \in DOMAIN list : list[i].name = n}
Before(S, i) == {j \in S : j < i}
Earlier(p) == {q \in 1 .. p - 1 : MarketNames[q] = MarketNames[p]}
Left(list, p) == {i \in Named(list, MarketNames[p]) :
                     Cardinality(Before(Named(list, MarketNames[p]), i)) >= Cardinality(Earlier(p))}

LEMMA FindMarketFacts ==
    ASSUME NEW list \in Seq(Market), NEW p \in DOMAIN MarketNames, FindMarket(list, p) # 0
    PROVE  /\ FindMarket(list, p) \in Left(list, p)
           /\ \A i \in Left(list, p) : FindMarket(list, p) =< i
<1>1. FindMarket(list, p) = IF Left(list, p) = {} THEN 0 ELSE Min(Left(list, p))
    BY Zenon DEF FindMarket, Left, Named, Before, Earlier
<1>2. Left(list, p) \in SUBSET Nat
    BY DEF Left, Named
<1> QED BY <1>1, <1>2, MinIsLeast

\* Of two pairs with one name the later finds another market: what the first has found,
\* and all before it, is passed over.
LEMMA MarketsDiffer ==
    ASSUME NEW list \in Seq(Market),
           NEW p \in DOMAIN MarketNames, NEW q \in DOMAIN MarketNames, p < q,
           MarketNames[p] = MarketNames[q], FindMarket(list, p) # 0, FindMarket(list, q) # 0
    PROVE  FindMarket(list, p) # FindMarket(list, q)
<1> SUFFICES ASSUME NEW i \in Nat, FindMarket(list, p) = i, FindMarket(list, q) = i
             PROVE  FALSE
  <2>1. FindMarket(list, p) \in DOMAIN list
      BY FindMarketFacts DEF Left, Named
  <2> QED BY <2>1
<1> DEFINE N == Named(list, MarketNames[p])
<1>1. N \in SUBSET Nat /\ p \in Nat /\ q \in Nat /\ IsFiniteSet(N)
  <2>1. DOMAIN list = 1 .. Len(list) /\ Len(list) \in Nat
      OBVIOUS
  <2>2. IsFiniteSet(DOMAIN list)
      BY <2>1, FS_Interval
  <2>3. N \in SUBSET DOMAIN list
      BY DEF Named
  <2>4. p \in Nat /\ q \in Nat
      BY ConfigurationAssumption
  <2> QED BY <2>1, <2>2, <2>3, <2>4, FS_Subset
<1>2. \A k \in N : IsFiniteSet(Before(N, k)) /\ Cardinality(Before(N, k)) \in Nat
  <2> HIDE DEF N
  <2> TAKE k \in N
  <2>1. Before(N, k) \in SUBSET N
      BY DEF Before
  <2> QED BY <1>1, <2>1, FS_Subset, FS_CardinalityType
<1>3. /\ IsFiniteSet(Earlier(p)) /\ Cardinality(Earlier(p)) \in Nat
      /\ Cardinality(Earlier(q)) \in Nat
      /\ Cardinality(Earlier(p)) < Cardinality(Earlier(q))
  <2>1. IsFiniteSet(1 .. q - 1)
      BY <1>1, FS_Interval
  <2>2. Earlier(q) \in SUBSET (1 .. q - 1)
      BY DEF Earlier
  <2>3. IsFiniteSet(Earlier(q)) /\ Cardinality(Earlier(q)) \in Nat
      BY <2>1, <2>2, FS_Subset, FS_CardinalityType
  <2>4. /\ Earlier(p) \in SUBSET Earlier(q)
        /\ p \in Earlier(q) /\ p \notin Earlier(p)
      BY <1>1, ConfigurationAssumption DEF Earlier
  <2>5. /\ IsFiniteSet(Earlier(p)) /\ Cardinality(Earlier(p)) =< Cardinality(Earlier(q))
        /\ Cardinality(Earlier(p)) # Cardinality(Earlier(q))
      BY <2>3, <2>4, FS_Subset
  <2>6. Cardinality(Earlier(p)) \in Nat
      BY <2>5, FS_CardinalityType
  <2> QED BY <2>3, <2>5, <2>6
<1>4. i \in N /\ Cardinality(Before(N, i)) >= Cardinality(Earlier(q))
    BY FindMarketFacts DEF Left
<1>5. PICK j \in Before(N, i) : \A k \in Before(N, i) : k =< j
  <2> HIDE DEF N
  <2>1. Cardinality(Before(N, i)) # 0
      BY <1>2, <1>3, <1>4
  <2>2. Before(N, i) # {}
      BY <2>1, FS_EmptySet
  <2>3. Before(N, i) \in SUBSET Nat
      BY <1>1 DEF Before
  <2>4. \A k \in Before(N, i) : k \in Nat /\ k =< i
      BY <1>1 DEF Before
  <2> QED BY <2>2, <2>3, <2>4, GreatestExists
<1>6. j \in N /\ j < i /\ j \in Nat
    BY <1>1 DEF Before
<1>7. Before(N, j) = Before(N, i) \ {j}
  <2> HIDE DEF N
  <2>1. \A k \in N : k < j <=> k < i /\ k # j
      BY <1>1, <1>5, <1>6 DEF Before
  <2> QED BY <2>1 DEF Before
<1>8. Cardinality(Before(N, j)) = Cardinality(Before(N, i)) - 1
  <2> HIDE DEF N
  <2>1. Cardinality(Before(N, i) \ {j}) = Cardinality(Before(N, i)) - 1
      BY <1>2, <1>4, <1>5, FS_RemoveElement
  <2> QED BY <1>7, <2>1
<1>9. Cardinality(Before(N, j)) >= Cardinality(Earlier(p))
  <2> HIDE DEF N
  <2> QED BY <1>2, <1>3, <1>4, <1>8
<1>10. j \in Left(list, p)
    BY <1>6, <1>9 DEF Left
<1> QED BY <1>6, <1>10, FindMarketFacts

-----------------------------------------------------------------------------
\* The markets are what FTX answered, once for all.
PairsIInv == markets \in Seq(Market) /\ PairsMatchMarkets

LEMMA StepOfReferenceData ==
    [FtxNext]_ftxVars =>
       \/ LoadStep
       \/ markets' = markets /\ loading' = loading /\ tradingPairs' = tradingPairs
BY DEF FtxNext, ftxVars, FtxProgramStep, OrderClientStep, LoginGoesOn, OrderAnswered, OrderGoesOn,
       Login, OrderSent, WalletCalls, ExchangeStep, RestServes, OrdersKept, LoadKept, ftxRefVars

\* Every pair is found, with its currencies, or the load fails.
LEMMA MarketsArriveStep ==
    ASSUME PairsIInv, MarketsArrive
    PROVE  PairsIInv'
<1>1. PICK list \in MarketLists :
         \/ loading' = "failed" /\ UNCHANGED <<markets, tradingPairs>>
         \/ /\ \A p \in DOMAIN MarketNames :
                  FindMarket(list, p) # 0 /\ PairIn(list, p).base # 0 /\ PairIn(list, p).quote # 0
            /\ loading' = "done" /\ markets' = list
            /\ tradingPairs' = [p \in DOMAIN MarketNames |-> PairIn(list, p)]
    BY DEF MarketsArrive
<1>2. CASE loading' = "failed" /\ UNCHANGED <<markets, tradingPairs>>
    BY <1>2 DEF PairsIInv, PairsMatchMarkets
<1>3. CASE /\ \A p \in DOMAIN MarketNames :
                 FindMarket(list, p) # 0 /\ PairIn(list, p).base # 0 /\ PairIn(list, p).quote # 0
           /\ loading' = "done" /\ markets' = list
           /\ tradingPairs' = [p \in DOMAIN MarketNames |-> PairIn(list, p)]
  <2>1. list \in Seq(Market)
      BY ConfigurationAssumption DEF Market
  <2>2. ASSUME NEW p \in DOMAIN MarketNames
        PROVE  LET pair == tradingPairs'[p]
               IN  /\ list[pair.market].name = MarketNames[p]
                   /\ pair.base \in DOMAIN CurrencyNames /\ pair.quote \in DOMAIN CurrencyNames
                   /\ CurrencyNames[pair.base] = list[pair.market].base
                   /\ CurrencyNames[pair.quote] = list[pair.market].quote
    <3>1. /\ tradingPairs'[p].market = FindMarket(list, p)
          /\ tradingPairs'[p].base = Find(CurrencyNames, list[FindMarket(list, p)].base)
          /\ tradingPairs'[p].quote = Find(CurrencyNames, list[FindMarket(list, p)].quote)
        BY <1>3 DEF PairIn
    <3>2. list[FindMarket(list, p)].name = MarketNames[p]
        BY <1>3, <2>1, FindMarketFacts DEF Left, Named
    <3>3. /\ Find(CurrencyNames, list[FindMarket(list, p)].base) # 0
          /\ Find(CurrencyNames, list[FindMarket(list, p)].quote) # 0
        BY <1>3 DEF PairIn
    <3> QED BY <3>1, <3>2, <3>3, FindFacts, ConfigurationAssumption
  <2>3. ASSUME NEW p \in DOMAIN MarketNames, NEW q \in DOMAIN MarketNames \ {p}
        PROVE  tradingPairs'[q].market # tradingPairs'[p].market
    <3>1. /\ tradingPairs'[p].market = FindMarket(list, p) /\ FindMarket(list, p) # 0
          /\ tradingPairs'[q].market = FindMarket(list, q) /\ FindMarket(list, q) # 0
        BY <1>3 DEF PairIn
    <3>2. CASE MarketNames[p] = MarketNames[q]
      <4>1. p < q \/ q < p
          BY ConfigurationAssumption
      <4> QED BY <2>1, <3>1, <3>2, <4>1, MarketsDiffer
    <3>3. CASE MarketNames[p] # MarketNames[q]
        BY <2>2, <3>1, <3>3
    <3> QED BY <3>2, <3>3
  <2> QED BY <1>3, <2>1, <2>2, <2>3, Zenon DEF PairsIInv, PairsMatchMarkets
<1> QED BY <1>1, <1>2, <1>3

LEMMA PairsInductive == PairsIInv /\ [FtxNext]_ftxVars => PairsIInv'
<1> SUFFICES ASSUME PairsIInv, [FtxNext]_ftxVars PROVE PairsIInv'
    OBVIOUS
<1>1. CASE MarketsArrive
    BY <1>1, MarketsArriveStep
<1>2. CASE LoadStarts \/ MarketsFail
    BY <1>2 DEF LoadStarts, MarketsFail, PairsIInv, PairsMatchMarkets
<1>3. CASE markets' = markets /\ loading' = loading /\ tradingPairs' = tradingPairs
    BY <1>3 DEF PairsIInv, PairsMatchMarkets
<1> QED BY <1>1, <1>2, <1>3, StepOfReferenceData DEF LoadStep

\* Each pair has a market of its own with the name configured for it, and the indexes of
\* the currencies that the market trades.
THEOREM PairsMatchMarketsHolds == FtxSpec => []PairsMatchMarkets
<1>1. FtxInit => PairsIInv
    BY ConfigurationAssumption DEF FtxInit, FtxRefInit, PairsIInv, PairsMatchMarkets, Market
<1>2. PairsIInv => PairsMatchMarkets
    BY DEF PairsIInv
<1> QED BY <1>1, <1>2, PairsInductive, PTL DEF FtxSpec

-----------------------------------------------------------------------------
\* The property is inductive, once the loops have their type.
LoopPlaces == {"none", "balances", "refused", "publishing", "waiting", "aborted", "ended"}
LoopsIInv ==
    /\ loop \in [Subscriptions -> LoopPlaces]
    /\ failed \in BOOLEAN
    /\ ALoopRuns

LEMMA StepOfWallet ==
    [FtxNext]_ftxVars =>
       \/ \E s \in Subscriptions : WalletStep(s)
       \/ loop' = loop /\ failed' = failed /\ onWallet' = onWallet
BY DEF FtxNext, ftxVars, FtxProgramStep, OrderClientStep, LoginGoesOn, OrderAnswered, OrderGoesOn,
       Login, OrderSent, WalletCalls, ExchangeStep, RestServes, WalletKept, walletVars

\* A loop that stops leaves another that goes on, or a failure.
LEMMA LoopsInductive == LoopsIInv /\ [FtxNext]_ftxVars => LoopsIInv'
<1> SUFFICES ASSUME LoopsIInv, [FtxNext]_ftxVars PROVE LoopsIInv'
    OBVIOUS
<1> USE DEF LoopsIInv, ALoopRuns, LoopPlaces
<1>1. CASE loop' = loop /\ failed' = failed /\ onWallet' = onWallet
    BY <1>1
<1>2. ASSUME NEW s \in Subscriptions, WalletStep(s) PROVE LoopsIInv'
  <2>1. CASE SubscribeWallet(s)
      BY <2>1 DEF SubscribeWallet
  <2>2. CASE TellWallet(s)
      BY <2>2 DEF TellWallet
  <2>3. CASE BalancesFail(s)
      BY <2>3 DEF BalancesFail
  <2>4. CASE UpdateAgain(s)
      BY <2>4 DEF UpdateAgain
  <2>5. CASE LoopEnds(s)
      BY <2>5 DEF LoopEnds
  <2>6. CASE WaitForUpdate(s)
      BY <2>6 DEF WaitForUpdate
  <2> QED BY <1>2, <2>1, <2>2, <2>3, <2>4, <2>5, <2>6 DEF WalletStep
<1> QED BY <1>1, <1>2, StepOfWallet

\* As long as no request for balances fails, a loop tells the wallet.
THEOREM ALoopRunsHolds == FtxSpec => []ALoopRuns
<1>1. FtxInit => LoopsIInv
    BY DEF FtxInit, WalletInit, LoopsIInv, LoopPlaces, ALoopRuns
<1>2. LoopsIInv => ALoopRuns
    BY DEF LoopsIInv
<1> QED BY <1>1, <1>2, LoopsInductive, PTL DEF FtxSpec
===============================================================================
