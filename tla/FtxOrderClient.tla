---------------------------- MODULE FtxOrderClient ----------------------------
(***************************************************************************)
(* Ftx/FtxOrderClient: an order is sent by REST and its course is told on  *)
(* the private WebSocket channel; do_send_order joins the two on a timer.  *)
(*                                                                         *)
(* The exchange is the environment: it may take an order whose REST answer *)
(* is lost, and its updates stop when the WebSocket reconnects, for no one *)
(* logs in again.  Client order ids, which are time stamps, and exchange   *)
(* order ids are distinct, so that an order stands for its ids.  Fills on  *)
(* the fills channel are only logged, and the table by exchange order ids, *)
(* which is written and never read, is left out.                           *)
(***************************************************************************)
EXTENDS Integers, Sequences

CONSTANTS
    Orders,     \* calls of send_order
    Quantity    \* quantity of each order

ASSUME QuantityAssumption == Quantity \in Nat

VARIABLES
    login,              \* where do_login stands
    orders,             \* _orders, by client order id
    status,             \* where each do_send_order stands
    result,             \* the order each call returned
    authenticated,      \* exchange: the channel is authenticated
    subscribed,         \* exchange: updates are sent on the channel
    exchange,           \* exchange: state and fill of each order
    channel             \* order updates on their way to the client, in order

client == <<orders, status, result>>
session == <<login, authenticated, subscribed>>
vars == <<client, session, exchange, channel>>

States == {"NEW", "OPEN", "CLOSED"}
NewOrder == [expiryTimer |-> "armed", order_state |-> "NEW", fill |-> 0]
OrderSubscription == [expiryTimer : {"armed", "expired"}, order_state : States,
                      fill : 0 .. Quantity]

\* do_send_order from its call to its return.
Sending == {"requesting", "waiting", "aborted", "timedOut"}

\* The order as the caller sees it.
Unsent == [order_state |-> "NEW", fill |-> 0]
Seen(o) == [order_state |-> o.order_state, fill |-> o.fill]

Without(f, c) == [d \in DOMAIN f \ {c} |-> f[d]]

Init ==
    /\ login = "idle"
    /\ orders = [c \in {} |-> NewOrder]
    /\ status = [c \in Orders |-> "idle"]
    /\ result = [c \in Orders |-> Unsent]
    /\ authenticated = FALSE /\ subscribed = FALSE
    /\ exchange = [c \in Orders |-> [state |-> "none", fill |-> 0]]
    /\ channel = <<>>

-----------------------------------------------------------------------------
\* Mutants: slips of the code that the properties below are there to catch.

\* CLOSED wakes the caller without taking over the fill.
OnOrderMessage_FillNotTaken(m) ==
    /\ m.order \in DOMAIN orders
    /\ orders' = [orders EXCEPT ![m.order].order_state = m.state]
    /\ status' = IF m.state = "CLOSED" /\ status[m.order] = "waiting"
                 THEN [status EXCEPT ![m.order] = "aborted"] ELSE status

\* The wait has no deadline of its own.
Expire_Never(c) ==
    /\ c \in DOMAIN orders
    /\ orders[c].expiryTimer = "expired"
    /\ UNCHANGED vars

-----------------------------------------------------------------------------
\* do_login: the login message is sent and the reference data asked for,
LoginSent ==
    /\ login = "idle"
    /\ login' = "loading"
    /\ UNCHANGED <<client, authenticated, subscribed, exchange, channel>>

\* whose failure fails the login;
ReferenceDataLoaded(ok) ==
    /\ login = "loading"
    /\ login' = IF ok THEN "delay" ELSE "failed"
    /\ UNCHANGED <<client, authenticated, subscribed, exchange, channel>>

\* a second later it subscribes to the channels, whatever became of the login.
DelayOver ==
    /\ login = "delay"
    /\ login' = "done"
    /\ subscribed' = authenticated
    /\ UNCHANGED <<client, authenticated, exchange, channel>>

\* do_send_order, up to its REST request, with no look at the login.  Before the reference
\* data is there the name of the market is read from an empty table: whatever it is then,
\* FTX takes the order or refuses it.
SendOrder(c) ==
    /\ status[c] = "idle"
    /\ status' = [status EXCEPT ![c] = "requesting"]
    /\ orders' = [d \in DOMAIN orders \cup {c} |-> IF d = c THEN NewOrder ELSE orders[d]]
    /\ UNCHANGED <<result, session, exchange, channel>>

\* The REST answer: the call goes on to wait for the timer, set when it was sent.
RestResponds(c) ==
    /\ status[c] = "requesting"
    /\ exchange[c].state # "none"
    /\ status' = [status EXCEPT ![c] =
          IF orders[c].expiryTimer = "armed" THEN "waiting" ELSE "timedOut"]
    /\ UNCHANGED <<orders, result, session, exchange, channel>>

\* A REST error is thrown on, after the entry is erased.
RestFails(c) ==
    /\ status[c] = "requesting"
    /\ status' = [status EXCEPT ![c] = "failed"]
    /\ orders' = Without(orders, c)
    /\ UNCHANGED <<result, session, exchange, channel>>

\* 30 s after send_order.
Expire(c) ==
    /\ c \in DOMAIN orders
    /\ orders[c].expiryTimer = "armed"
    /\ orders' = [orders EXCEPT ![c].expiryTimer = "expired"]
    /\ status' = [status EXCEPT ![c] = IF @ = "waiting" THEN "timedOut" ELSE @]
    /\ UNCHANGED <<result, session, exchange, channel>>

\* do_send_order after its wait: aborted or timed out, the order is returned as it
\* stands, and its entry erased.
Resume(c) ==
    /\ status[c] \in {"aborted", "timedOut"}
    /\ status' = [status EXCEPT ![c] = "returned"]
    /\ result' = [result EXCEPT ![c] = Seen(orders[c])]
    /\ orders' = Without(orders, c)
    /\ UNCHANGED <<session, exchange, channel>>

\* on_order_message: CLOSED cancels the timer, in vain if no one waits on it yet.
OnOrderMessage(m) ==
    /\ m.order \in DOMAIN orders
    /\ orders' = [orders EXCEPT ![m.order].order_state = m.state, ![m.order].fill = m.fill]
    /\ status' = IF m.state = "CLOSED" /\ status[m.order] = "waiting"
                 THEN [status EXCEPT ![m.order] = "aborted"] ELSE status

\* An update of an order that is not in the table is dropped.
OnUnexpectedOrder(m) ==
    /\ m.order \notin DOMAIN orders
    /\ UNCHANGED <<orders, status>>

\* on_message, as the socket reads an update of the orders channel.
OnMessage ==
    /\ channel # <<>>
    /\ channel' = Tail(channel)
    /\ OnOrderMessage(Head(channel)) \/ OnUnexpectedOrder(Head(channel))
    /\ UNCHANGED <<result, session, exchange>>

-----------------------------------------------------------------------------
\* The exchange.
Authenticate ==
    /\ login # "idle" /\ ~authenticated
    /\ authenticated' = TRUE
    /\ UNCHANGED <<client, login, subscribed, exchange, channel>>

\* The connection is lost with the updates on it; the socket reconnects by itself.
LoseConnection ==
    /\ subscribed
    /\ subscribed' = FALSE
    /\ channel' = <<>>
    /\ UNCHANGED <<client, login, authenticated, exchange>>

Tell(c, state, fill) ==
    /\ exchange' = [exchange EXCEPT ![c] = [state |-> state, fill |-> fill]]
    /\ channel' = IF subscribed
                  THEN Append(channel, [order |-> c, state |-> state, fill |-> fill])
                  ELSE channel
    /\ UNCHANGED <<client, session>>

\* An order may be taken after the client has given its request up.
TakeOrder(c) ==
    /\ status[c] \in {"requesting", "failed"}
    /\ exchange[c].state = "none"
    /\ Tell(c, "NEW", 0)

FillOrder(c, fill) ==
    /\ exchange[c].state \in {"NEW", "OPEN"}
    /\ exchange[c].fill < fill
    /\ Tell(c, "OPEN", fill)

CloseOrder(c) ==
    /\ exchange[c].state \in {"NEW", "OPEN"}
    /\ Tell(c, "CLOSED", exchange[c].fill)

-----------------------------------------------------------------------------
\* A call woken before its deadline is about to return an order that the exchange has
\* closed, with its final fill, on which the strategy hedges.  What is returned as
\* CLOSED stays true; what is returned otherwise may be behind, never ahead.
ResultNotAhead ==
    /\ \A c \in Orders : status[c] = "aborted" =>
          /\ orders[c].order_state = "CLOSED"
          /\ exchange[c] = [state |-> "CLOSED", fill |-> orders[c].fill]
    /\ \A c \in Orders : status[c] = "returned" =>
          /\ result[c].fill =< exchange[c].fill
          /\ result[c].order_state = "CLOSED" =>
                exchange[c] = [state |-> "CLOSED", fill |-> result[c].fill]

\* Every call of send_order ends, whatever is lost of REST answers and updates.
EveryOrderEnds == \A c \in Orders : status[c] = "requesting" ~> status[c] \in {"returned", "failed"}
=============================================================================
