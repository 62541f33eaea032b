-------------------------- MODULE FtxMarketDataClient --------------------------
(***************************************************************************)
(* Order books of Ftx/FtxMarketDataClient, and the subscriptions of        *)
(* Ftx/FtxWsClient under it, over the WebSocket of module WebSocketBase    *)
(* and on its strand.                                                      *)
(*                                                                         *)
(* A market is named by the number of its trading pair.  The requests are  *)
(* the only messages sent, so that the request for market m is message m.  *)
(* The coroutine of a subscription does not suspend between its request    *)
(* and its wait: sending only queues.                                      *)
(*                                                                         *)
(* The trading pairs are subscribed one after the other.  The WebSocket    *)
(* client posts each snapshot and update to the strand of the market data  *)
(* client, which merges it into the book of the pair and gives the book to *)
(* _onBook if the checksum of the message agrees.  The exchange and its    *)
(* messages, lost when they cannot be parsed, are the environment; the 32  *)
(* bit checksum is taken to tell different strings apart.                  *)
(***************************************************************************)
EXTENDS WebSocketBase, SequencesExt, FiniteSetsExt

CONSTANTS
    Prices,         \* prices of levels, finitely many as a double has
    ChecksumDepth,  \* levels of a side that the checksum covers, 100 in the code
    Snapshots,      \* bound: the books the exchange starts from
    Changes,        \* bound: what an update says: its side, and quantities by price
    UpdatedMarkets, \* bound: the markets whose books go on to change
    MaxUpdates      \* bound: updates sent by the exchange, over all markets

ASSUME PricesAssumption == Prices \subseteq Nat /\ IsFiniteSet(Prices)
ASSUME ChecksumDepthAssumption == ChecksumDepth \in Nat \ {0}
ASSUME ExchangeAssumption ==
    /\ Snapshots \subseteq [{"bid", "ask"} -> [Prices -> Nat]]
    /\ \A change \in Changes :
          /\ change.side \in {"bid", "ask"}
          /\ \E changed \in SUBSET Prices : change.quantities \in [changed -> Nat]

VARIABLES
    subscription,   \* _orderbookSubscriptions and where the coroutine of each stands
    feed,           \* environment: what the exchange has sent for each market
    exchangeBook,   \* environment: quantity by price, of each side of each market
    updates,        \* environment: updates sent
    mdStrand,       \* messages posted to the strand
    books,          \* _books: the levels of each side, best first
    published,      \* the last book given to _onBook and what it stands for
    spoiled         \* history: markets with a message lost or with unsorted levels

wsClientVars == <<subscription, feed>>
mdVars == <<exchangeBook, updates, mdStrand, books, published, spoiled>>
allVars == <<vars, wsClientVars, mdVars>>

Markets == Messages

Subscribed(m) == subscription[m] # "none"

WsClientInit ==
    /\ Init
    /\ subscription = [m \in Markets |-> "none"]
    /\ feed = [m \in Markets |-> "none"]

\* The exchange serves a market once it has the request.
Served(m) == \E i \in DOMAIN wire : wire[i] = m

Sides == {"bid", "ask"}

Better(side, p, q) == IF side = "bid" THEN p > q ELSE p < q

Level(p, q) == [price |-> p, quantity |-> q]

\* Levels of different prices, best first: the i-th is the one that i - 1 are better than.
BestFirst(side, levels) ==
    [i \in 1 .. Cardinality(levels) |->
        CHOOSE l \in levels : Cardinality({k \in levels : Better(side, k.price, l.price)}) = i - 1]

\* The levels of a side that has these quantities.
Sorted(side, quantities) ==
    BestFirst(side, {Level(p, quantities[p]) : p \in {p \in DOMAIN quantities : quantities[p] > 0}})

BookOf(quantities) == [side \in Sides |-> Sorted(side, quantities[side])]

NoBook == [side \in Sides |-> <<>>]

MdInit ==
    /\ WsClientInit
    /\ exchangeBook = [m \in Markets |-> [side \in Sides |-> [p \in Prices |-> 0]]]
    /\ updates = 0
    /\ mdStrand = <<>>
    /\ books = [m \in Markets |-> NoBook]
    /\ published = [m \in Markets |-> [book |-> NoBook, truth |-> NoBook]]
    /\ spoiled = {}

\* ftx_orderbook_checksum: the levels of both sides in turn, to the depth.
ChecksumString(book) ==
    LET rank(side, i) == IF i \in DOMAIN book[side] THEN <<book[side][i]>> ELSE <<>>
    IN  FlattenSeq([i \in 1 .. ChecksumDepth |-> rank("bid", i) \o rank("ask", i)])

-----------------------------------------------------------------------------
\* Mutants: slips of the code that the properties below are there to catch.

\* A call whose timer ran out is not resumed.
SubscribeResumes_AbortedOnly(m) ==
    /\ subscription[m] = "aborted"
    /\ subscription' = [subscription EXCEPT ![m] = "done"]
    /\ UNCHANGED <<vars, feed>>

Receive_InFront(m, type, levels, parsed) ==
    /\ conn = "open"
    /\ mdStrand' = IF parsed
                   THEN <<[market |-> m, type |-> type, levels |-> levels,
                           checksum |-> ChecksumString(BookOf(exchangeBook'[m])),
                           truth |-> BookOf(exchangeBook'[m])]>> \o mdStrand
                   ELSE mdStrand
    /\ UNCHANGED <<vars, subscription, books, published>>

\* std::lower_bound from an iterator to the end, by bisection: what it returns when
\* the levels are not in order matters too.
LowerBound(side, levels, from, price) ==
    LET search[range \in Nat \X Nat] ==
           LET first == range[1]
               count == range[2]
               half == count \div 2
           IN  IF count = 0 THEN first
               ELSE IF Better(side, levels[first + half].price, price)
               THEN search[<<first + half + 1, count - half - 1>>]
               ELSE search[<<first, half>>]
    IN  search[<<from, Len(levels) + 1 - from>>]

\* update_side, one level of the message: added at the end, whatever its quantity,
\* or inserted, erased or replaced where the search ends; the next search begins there.
UpdateLevel(side, at, level) ==
    LET it == LowerBound(side, at.levels, at.it, level.price)
        here == at.levels[it]
    IN  [it |-> it,
         levels |-> IF it > Len(at.levels) THEN Append(at.levels, level)
                    ELSE IF here.price # level.price THEN InsertAt(at.levels, it, level)
                    ELSE IF level.quantity = 0 THEN RemoveAt(at.levels, it)
                    ELSE ReplaceAt(at.levels, it, level)]

UpdateSide(side, levels, changes) ==
    FoldLeft(LAMBDA at, level : UpdateLevel(side, at, level),
             [levels |-> levels, it |-> 1], changes).levels

Merged_CheckedBefore(message, book) ==
    LET m == message.market
    IN  /\ books' = [books EXCEPT ![m] = book]
        /\ published' = IF books[m] = NoBook \/ ChecksumString(books[m]) # message.checksum
                        THEN [published EXCEPT ![m] = [book |-> book, truth |-> message.truth]]
                        ELSE published

\* The book is changed first, and kept even if its checksum is wrong; only a book
\* whose checksum is that of the message is given to _onBook.
Merged(message, book) ==
    LET m == message.market
    IN  /\ books' = [books EXCEPT ![m] = book]
        /\ published' = IF ChecksumString(book) = message.checksum
                        THEN [published EXCEPT ![m] = [book |-> book, truth |-> message.truth]]
                        ELSE published

-----------------------------------------------------------------------------
\* do_subscribe_orderbook, up to its wait on the timer of the entry.  A market that
\* has an entry keeps it: the assertion is not in the build.
SubscribeOrderbook(m) ==
    /\ ~Subscribed(m)
    /\ SendMessage(m)
    /\ subscription' = [subscription EXCEPT ![m] = "waiting"]
    /\ UNCHANGED feed

\* on_message, "subscribed": cancels the timer.
OnSubscribed(m) ==
    /\ conn = "open"
    /\ Served(m) /\ feed[m] = "none"
    /\ feed' = [feed EXCEPT ![m] = "subscribed"]
    /\ subscription' = [subscription EXCEPT ![m] = IF @ = "waiting" THEN "aborted" ELSE @]
    /\ UNCHANGED vars

\* 30 s after the entry was made.
SubscriptionExpires(m) ==
    /\ subscription[m] = "waiting"
    /\ subscription' = [subscription EXCEPT ![m] = "timedOut"]
    /\ UNCHANGED <<vars, feed>>

\* do_subscribe_orderbook after its wait.  A timer that ran out gives no error, and
\* nothing ever sets the error of an entry: the call returns either way.
SubscribeResumes(m) ==
    /\ subscription[m] \in {"aborted", "timedOut"}
    /\ subscription' = [subscription EXCEPT ![m] = "done"]
    /\ UNCHANGED <<vars, feed>>

WsClientStep ==
    \E m \in Markets : OnSubscribed(m) \/ SubscriptionExpires(m) \/ SubscribeResumes(m)

WsClientFairness ==
    \A m \in Markets :
       /\ WF_<<vars, wsClientVars>>(SubscribeResumes(m))
       /\ WF_<<vars, wsClientVars>>(SubscriptionExpires(m))

-----------------------------------------------------------------------------
\* do_orderbook_subscribe: the next pair, when the one before has returned.
SubscribePair(m) ==
    /\ \A k \in Markets : k < m => subscription[k] = "done"
    /\ SubscribeOrderbook(m)
    /\ UNCHANGED mdVars

\* on_message, "partial" and "update": the message is posted, or lost if it cannot be
\* parsed.  The message tells the checksum of the book it leads to.
Receive(m, type, levels, parsed) ==
    /\ conn = "open"
    /\ mdStrand' = IF parsed
                   THEN Append(mdStrand, [market |-> m, type |-> type, levels |-> levels,
                                          checksum |-> ChecksumString(BookOf(exchangeBook'[m])),
                                          truth |-> BookOf(exchangeBook'[m])])
                   ELSE mdStrand
    /\ UNCHANGED <<vars, subscription, books, published>>

OnPartial(m, book, parsed) ==
    /\ feed[m] = "subscribed"
    /\ feed' = [feed EXCEPT ![m] = "live"]
    /\ exchangeBook' = [exchangeBook EXCEPT ![m] = book]
    /\ Receive(m, "partial", BookOf(book), parsed)
    /\ spoiled' = IF parsed THEN spoiled ELSE spoiled \cup {m}
    /\ UNCHANGED updates

\* What a change makes of the quantities of a side, and the levels that tell it.
Changed(quantities, change) ==
    [p \in Prices |-> IF p \in DOMAIN change THEN change[p] ELSE quantities[p]]
ChangedLevels(side, change, sorted) ==
    LET bestFirst == BestFirst(side, {Level(p, change[p]) : p \in DOMAIN change})
    IN  IF sorted THEN bestFirst ELSE Reverse(bestFirst)

\* An update of one or two levels of a side, in the order of the side or not.
OnUpdate(m, side, change, sorted, parsed) ==
    /\ feed[m] = "live" /\ updates < MaxUpdates
    /\ updates' = updates + 1
    /\ \A p \in DOMAIN change : change[p] # exchangeBook[m][side][p]
    /\ exchangeBook' = [exchangeBook EXCEPT ![m][side] = Changed(@, change)]
    /\ Receive(m, "update", [NoBook EXCEPT ![side] = ChangedLevels(side, change, sorted)], parsed)
    /\ spoiled' = IF parsed /\ sorted THEN spoiled ELSE spoiled \cup {m}
    /\ UNCHANGED feed

\* The next message on the strand.
Take(type) ==
    /\ mdStrand # <<>>
    /\ Head(mdStrand).type = type
    /\ mdStrand' = Tail(mdStrand)
    /\ UNCHANGED <<vars, wsClientVars, exchangeBook, updates, spoiled>>

\* do_on_orderbook_snapshot: both sides are replaced.
DoOnOrderbookSnapshot ==
    /\ Take("partial")
    /\ LET message == Head(mdStrand)
       IN  Merged(message, message.levels)

\* do_on_orderbook_update: the changes are merged into each side.
DoOnOrderbookUpdate ==
    /\ Take("update")
    /\ LET message == Head(mdStrand)
           book == books[message.market]
       IN  Merged(message, [side \in Sides |-> UpdateSide(side, book[side], message.levels[side])])

MdNext ==
    \/ (\E m \in Markets : WriterStep(m)) /\ UNCHANGED <<wsClientVars, mdVars>>
    \/ (Connect \/ ConnectFails \/ Opens \/ Closes \/ TimerExpires)
          /\ UNCHANGED <<wsClientVars, mdVars>>
    \/ WsClientStep /\ UNCHANGED mdVars
    \/ \E m \in Markets, parsed \in BOOLEAN :
          \/ \E book \in Snapshots : OnPartial(m, book, parsed)
          \/ \E change \in Changes, sorted \in BOOLEAN :
                /\ m \in UpdatedMarkets
                /\ Cardinality(DOMAIN change.quantities) = 1 => sorted
                /\ OnUpdate(m, change.side, change.quantities, sorted, parsed)
    \/ (\E m \in Markets : SubscribePair(m)) \/ DoOnOrderbookSnapshot \/ DoOnOrderbookUpdate

MdFairness ==
    /\ \A m \in Markets :
          /\ WF_allVars(WriterStep(m) /\ UNCHANGED <<wsClientVars, mdVars>>)
          /\ WF_allVars(SubscribePair(m))
          /\ WF_allVars((SubscriptionExpires(m) \/ SubscribeResumes(m)) /\ UNCHANGED mdVars)
    /\ WF_allVars(TimerExpires /\ UNCHANGED <<wsClientVars, mdVars>>)

MdSpec == MdInit /\ [][MdNext]_allVars /\ MdFairness

-----------------------------------------------------------------------------
\* Facts about levels alone: update_side makes of the levels of a side those of the side
\* as it is changed, by any of the changes, and leaves them alone when there is none.
MergesExactly(quantities, changes) ==
    \A side \in Sides, before \in [Prices -> quantities] :
        /\ UpdateSide(side, Sorted(side, before), <<>>) = Sorted(side, before)
        /\ \A change \in changes :
              (\A p \in DOMAIN change : change[p] # before[p]) =>
                  UpdateSide(side, Sorted(side, before), ChangedLevels(side, change, TRUE))
                     = Sorted(side, Changed(before, change))
NoLevelsOfNothing == \A side \in Sides : Sorted(side, [p \in Prices |-> 0]) = <<>>

\* The merge is exact: as long as every message of a market was parsed and had its
\* levels in the order of their side, the book is the one of the exchange, to its full
\* depth, each time the strand has nothing more to merge.
MergeExact ==
    \A m \in Markets \ spoiled :
       (\A i \in DOMAIN mdStrand : mdStrand[i].market # m) => books[m] = BookOf(exchangeBook[m])

\* A book given to _onBook is the one the exchange had, to the depth of the checksum,
\* whatever was lost or merged in the wrong place before: the checksum is taken of the
\* very book that is given away, and the message is the one just merged.
PublishedIsExchange ==
    \A m \in Markets :
       \A side \in Sides, i \in 1 .. ChecksumDepth :
          LET got == published[m].book[side] told == published[m].truth[side]
          IN  (i \in DOMAIN got <=> i \in DOMAIN told) /\ (i \in DOMAIN got => got[i] = told[i])

\* Every pair is asked for, though the subscription of one before it is never
\* answered: the timer of each lets the loop go on.
EveryPairSubscribed == \A m \in Markets : <>(subscription[m] = "done")
================================================================================
