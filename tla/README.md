# A TLA+ verification of solana-cpp

solana-cpp is a C++20 library of trading clients (Solana, Serum, Mango, FTX) on Boost.Asio
coroutines, with a command line client and an on-chain program in C. This directory holds TLA+ models
of it, the TLC runs that check them, and TLAPS proofs of most of what the runs check of safety. Paths below are
relative to `src/synthfi/` unless they start with `program/` or `synthfi-client/`. The repository has
no C++ tests.

## 1. The system

### Execution model

Each `...Service` owns an `io_context` run by one thread; each `...Impl` owns a strand on it and
runs its coroutines there. Between two `co_await`s a coroutine is not interrupted by another of its
strand, so **one action is the code between two suspensions**, and `co_spawn` from the strand belongs
to the action that spawns. The code waits for events with `steady_timer`s used as condition
variables: `cancel()` and `expires_from_now()` abort the waits that are pending and nothing else. A
wait whose timer has run out is already queued and completes without an error, a wait on an expired
timer completes at once, and a cancel before the wait wakes no one. Most of what can go wrong here
lies in those three facts, so the models keep the state of the timer and of the wait apart from the
state of the data they guard. A coroutine spawned `detached` that throws just ends. An operation made
with `use_awaitable` starts when it is awaited; one that is never awaited does nothing.

The service providers wrap a completion handler in a lambda that hides its executor, so a coroutine that
awaits another service goes on in that service's thread, in the very step that answers it. Where that
decides an order of steps (signature subscriber, reference data, market data, order client) the
modules have it so. The build is a release: `BOOST_ASSERT` checks nothing.

### Inventory

| Component | State | Operations | Hard behaviour | What makes it correct |
|---|---|---|---|---|
| `Io/RpcSocket` | next id, table of pending requests with timers | send a request, take an answer, expire | answers out of order, late, lost, malformed; ids wrap round | a call gets its own answer or an error, and ends; the table is exact |
| `Io/JsonHttpSocket` | write queue, `_isWriting`, `_isConnecting`, reconnect timer | send, write, connect, read, reconnect, close | writers, connector and reader interleave; reconnect deadline | one writer; order kept; the queue drains |
| `Io/WebSocket` | write queue, reconnect timer | send, write, connect, read, close | messages before the connection, failures in a write | one writer exactly while there is a backlog; order |
| `Solana/SolanaWsClient` | active subscriptions with a notification coroutine each | subscribe, unsubscribe, cancel, notify | notification, cancel and timeout race; ids given twice | ownership of ids; each update once, in order |
| `Solana/SignatureSubscriber` | subscriptions by id with a timer each | subscribe, notify | notified before the entry is made; its own cancel notifies it again | the verdict returned is of the call's own signature; calls end |
| `Solana/AccountBatcher` | batches with counter, error, response, timer | split a request, join the answers | partial failure, answers in any order, timeout | the counter is exact; a response is complete |
| `Solana/AccountSubscriber` | pending and known subscriptions, callbacks | subscribe, notify | calls meet a request under way, its failure, its timer | success means subscribed; calls end |
| `Solana/SlotSubscriber` | recent blockhash and height, callbacks | slot notification, refresh, subscribe | refreshes overtake each other | subscribers hold the newest blockhash, never an older one |
| `Solana/Transaction` | - | lay out accounts, instructions, signatures | accounts counted by hand; size limit | each instruction reads the accounts it documents |
| `Solana/SolanaHttpClient` | none of its own | requests | as its sockets | as its sockets |
| `Statistics` | write buffer, writer, connection; counters | publish one or several, write, connect | publishers and writer share a buffer | what is lost and when; the buffer drains |
| `Ftx/FtxWsClient`, `FtxMarketDataClient` | subscriptions; order books | subscribe, merge an update | lost updates, subscription timeouts | a published book is the exchange's; every pair is asked for |
| `Ftx/FtxOrderClient` | orders by client id, login | login, send order, updates | updates before the REST answer, timeout, REST failure | the result is never ahead of the exchange; calls end |
| `Ftx/FtxRestClient`, `FtxWalletClient` | a connection per request; wallet and its timer | requests; loop of balances | failure at each step; two loops on one timer | requests end; a loop goes on |
| reference data clients (Ftx, Serum, Mango) | data, initialised flag, timer | load once, get | getters before, during and after a failed load | all get the data or are refused; indexes agree |
| `Serum/SerumMarketDataClient` | books, event queues, callbacks | load, subscribe, notify | changes between read and subscription; ring of events | books are those of the accounts (that each event is processed once does not hold, section 3) |
| `Mango/MangoWalletClient` | wallet, versions of its accounts | subscribe, notify | several accounts make one wallet | wallet and margin follow the accounts |
| `Mango/MangoOrderClient` | account, blockhash, orders | load, send, cancel, notify | account indices, blockhash refreshed meanwhile | instructions as documented; recent blockhash |
| `Strategy` | books, wallets, `_isTrading`, measurements | on book, on wallet, run | books and wallets in any order, orders in flight | no arbitrage passed over; none understated |
| `Core/KeyStore` | key pairs in memory, files in a directory | create, load, get, verify | several processes, failed writes, crashes | a key used is the key stored, or one whose write failed |
| `synthfi-client` | one command | the commands | commands of two processes | the calls it makes of the key store |
| `RpcServer` | - | the handler of a request is commented out | | |
| `program/src/synthesizer` | accounts linked in lists | init table, add product, add deposit account | full lists, an account in two roles | links exact and permanent |

Who calls whom: strategies use the order, market data and wallet clients; those use reference data,
`AccountSubscriber`, `SlotSubscriber`, `SignatureSubscriber`, `AccountBatcher`; those use
`SolanaWsClient` and `SolanaHttpClient`, which are an `RpcSocket` over a WebSocket and over a
`JsonHttpSocket`. Everything publishes to `StatisticsPublisher`. Calls between services are
awaitables; answers come back as completion handlers and callbacks (`std::function`).

## 2. Modules

One action per handler or per stretch of a coroutine between two suspensions. The comment at the head
of a module says how its state maps to the code; variables keep the name of the member they stand
for without the underscore. A module that EXTENDS another runs on top of it: its actions are joined
with those of the module below where one step of the program does both, and leave its variables alone
elsewhere. Operators named `Action_Slip`, in the section "Mutants" of a module, are mutated forms of
a definition with a slip put in; they are not part of `Next`.

| Module | Models | On top of |
|---|---|---|
| `RequestReply` | abstract: a call is sent, answered or not, and completes once with its answer or an error | |
| `RpcSocket` | `Io/RpcSocket`; implements `RequestReply` | |
| `JsonHttpSocket` | `Io/JsonHttpSocket`; `undefined` is set where C++ says nothing any more | |
| `WebSocketBase` | `Io/WebSocket/WebSocketBase.hpp`, `SSLWebSocket.cpp` | |
| `FtxMarketDataClient` | `Ftx/FtxWsClient` and the market data client: order book subscriptions; books, merge, checksum | `WebSocketBase` |
| `SolanaWsClient`, `SignatureSubscriber` | subscriptions of the RPC WebSocket; signatures | |
| `AccountBatcher` | `Solana/AccountBatcher` | |
| `ReferenceDataClient` | the load-once pattern shared by the three reference data clients | |
| `SerumReferenceDataClient`, `MangoReferenceDataClient` | what is loaded, the checks on it, the indexes | `AccountBatcher`, `ReferenceDataClient` |
| `AccountSubscriber` | `Solana/AccountSubscriber` | |
| `SerumMarketDataClient` | Serum books and event queues, and of `SerumTypes` the slab and the ring | `AccountSubscriber`, `ReferenceDataClient` |
| `MangoWalletClient` | the Mango wallet, and of `MangoTypes` health and margin | `SerumMarketDataClient` |
| `AccountClients` | market data, wallet and an order client over one account subscriber | `MangoWalletClient` |
| `FtxReferenceDataClient`, `FtxWalletClient` | `Ftx/FtxRestClient` and the markets asked for over it; balances | `ReferenceDataClient` |
| `FtxOrderClient`, `FtxClients` | orders; all the REST based FTX clients together | the two above |
| `SlotSubscriber`, `SolanaTransaction`, `KeyStore` | blockhashes; layout of transactions; keys | |
| `MangoOrderClient` | orders as signed transactions | the three above |
| `TakeStrategy` | `TakeStrategy` and `BacktestStrategy` | `MangoOrderClient` |
| `SynthfiClient` | the commands of `synthfi-client/SynthfiClient.cpp` in two processes | `TakeStrategy` |
| `StatisticsPublisher` | `Statistics/StatisticsPublisher` | |
| `Synthesizer` | `program/src/synthesizer` | |
| `MC<Module>` | TLC instance; bounds in its `.cfg`. A module whose bounds need no definitions has a `.cfg` only | |
| `DataLemmas` | induction, recursion and folds, stated about sets and functions, ranks and sums, for the proofs | |
| `<Name>Proofs` | theorems about the specifications of section 4 | |

Data are kept as far as the properties tell them apart. A blockhash is its last valid block height, an
account of a transaction what it is and the index it is of, an account on chain its version, a
book a sequence of levels, an amount a small number with the factors and roundings of the code.
Two branches are in the models although nothing reaches them: "Missing batch id" of `AccountBatcher`
(a batch that timed out is never erased) and the join of a known subscription in `AccountSubscriber`
(a completed entry is never erased, so the pending branch is taken first).

## 3. Runs

`CHECK_DEADLOCK FALSE` in every one: clients stop calling when their bounded calls are used up, a
connector or loader that has failed never comes back, a command ends, and the program on chain has
nothing to do once all accounts are linked. The longest run takes some three minutes on two cores.

| Run | Instance | States | What it shows |
|---|---|---|---|
| `MCRpcSocket` | 3 calls, 2 ids | 74,764 | the table is exact, own answers, `RequestReply` implemented with its liveness |
| `MCJsonHttpSocket` | 5 messages, 3 in the queue | 43,859 | order and one writer until a message is sent behind another; the queue drains or has been given up |
| `MCJsonHttpSingleWriter` | 3 messages, 2 in the queue | | **violated**: two writers |
| `MCFtxMarketDataClient` | 2 pairs, 3 prices, checksum of 2 levels, 2 updates | 323,723 | one writer while there is a backlog; merge exact; published books are the exchange's; every pair asked for |
| `MCSignatureSubscriber` | 2 signatures, 1 other client, 2 ids, 2 notifications | 1,075,201 | ownership but for a cancel repeated, delivery once and in order, the verdict is the call's own, every call ends |
| `MCMangoReferenceDataClient` | 2 markets, 3 mints, batches of 2, accounts that fail each check | 138,080 | exact counter, complete responses, indexes agree, every load and call ends |
| `MCAccountClients` | 7 calls, 6 accounts, ring of 3 slots, 2 notifications | 487,020 | success means a subscription; books, wallet and margin follow the accounts; every call ends |
| `MCSynthfiClient` | 2 processes, 4 tags, 2 pairs, 2 blockhashes, 3 books told | 563,904 | recent blockhash and never an older one; orders as documented, banks exactly if their token is in place; no arbitrage left or understated; keys agree |
| `MCStatisticsPublisher` | 4 measurements | 11,458 | what can be lost and when; the buffer drains |
| `MCFtxClients` | 1 order, 2 wallet subscriptions, 2 updates | 1,488,502 | results never ahead of the exchange, pairs have their markets, a wallet loop goes on, every order ends |
| `MCSynthesizer` | 5 accounts, lists of 2 | 1,779 up to symmetry | bounds, each account linked once |
| `MCSynthesizerProductSize` | 3 accounts, lists of 8 and 64 | | **violated**: the size of a product |

Why the bounds are enough. Two ids for three calls make an id come back while an answer to its first
use may be on the way, for requests and for subscriptions. Two notifications can be coalesced, lost or late. Three HTTP writers are enough for one that
writes, one that waits and one that is spawned. Two levels of checksum under three prices make books
that are empty on a side, as deep as the checksum, and deeper. Three mints in batches of two need two
requests, answered in either order, together with a request of another client; what each read returns
is chosen when it returns, and fails each check once. Both sides of a book and the accounts of a wallet change
once, between the read and the subscription or after it, and are told twice; the data of an event queue holds three
slots of which the code counts two, so that the remainder it takes differs from the quotient. The wallet has open orders in the margin basket
in one version of its account and not in the other. Fifteen configured markets,
of which two are traded, put the indices of markets, tokens and pairs apart. Margin baskets range from
one market to ten, past the nine that fit into a transaction. Two processes on four tags create, load and kill each
other's keys. Two wallet subscriptions compete for one timer. Lists of two and five accounts fill
a product and reuse accounts of all types; with the limits of the code the size of a product matters
from the first deposit account on. `SizeModulus` is 2^30 instead of 2^32 because TLC's integers have
32 bits with a sign; both differ from any legal size by as much, and the theorems hold for every modulus.

### Fairness

Only what the runtime gives: a coroutine that is queued on a strand runs, a timer that is armed
expires, and an asynchronous write completes or fails (weak fairness each). Nothing is assumed of
servers, of clients, or of a connection being made: answers may be lost for ever. Two
things follow from modules below: a call of `get_account` ends, as every call of `RpcSocket` does, and
the request of a subscription is answered or throws. That a write ends is an assumption on the network in one
case: the statistics publisher and the HTTP socket set no timeout once they are connected (`JsonHttpSocket.cpp:163`),
so that only TCP gives up a write to a server that stopped reading. `BufferDrains` and `Drains` assume that it does.

### Disagreements with the source's own comments

Shown by runs:

* `MCJsonHttpSingleWriter`. `JsonHttpSocket.cpp:173` says "Only a single writer coro should be writing
  at a time." `_isWriting` is reset after each write (235) while the loop goes on with the backlog, so
  the next message spawns a second writer. Two `async_write`s then run on one stream, and either pops
  the request the other is writing.
* `MCSynthesizerProductSize`. `synthesizer.h:74` calls `size` the "size of populated region of account";
  `init_deposit_account` (`synthesizer.c:163`) computes it from `sizeof( synthfi_deposit_account_t )`
  less the whole list, which underflows.

The rest of what was met while modelling is in the models as the code has it. Where a property had to
be stated more weakly because of one, its comment says in which case.

Sockets and subscriptions:

* `JsonHttpSocket.cpp:79-80`: a write that fails with nothing sent leaves `_isWriting` set, and no later
  message gets a writer (the last case of `Drains`).
* `SolanaWsClientImpl.hpp:196`: `do_cancel` wakes the loop as a notification does, and the callback is
  called with a message moved away before (`DeliveredInOrder` says when; `VerdictIsOwn` depends on it). At
  240, a notification or cancel that comes as the interval ends is not looked at until the next one.
  `do_cancel` (134) is given an id and looks at no owner: one who cancels twice strikes the subscription
  that the server gave the id to in between (status "struck"). A signature call does cancel twice when it is
  notified, once in the handler and once as it ends.
* `SignatureSubscriberImpl.cpp:33`: the entry of an id used before is found instead of a new one.
* `AccountBatcherImpl.cpp:142`: an answer of the wrong size is taken if it fits the whole response.
* `AccountSubscriberImpl.cpp`: the pending entry is never erased, so a later call for the account waits
  for its old timer and is refused (82). A call that finds a request for its account on the way can, says the
  comment (62), wait "for the subscription to complete"; it then returns success (97), but its callback is kept
  nowhere. `WalletFollowsAccounts` speaks of the accounts that the wallet was the first to ask for.
* `SlotSubscriberImpl.cpp:75`: `_recentBlockhashSlot` is never assigned, so every slot refreshes. A
  refresh that comes between telling a subscriber and listing it (142-144) is not told to it.
* `StatisticsPublisherImpl.cpp:293`: what is published during a write is erased at its end.

FTX:

* `FtxWsClientServiceImpl.cpp:78`: a wait that ends by its timer has no error, so that a subscription
  that is never answered counts as made.
* `FtxOrderClientImpl.cpp`: an order whose wait times out is returned as if it were done (231); one CLOSED
  before its REST answer is waited for all the same (230); an order whose REST call fails may be
  at the exchange all the same, and no one asks (223); the map by exchange ids is written and never read, and
  is left out of the module; the login is not waited for but for a fixed delay (162), and an
  order sent before it takes the name of its market from a table that is still empty (181).
* `FtxWalletClientImpl.cpp`: a second subscription takes over the callback, and its loop can end the
  other's; a request for balances that fails ends the updates for good.
* `FtxReferenceDataClientImpl.cpp:121`: a market configured twice is not found the second time, as it was
  moved from. `FtxTypes.cpp` reads the quantity increment from "priceIncrement".
* `FtxRestClientImpl.cpp`: the deadline does not cover the resolution of the host name.

Serum and Mango:

* Reference data: a load that throws is spawned detached and cancels no timer, so that who waits for it is refused
  at the deadline of 30 s only. The branch "Failed to load reference data." (`SerumReferenceDataClientImpl.cpp:67`,
  `MangoReferenceDataClientImpl.cpp:59`, `FtxReferenceDataClientImpl.cpp:63`) is for waits that are cancelled with the
  data not there, which nothing does. Who looked at the flag just before the load ended is refused at the
  deadline too; Mango's load fails for good if Serum's is late.
* `MangoReferenceDataClientImpl.cpp:177` uses the index of a pair before the last loop of the load computes it, so
  that the open orders account of market 0 is read for every pair; 319 calls it the "Open orders account." of the pair.
* `SerumTypes.cpp:139`: `maxItemCount` is the remainder of the queue's size, not the quotient.
  `SerumMarketDataClientImpl.cpp:169` compares the difference of two sequence numbers with 0 where it means to take
  it: after the first notification nothing newly pushed is processed, and the head of a queue told again is.
  `SerumMarketDataClientImpl.cpp`: a change between read and subscription (91) is not told
  until the next; a subscriber after the load hears nothing until then.
* `MangoTypes.cpp:193` says "Base total if all bids were executed."; the next line adds the position to the locked
  quote amount and divides both by the price, and `MarginIsOfHealth` states it so. Quote amounts of open orders are converted with the decimals of the base token; the
  margin of a pair without a positive base position is negative; a token with a market but no configured
  pair is looked up past the end.
* `MangoOrderClientImpl.cpp:128-129`: the node banks and vaults are looked up in the currencies as configured by the places
  of the tokens in the group. The quote currency is the last token of a group, so that this reads past
  the end unless as many are configured. `OrdersAsDocumented` says which are right and which are not.
* `MangoOrderClientImpl.cpp`: the settle instruction passes 17 accounts of 18 (374); rent_ai, which the list of
  accounts doubts itself ("I think this is not a field anymore."), is not passed, and the owner is written as well as
  signs; the limit price lacks the lot sizes (192); the cancel is built and never sent (407); the result of
  the signature is ignored (250); an order can be signed before a first blockhash; a basket of more than
  nine markets overflows the transaction's array.
* `TakeStrategyImpl.cpp`: orders that come before the order clients are loaded crash (456-470, action
  `Crash`); a run that fails leaves the callbacks trading; `_isTrading` is never reset, so one order
  per run; level sizes are counted whole, which overstates; `maxTradeQuantity` is always 1; hedge orders
  are made and never sent, and the first currency that needs none ends the loop over the others.

Keys and commands:

* `KeyStoreImpl.cpp:151`: a failed write is swallowed and the key kept in memory; the empty file can be
  neither created nor loaded any more. `KeysAgree` says of which keys in memory that is so. Between 59 and 73 the directory has the rights of every directory.
* `SynthfiClient.cpp:172` says "Returns 0 on success, otherwise error code."; the code of a command is
  dropped and the program exits with 0 also for an invalid one. `init_synthfi` and `init_product` have no body.

## 4. Proofs

Each theorem comes from an inductive invariant, whose conjuncts have names of their own, with one lemma
or step per action. The theorems about clients are theorems of the specification the run checks, with all
clients composed, not of one component alone: a lemma says what the steps of the other clients do to
the component's variables, and the invariant is kept by that.

* **`DataLemmas`**, which the proofs about walks and folds rest on. The library states induction, recursion
  and folds for an operator given as a parameter, which the provers cannot put an operator in place of. Here the same
  is stated of sets and functions: a set of naturals with 0 and all successors has all naturals (`Induction`), a
  function of the naturals or an iteration is the one that its step determines (`RecursionExists`,
  `IterationExists`), and a fold over a sequence is the end of an iteration (`FoldExists`). With them, the
  members of a finite set in a strict order have the ranks from 1 on (`Ranks`), and a sum over a set does not
  depend on which member is taken first (`AnyFirst`).

* **`SocketProofs`**, about `RpcSocket`. `PendingIffWaiting` is not inductive: that an answer finds the right
  entry needs to know whose message each message on the wire is (`WireOK`), that the ids of live calls differ
  (`LiveIdsDiffer`), what an entry holds (`EntryOK`) and that a call not sent has no answer
  (`UnsentUnanswered`). With `OwnResponse` they are inductive. `TimerDecides` follows for every step, and
  so does `RefinesRequestReply`: each step is a step of `RequestReply` or a stutter. One assumption on
  the environment is in the model and not proved: `IdIsFree`, that an id does not come round again
  while a call or a message with that id is alive. The id has 32 bits, so that 2^32 requests would have
  to be sent within the 30 s of a timer.
  About `JsonHttpSocket`: until a message is sent behind another, a writer is alone with the last
  message that was sent (`AloneWithMessage`) and what is on the wire was sent before what is in the queue
  (`WireBehindQueue`); hence `WireInOrder`.
* **`WebSocketProofs`**, about `WebSocketBase` alone and under the market data client. `OneWriterIffBacklog`,
  `InOrder` and `EarlyWriteOnlyAfterDeadline`, strengthened by `DeadlineOK` (a writer woken without a
  connection means an expired timer) and `Fresh` (messages not yet sent are nowhere); each step of the
  market data client is a step of `WebSocketBase` or leaves it alone (`MdStepOfWebSocket`).
  `MergeExact`, for any pairs, prices and number of updates: the messages of a market on the strand lead, one
  after the other, from the book of the market to the one of the exchange (`LeadsFromTo`). That `update_side`
  makes of sorted levels those of the side as it is changed (`MergesExactly`) is proved for every ladder and every
  change, in four parts: the bisection finds the place of a price; one level put, replaced or erased there keeps
  the ladder sorted and changes the side at that price only; so does the loop over the levels, one after the other;
  and a side has one best-first sequence, so what the loop ends with is it.
* **`SignatureSubscriberProofs`**, about `SolanaWsClient` alone and under the signature subscriber.
  `OwnedUntilCancelled`, with `OwnersKnown`: each entry has an owner that was given its id, and `AgainKnown`:
  who cancels an id again was rid of it before.
  `DeliveredInOrder`, with `MessagesNewer`: what an entry holds is newer than what its owner was given.
  `VerdictIsOwn`, with `WokenByOwn`: while a call waits, whatever the strand has queued for its entry was
  given to it, and once it is woken that holds of what is queued ahead of its coroutine.
* **`MangoReferenceDataClientProofs`**. About `AccountBatcher`: `PendingCounted` and `ReturnedComplete`, for
  every batch size and number of keys, with `FilledSoFar`: the slices whose requests are handled hold
  their accounts. The number of requests computed by division is shown to be the number of slices by a
  bijection (`BatchIndexes`), and the slices to cover the keys. They hold of the loaders composed with it, whose
  steps are steps of the batcher and of its callers (`BatcherAsSpecified`, `CallersAsSpecified`). `IndexesAgree`,
  whatever each account held when it was read, with `LookedUp`: what a check found stays found, because the configuration and the
  group that was read do.
* **`AccountClientsProofs`**, about the account subscriber with market data, wallet and an order client over
  it. `SuccessMeansSubscription`, with `OneRequestEach` (a request is under way only for a key that no
  subscription is known for), `SubscriptionsApart` and `RequesterKept`. `BooksFollowAccounts` and
  `WalletFollowsAccounts`: what is under way to a client is always the last versions of the account in
  order (`TellsInOrder`), so a side (`SideOK`) or an account of the wallet (`HeldOK`) is behind by its
  length; and the wallet is that of the accounts held.
  `BookLadder`, for any slabs and lot sizes: that a side is what `do_update_book` makes of the account version
  read, and versions under way are there, is kept by every step (`LadderIInv`). The rest is about what it makes. The
  leaves of a slab are orders, by induction on the height of the nodes (`LeavesAreOrders`). The sort puts
  each order in the place of its rank, so that the sorted orders are all of them, best first (`OrdersSorted`). Merging
  one order after the other keeps the levels strictly best first, their prices those of the orders so far, and
  at each price the sum of the quantities of those orders (`LevelsMerged`), which after the last is what the account
  offers there, in whichever order it is added up (`QuantitiesSummed`).
  `MarginIsOfHealth`, for any tokens, pairs, weights and versions: the wallet is what `do_update_positions` makes of
  the accounts as they are held, and no account is held or told in a version it did not have (`MarginIInv`). The
  component of each token is the one of the rules, in the margin basket or not (`ComponentsOfPositions`), and the
  three sums the code makes of them, of the positions in the quote currency, of what the others add to it and of
  their values, are together the one of the rules (`SumsAgree`, by induction on the number of tokens).
* **`FtxClientsProofs`**, about the REST based FTX clients together. `ResultNotAhead`: no order message under way is ahead of the exchange and CLOSED is the last of
  an order (`ChannelInOrder`); an order is in the table while its call goes on (`OrderOK`).
  `PairsMatchMarkets` is proved by counting: a market found is moved from, so that of two pairs with one name
  the later finds another (`MarketsDiffer`). `ALoopRuns` is inductive once the loops have their type.
* **`SynthfiClientProofs`**, about the command line program. `KeysAgree`, for any processes and tags and whichever write fails. It
  needs that whoever writes a file does so alone and while no one holds its key (`WriterAlone`), which rests
  on the exclusive creation of the file, that no key is held without a file (`NoneHeldWithoutFile`) and
  that a file being read is there (`ReaderHasFile`); the commands are calls that `KeySpec` allows
  (`KeyStoreAsSpecified`). `HoldsRecent` and `BlockhashNotOlder`: what is posted to the order client is
  in the order of the heights (`PostedInOrder`), and what it was told last is what it holds or has yet to
  handle (`ClientTold`). `NoArbitrageLeft` and `MeasuredNotUnderstated`: the strategies have decided and
  measured on the very books that are there now (`DecidedOnBooks`, `MeasuredOfBooks`), whose sides are sorted;
  and the profit that the walk of two such sides finds covers the exact one. A unit of the exact profit is the
  k-th of each side. The invariant of the walk says how many units are matched so far, what is left of
  both levels, and that the profit made is at least that of those units; it ends where two levels do not cross, and
  nothing behind two levels that do not cross does.
  `OrdersAsDocumented`, for any group, configuration and margin baskets: a signed order is of a margin basket of the
  account, and what it may cost covers it since it was made (`OrdersIInv`). The rest follows of any pair and basket:
  the accounts of a transaction are four lists in a row (`AccountsLaidOut`), so that what the instructions find at
  their indexes is what the documents say (`PlaceReadsAs`, `CancelReadsAs`), the banks of a token exactly if it is in
  place (`BankPlaced`); the open orders of the other markets are
  in the order of their indexes (`OthersListed`) and all of them are there (`OthersBehind`); a product of quotients
  is covered by the quotient of the products, so that the fee of the limit is enough (`FeeCovers`); and with
  8 other markets the sizes of the items sum up to 1210 bytes (`OrderFits`).
  About `StatisticsPublisher`, which every service of the program publishes to: a batch belongs to a write and
  the buffer only grows during one, so that a step which loses something is the end of a write
  (`LostOnlyAtWriteEnd`).
  About `Synthesizer`, the program on chain: `TypeOK` and `LinkedOnce` are inductive together; `LinksKept` follows.

### What the theorems assume

The `ASSUME`s of the modules, which TLC evaluates in every run: bounds are numbers; `NoCall` is no call;
processes are not named like the content of a file (`ProcessesNamed`); signature calls are finitely many of
the subscribers (`SignatureCallsAssumption`); names in configuration, chain and answers of FTX are
strings (`ConfigurationAssumption`, `LoadersAssumption`); the clients composed make calls of their own and the
market data client is alone with the accounts of its market (`ClientsAssumption`); the process that trades is
one of the processes (`ClientAssumption`); the exchange has quantities that are numbers (`ExchangeAssumption`) and prices that are
numbers, as many as there are (`PricesAssumption`); a slab of the Serum program is of one side and well-formed, that is
its leaves are orders and no inner node is below itself (`SlabsAssumption`); the books that the strategies are told have sides sorted best first, of prices
and quantities that are numbers (`BooksAssumption`); markets, tokens and lots are numbers, the pairs and the margin
baskets are of the markets of the group, and no lot is of size 0 (`GroupAssumption`); of the wallet, currencies are
distinct tokens with an oracle or the quote currency, there is one pair for each base currency, and weights are
numbers and not 100 percent (`MangoAssumption`); its accounts have an entry for each token in every version, and
prices are positive, since the code divides by them (`VersionsAssumption`).

What a step computes by a recursive function or a fold (the merge of a ladder, the walk of two books, the leaves
of a slab and the merge of their orders) is proved from `DataLemmas`. TLC evaluates what the merge computes as well, for all levels of three prices and quantities
up to 2 and all changes of up to three levels (`MergeAssumption` of `MCFtxMarketDataClient`).

### What is only model-checked

* All liveness, and the fairness half of the refinement of `RequestReply`: temporal reasoning with ENABLED
  is beyond the prover.
* `PublishedIsExchange`: that two books with the same checksum agree to its depth is not so of all books
  (the string of a book without asks is that of one without bids with the same levels), but of those that
  the messages on the strand make of each other.

## 5. Plan

1. Theorems: an invariant for `PublishedIsExchange`; type correctness of `MangoWalletClient` and `TakeStrategy`.
2. The `Counter` of the statistics and the composition of `RpcSocket` with each of its two sockets, so that
   the loss of messages is that of the sockets.
3. An abstract order (sent, acknowledged, filled, closed) that `FtxOrderClient` implements.

## 6. Not modelled

* **Data races between services**: two threads in one member after a coroutine went on in another
  service's thread. The modules have the order of steps that comes of it, not the torn access.
* **Formats**: JSON, Base58, line protocol, keys and signatures, decimal text. Functions of their
  input without state, by libraries for the greater part.
* **Iterators and pointers into containers** that are kept across suspensions
  (`FtxOrderClientImpl.cpp:195`) are undefined behaviour of the container after a rehash; the models
  use the key instead. The same is true of reads past the end, except where the model names a crash.
* **Measurements**, except where publishing one suspends the handler (`SlotSubscriber`); the `Counter`.
* **Start and shutdown of services**: the modules start with the constructed object; close is modelled
  for the sockets, the destruction of a service with calls pending is not.
* **Ids that are assumed to differ**: client order ids of FTX (the time in units of the clock), and the
  ids of simultaneous server subscriptions in `AccountSubscriber`.
* **Command line parsing**, the construction of services from it, and configuration files.
* `SolanaHttpClient` and `get_account` of `AccountBatcher` pass requests through and have no state;
  `RpcServer` is unfinished.
* The components marked `not_modelled` in `PROJECT.json`, with the reason given there.
