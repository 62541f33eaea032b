---------------------------- MODULE MangoOrderClient ----------------------------
(***************************************************************************)
(* Mango/MangoOrderClient: orders as signed transactions of the mango      *)
(* program, over SlotSubscriber for their blockhashes and KeyStore for the *)
(* key that signs them.                                                    *)
(*                                                                         *)
(* An account is named by what it is and by the index of its market, its   *)
(* pair or its token.  An order keeps the blockhash and the margin basket  *)
(* it was signed with, of which its transaction is a function.             *)
(***************************************************************************)
EXTENDS SlotSubscriber, SolanaTransaction, KeyStore, FiniteSets

CONSTANTS
    Client,             \* the subscriber that is this client
    Trader,             \* the process it runs in
    OwnerTag,           \* the tag of the mango account's owner
    Currencies,         \* the token in the group of each configured currency
    Pairs,              \* the market, base and quote token in the group of each configured pair
    NumMarkets,         \* mango_max_pairs
    Baskets,            \* margin baskets of the account: sets of markets
    Lots                \* of a pair: quote and base units, quote and base lot size

ASSUME ClientAssumption == Client \in Subscribers /\ Trader \in Processes /\ OwnerTag \in Tags
ASSUME GroupAssumption ==
    /\ NumMarkets \in Nat /\ Baskets \subseteq SUBSET (0 .. NumMarkets - 1)
    /\ Currencies \in Seq(Nat)
    /\ Pairs \in Seq([market : 0 .. NumMarkets - 1, base : Nat, quote : Nat])
    /\ Lots \in [quoteUnit : Nat, baseUnit : Nat, quoteLotSize : Nat \ {0}, baseLotSize : Nat \ {0}]

VARIABLES
    loading,            \* where do_load_mango_account stands
    posted,             \* coroutines of on_recent_blockhash on the strand, by their blockhash
    clientBlockhash,    \* _recentBlockhash of the order client
    inMarginBasket,     \* of _mangoReferenceData.mangoAccount
    orders              \* orders sent

orderVars == <<loading, posted, clientBlockhash, inMarginBasket, orders>>

NoBasket == {-1}

OrderInit ==
    /\ loading = "none" /\ posted = <<>> /\ clientBlockhash = 0
    /\ inMarginBasket = NoBasket /\ orders = <<>>

\* on_recent_blockhash spawns a coroutine on the strand of the client.
OnRecentBlockhash ==
    posted' = IF told'[Client] # told[Client] THEN Append(posted, told'[Client]) ELSE posted

DoOnRecentBlockhash ==
    /\ posted # <<>>
    /\ clientBlockhash' = Head(posted) /\ posted' = Tail(posted)
    /\ UNCHANGED <<slotVars, keyVars, loading, inMarginBasket, orders>>

-----------------------------------------------------------------------------
Account(name, index) == <<name, index>>
Of(name) == Account(name, 0)

\* currencies are in the order of the configuration; an index of the group is taken.
NodeBank(name, token) ==
    IF token < Len(Currencies) THEN Account(name, Currencies[token + 1]) ELSE Account("pastTheEnd", token)

SigningWritable == <<Of("owner")>>

\* The lists of do_send_order and do_cancel_order, which are alike.
WritableKeys(pair) ==
    LET p == Pairs[pair]
    IN  <<Of("mangoAccount"), Account("market", pair), Account("bids", pair), Account("asks", pair),
          Account("requestQueue", pair), Account("eventQueue", pair),
          Account("baseVault", pair), Account("quoteVault", pair),
          NodeBank("nodeBank", p.base), NodeBank("vault", p.base),
          NodeBank("nodeBank", p.quote), NodeBank("vault", p.quote), Account("openOrders", p.market)>>

ReadOnlyKeys(pair) ==
    LET p == Pairs[pair]
    IN  <<Of("mangoGroup"), Of("mangoCache"), Of("dexProgram"), Account("rootBank", p.base),
          Account("rootBank", p.quote), Of("tokenProgram"), Of("signer"),
          Account("dexSigner", p.market), Of("msrmVault"), Of("mangoProgram")>>

ProgramId == 23
PlaceIndices == <<14, 1, 0, 15, 16, 2, 3, 4, 5, 6, 7, 8, 17, 9, 10, 18, 11, 12, 19, 20, 21, 22, 13>>
PlaceItems == <<4, 4, 8, 8, 8, 4, 4, 8, 2>>
CancelIndices == <<2, 3, 4, 13, 0, 6>>
CancelItems == <<4, 4, 8, 8>>
SettleIndices == <<14, 15, 0, 3, 16, 13, 20, 7, 8, 17, 9, 18, 11, 10, 12, 21, 19>>

\* The open orders of the basket's other markets come last, behind the program.
OtherOpenOrders(pair, basket) ==
    LET markets == {i \in 0 .. NumMarkets - 1 : i \in basket /\ i # Pairs[pair].market}
    IN  [n \in 1 .. Cardinality(markets) |->
           Account("openOrders", CHOOSE i \in markets : Cardinality({j \in markets : j < i}) = n - 1)]

\* Mutant: the accounts behind the program are counted from the program itself.
OtherIndices_FromProgram(others) == [n \in DOMAIN others |-> ProgramId + n - 1]

\* The program is the last of the accounts every order has.
OtherIndices(others) == [n \in DOMAIN others |-> ProgramId + n]

PlaceSpotOrder(pair, blockhash, basket) ==
    LET others == OtherOpenOrders(pair, basket)
    IN  Transaction(blockhash, SigningWritable, <<>>, WritableKeys(pair), ReadOnlyKeys(pair) \o others,
            <<Instruction(ProgramId, PlaceIndices \o OtherIndices(others), PlaceItems)>>)

\* do_cancel_order builds and signs it, and asks for it to be sent by an operation that
\* starts when it is awaited, which it never is.
CancelSpotOrder(pair, blockhash) ==
    Transaction(blockhash, SigningWritable, <<>>, WritableKeys(pair), ReadOnlyKeys(pair),
        <<Instruction(ProgramId, CancelIndices, CancelItems), Instruction(ProgramId, SettleIndices, <<4>>)>>)

\* The amounts of the instruction in lots, the last with a fee of 3 in 10000.
Amounts(o) ==
    [price |-> (o.price * Lots.quoteUnit) \div Lots.quoteLotSize,
     quantity |-> (o.quantity * Lots.baseUnit) \div Lots.baseLotSize,
     maxQuoteQuantity |-> (10003 * o.price * Lots.quoteUnit * o.quantity * Lots.baseUnit)
                             \div (10000 * Lots.quoteLotSize * Lots.baseLotSize)]

-----------------------------------------------------------------------------
Loads(from, to) == loading = from /\ loading' = to
ClientKept == UNCHANGED <<posted, clientBlockhash, orders>>

\* do_load_mango_account: the blockhashes, ...
LoadMangoAccount ==
    /\ Loads("none", "blockhash")
    /\ SubscribeRecentBlockhash(Client) /\ OnRecentBlockhash
    /\ UNCHANGED <<keyVars, clientBlockhash, inMarginBasket, orders>>

BlockhashSubscribed ==
    /\ Loads("blockhash", "referenceData")
    /\ PushCallback(Client)
    /\ ClientKept /\ UNCHANGED <<keyVars, inMarginBasket>>

\* ... the reference data, which may not come, ...
ReferenceDataReturns ==
    /\ \/ Loads("referenceData", "owner") /\ inMarginBasket' \in Baskets
       \/ Loads("referenceData", "failed") /\ UNCHANGED inMarginBasket
    /\ ClientKept /\ UNCHANGED <<slotVars, keyVars>>

\* ... the owner's key pair, loaded and then taken, ...
LoadOwner ==
    /\ Loads("owner", "loadKey")
    /\ LoadKeyPair(Trader, OwnerTag)
    /\ ClientKept /\ UNCHANGED <<slotVars, inMarginBasket>>

OwnerReturns ==
    /\ loading = "loadKey"
    /\ \/ keyCall[Trader].at = "returned" /\ loading' = "getKey" /\ GetKey(Trader, OwnerTag)
       \/ keyCall[Trader].at = "thrown" /\ loading' = "failed" /\ UNCHANGED keyVars
    /\ ClientKept /\ UNCHANGED <<slotVars, inMarginBasket>>

OwnerTaken ==
    /\ Loads("getKey", "account")
    /\ ClientKept /\ UNCHANGED <<slotVars, keyVars, inMarginBasket>>

\* ... and the account, whose changes are told from then on.
AccountSubscribed ==
    /\ Loads("account", "done") \/ Loads("account", "failedAccount")
    /\ ClientKept /\ UNCHANGED <<slotVars, keyVars, inMarginBasket>>

ClientLoads ==
    \/ BlockhashSubscribed \/ ReferenceDataReturns
    \/ LoadOwner \/ OwnerReturns \/ OwnerTaken \/ AccountSubscribed

OnMangoAccount(basket) ==
    /\ loading = "done"
    /\ inMarginBasket' = basket /\ basket # inMarginBasket
    /\ ClientKept /\ UNCHANGED <<slotVars, keyVars, loading>>

\* The data and the key that do_send_order reads without asking whether they are loaded.
ReferenceDataLoaded == inMarginBasket # NoBasket
OwnerLoaded == loading \in {"account", "done", "failedAccount"}

\* send_order spawns do_send_order on the strand.
SendOrder(order) ==
    orders' = Append(orders, [pair |-> order.pair, side |-> order.side,
                              price |-> order.price, quantity |-> order.quantity,
                              state |-> "posted", blockhash |-> 0, basket |-> NoBasket,
                              amounts |-> Amounts(order)])

\* The transaction is signed with what is there, and asked to be sent.
SignOrder(i) ==
    /\ orders[i].state = "posted" /\ ReferenceDataLoaded /\ OwnerLoaded
    /\ orders' = [orders EXCEPT ![i].state = "sending", ![i].blockhash = clientBlockhash,
                                ![i].basket = inMarginBasket]
    /\ UNCHANGED <<slotVars, keyVars, loading, posted, clientBlockhash, inMarginBasket>>

\* The answer brings the signature, which is waited for; whatever it says, the order is closed.
OrderGoesOn(i) ==
    /\ orders' = [orders EXCEPT ![i].state = CASE @ = "sending" -> "signature" [] @ = "signature" -> "CLOSED"]
    /\ UNCHANGED <<slotVars, keyVars, loading, posted, clientBlockhash, inMarginBasket>>
OrderFails(i) ==
    /\ orders' = [orders EXCEPT ![i].state = "failed"]
    /\ UNCHANGED <<slotVars, keyVars, loading, posted, clientBlockhash, inMarginBasket>>

OrderStep ==
    \/ DoOnRecentBlockhash \/ ClientLoads
    \/ \E i \in DOMAIN orders :
          \/ SignOrder(i)
          \/ orders[i].state \in {"sending", "signature"} /\ (OrderGoesOn(i) \/ OrderFails(i))

-----------------------------------------------------------------------------
\* The accounts that the comments of MangoInstruction.hpp say the instructions expect, each
\* with its rights, `[writable]`, `[signer]` or `[]`.
RO(name, index) == [account |-> Account(name, index), writable |-> FALSE, signer |-> FALSE]
RW(name, index) == [account |-> Account(name, index), writable |-> TRUE, signer |-> FALSE]
Signs(name) == [account |-> Of(name), writable |-> FALSE, signer |-> TRUE]

DocumentedPlace(pair) ==
    LET p == Pairs[pair]
    IN  <<RO("mangoGroup", 0), RW("mangoAccount", 0), Signs("owner"), RO("mangoCache", 0),
          RO("dexProgram", 0), RW("market", pair), RW("bids", pair), RW("asks", pair),
          RW("requestQueue", pair), RW("eventQueue", pair), RW("baseVault", pair),
          RW("quoteVault", pair), RO("rootBank", p.base), RW("nodeBank", p.base), RW("vault", p.base),
          RO("rootBank", p.quote), RW("nodeBank", p.quote), RW("vault", p.quote),
          RO("tokenProgram", 0), RO("signer", 0), RO("rent", 0), RO("dexSigner", p.market),
          RO("msrmVault", 0), RW("openOrders", p.market)>>
DocumentedCancel(pair) ==
    <<RW("market", pair), RW("bids", pair), RW("asks", pair), RW("openOrders", Pairs[pair].market),
      Signs("owner"), RW("eventQueue", pair)>>

\* Of rent_ai, the 21st, the list says "I think this is not a field anymore." (:167).
RentPlace == 21
WithoutRent(documented) ==
    [n \in 1 .. Len(documented) - 1 |-> documented[IF n < RentPlace THEN n ELSE n + 1]]

\* A token that is configured at the index it has in the group, and the accounts of one
\* that is not: the code looks at the index of the group among the configured (NodeBank).
InPlace(token) == token < Len(Currencies) /\ Currencies[token + 1] = token
OutOfPlace(account) == account[1] \in {"nodeBank", "vault"} /\ ~InPlace(account[2])

\* An instruction has the documented accounts with their rights, those of tokens out of place
\* excepted, which are all wrong; and the owner, who pays, is written too.
ReadsAs(t, i, documented) ==
    /\ AccountAt(t, t.instructions[i].programId) = Of("mangoProgram")
    /\ \A n \in DOMAIN documented :
          LET index == t.instructions[i].accountIndices[n]
              expected == documented[n]
          IN  /\ AccountAt(t, index) = expected.account <=> ~OutOfPlace(expected.account)
              /\ IsSigner(t, index) = expected.signer
              /\ IsWritable(t, index) = (expected.writable \/ expected.signer)

\* An order the chain gets is one a validator reads as the instruction documents: but for
\* rent_ai every account is in its place with its rights, and the node banks and vaults are
\* those of its currencies exactly if these are configured where they are in the group;
\* behind them are the open orders of the other markets in the margin basket it was signed
\* with, and the quote it may cost covers its limit.  No more than 9 markets fit into a
\* transaction.
OrdersAsDocumented ==
    \A i \in DOMAIN orders :
        LET o == orders[i]
            t == PlaceSpotOrder(o.pair, o.blockhash, o.basket)
            others == AccountsOf(t, 1)
        IN  o.state \notin {"posted"} =>
                /\ ReadsAs(t, 1, WithoutRent(DocumentedPlace(o.pair)))
                /\ {others[n] : n \in 24 .. Len(others)}
                      = {Account("openOrders", m) : m \in o.basket \ {Pairs[o.pair].market}}
                /\ ReadsAs(CancelSpotOrder(o.pair, o.blockhash), 1, DocumentedCancel(o.pair))
                /\ o.amounts.maxQuoteQuantity >= o.amounts.price * o.amounts.quantity
                /\ Cardinality(o.basket \cup {Pairs[o.pair].market}) =< 9 => TransactionSize(t) =< MaxTransactionSize

\* No blockhash an order is signed with is older than one the client held before, and once
\* what is posted is handled it is the recent one, unless a refresh overtook the subscription.
BlockhashNotOlder == [][clientBlockhash' >= clientBlockhash]_clientBlockhash
HoldsRecent ==
    Client \in onBlockhashCallbacks \ overtaken =>
        recentBlockhash = IF posted = <<>> THEN clientBlockhash ELSE Last(posted)
=============================================================================
