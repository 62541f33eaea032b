------------------------ MODULE FtxReferenceDataClient ------------------------
(***************************************************************************)
(* Ftx/FtxReferenceDataClient over Ftx/FtxRestClient: one request for all  *)
(* the markets, in which every configured market and its currencies must   *)
(* be found.                                                               *)
(*                                                                         *)
(* The REST client opens a connection of its own for every request,        *)
(* writes, reads one answer and is done.  One deadline of 30 s, set before *)
(* the connection is made, covers all but the resolution of the host name. *)
(* Each step may throw, and a request that throws while it writes or reads *)
(* may well have reached FTX.                                              *)
(***************************************************************************)
EXTENDS ReferenceDataClient, SequencesExt, FiniteSetsExt

CONSTANTS
    Requests,       \* requests of the clients that use the REST client
    MarketNames,    \* ftxMarketNames of the configuration
    CurrencyNames,  \* ftxCurrencyNames of the configuration
    MarketLists     \* what FTX may answer: sequences of markets

ASSUME ConfigurationAssumption ==
    /\ MarketNames \in Seq(STRING) /\ CurrencyNames \in Seq(STRING)
    /\ MarketLists \subseteq Seq([name : STRING, base : STRING, quote : STRING])

VARIABLES
    rest,           \* where do_send_get_request and do_send_post_request stand
    markets,        \* the markets FTX answered, once the pairs are found in them
    loading,        \* what do_load_reference_data awaits
    tradingPairs    \* the market found for each pair, and its currencies' indexes

RestInit == rest = [r \in Requests |-> "idle"]

InProgress == {"resolving", "connecting", "exchanging"}
GoesTo(r, phase) == rest' = [rest EXCEPT ![r] = phase]

\* A finished request leaves nothing behind; the caller may make another.
SendRequest(r) ==
    /\ rest[r] \notin InProgress
    /\ GoesTo(r, "resolving")

\* open_connection: the host is resolved and the deadline set,
Resolved(r) ==
    /\ rest[r] = "resolving"
    /\ GoesTo(r, "connecting")

\* the connection made and the handshake done; the request is built, written and its
\* answer read: it may be anywhere on its way.
Connected(r) ==
    /\ rest[r] = "connecting"
    /\ GoesTo(r, "exchanging")

\* An answer of status ok that can be parsed.
Answered(r) ==
    /\ rest[r] = "exchanging"
    /\ GoesTo(r, "answered")

\* An error of the resolver, the connection, the status or the parser.
Throws(r) ==
    /\ rest[r] \in InProgress
    /\ GoesTo(r, "thrown")

\* The deadline fails whatever the connection is at, and ends with it.
TimesOut(r) ==
    /\ rest[r] \in {"connecting", "exchanging"}
    /\ GoesTo(r, "thrown")

\* What goes on without the other side; the resolver gives up by itself.
RestProgress(r) == Resolved(r) \/ (Throws(r) /\ rest[r] = "resolving") \/ TimesOut(r)

-----------------------------------------------------------------------------
ftxRefVars == <<markets, loading, tradingPairs>>

FtxRefInit ==
    /\ RestInit /\ RefInit
    /\ markets = <<>>
    /\ loading = "none"
    /\ tradingPairs = <<>>

Find(s, x) == SelectInSeq(s, LAMBDA y : y = x)

\* Where find_if finds the market of pair p in an answer.  A market found is moved out of the answer
\* with its name, so that a pair configured twice is found once.
FindMarket(list, p) ==
    LET earlier == {q \in 1 .. p - 1 : MarketNames[q] = MarketNames[p]}
        named == {i \in DOMAIN list : list[i].name = MarketNames[p]}
        left == {i \in named : Cardinality({j \in named : j < i}) >= Cardinality(earlier)}
    IN  IF left = {} THEN 0 ELSE Min(left)

\* A pair: its market, and where the currencies of that are configured.
PairIn(list, p) == [market |-> FindMarket(list, p),
                    base |-> Find(CurrencyNames, list[FindMarket(list, p)].base),
                    quote |-> Find(CurrencyNames, list[FindMarket(list, p)].quote)]

\* Mutants: slips of the code that the properties below are there to catch.
MarketsArrive_QuoteUnchecked ==
    /\ rest["markets"] = "answered"
    /\ loading = "markets"
    /\ \E list \in MarketLists :
          IF \E p \in DOMAIN MarketNames : FindMarket(list, p) = 0 \/ PairIn(list, p).base = 0
          THEN LoadFails("ftx") /\ loading' = "failed" /\ UNCHANGED <<markets, tradingPairs>>
          ELSE /\ Loaded("ftx") /\ loading' = "done"
               /\ markets' = list
               /\ tradingPairs' = [p \in DOMAIN MarketNames |-> PairIn(list, p)]
    /\ UNCHANGED rest

\* do_load_reference_data, up to its request,
LoadStarts ==
    /\ loading = "none"
    /\ loading' = "markets"
    /\ SendRequest("markets")
    /\ UNCHANGED <<refVars, markets, tradingPairs>>

\* and after it: each market, base and quote currency must be there.
MarketsArrive ==
    /\ rest["markets"] = "answered"
    /\ loading = "markets"
    /\ \E list \in MarketLists :
          IF \E p \in DOMAIN MarketNames :
                FindMarket(list, p) = 0 \/ PairIn(list, p).base = 0 \/ PairIn(list, p).quote = 0
          THEN LoadFails("ftx") /\ loading' = "failed" /\ UNCHANGED <<markets, tradingPairs>>
          ELSE /\ Loaded("ftx") /\ loading' = "done"
               /\ markets' = list
               /\ tradingPairs' = [p \in DOMAIN MarketNames |-> PairIn(list, p)]
    /\ UNCHANGED rest

MarketsFail ==
    /\ rest["markets"] = "thrown"
    /\ loading = "markets"
    /\ loading' = "failed"
    /\ LoadFails("ftx")
    /\ UNCHANGED <<rest, markets, tradingPairs>>

LoadStep == LoadStarts \/ MarketsArrive \/ MarketsFail

\* A pair's market is the one configured for it, no two pairs share one, and its indexes
\* lead to the currencies the market trades.
PairsMatchMarkets ==
    loading = "done" =>
       \A p \in DOMAIN MarketNames :
          LET pair == tradingPairs[p]
          IN  /\ markets[pair.market].name = MarketNames[p]
              /\ pair.base \in DOMAIN CurrencyNames /\ pair.quote \in DOMAIN CurrencyNames
              /\ CurrencyNames[pair.base] = markets[pair.market].base
              /\ CurrencyNames[pair.quote] = markets[pair.market].quote
              /\ \A q \in DOMAIN MarketNames \ {p} : tradingPairs[q].market # pair.market
===============================================================================
