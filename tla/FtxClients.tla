------------------------------ MODULE FtxClients ------------------------------
(***************************************************************************)
(* The FTX clients together: the order client and the wallet client wait   *)
(* for the reference data, and the orders, the balances and the markets    *)
(* all go through FtxRestClient.  FTX takes an order when it may have read *)
(* the request, and answers only then.                                     *)
(***************************************************************************)
EXTENDS FtxOrderClient, FtxWalletClient

CONSTANTS
    OrderCaller     \* the order client among the callers of get_reference_data

VARIABLE reached    \* environment: the orders whose request FTX may have read

ftxVars == <<vars, rest, reached, refVars, ftxRefVars, walletVars>>
OrdersKept == UNCHANGED vars
LoadKept == UNCHANGED <<refVars, ftxRefVars>>
WalletKept == UNCHANGED walletVars

FtxInit == Init /\ FtxRefInit /\ WalletInit /\ reached = {}

-----------------------------------------------------------------------------
\* do_login: the message, then the reference data, whose refusal it throws on.
Login ==
    /\ LoginSent
    /\ GetReferenceData("ftx", OrderCaller)
    /\ UNCHANGED <<rest, ftxRefVars, walletVars>>

LoginGoesOn ==
    /\ call["ftx"][OrderCaller] \in {"data", "timedOut", "unable"}
    /\ ReferenceDataLoaded(call["ftx"][OrderCaller] = "data")
    /\ UNCHANGED rest /\ LoadKept /\ WalletKept

\* do_send_order: its request, the answer to it and its failure.
OrderSent(c) == SendOrder(c) /\ SendRequest(c) /\ LoadKept /\ WalletKept

OrderAnswered(c) ==
    /\ \/ rest[c] = "answered" /\ RestResponds(c)
       \/ rest[c] = "thrown" /\ RestFails(c)
    /\ UNCHANGED rest /\ LoadKept /\ WalletKept

OrderGoesOn(c) == (Expire(c) \/ Resume(c)) /\ UNCHANGED rest /\ LoadKept /\ WalletKept

OrderClientStep ==
    \/ LoginGoesOn
    \/ \E c \in Orders : OrderAnswered(c) \/ OrderGoesOn(c)

\* The channel and the exchange behind it.
ExchangeStep ==
    /\ \/ DelayOver \/ OnMessage \/ Authenticate \/ LoseConnection
       \/ \E c \in Orders : CloseOrder(c) \/ (c \in reached /\ TakeOrder(c))
       \/ \E c \in Orders, fill \in 1 .. Quantity : FillOrder(c, fill)
    /\ UNCHANGED rest /\ LoadKept /\ WalletKept

\* FTX answers an order it has taken.
RestServes ==
    /\ \E r \in Requests :
          \/ Connected(r) /\ reached' = reached \cup ({r} \cap Orders)
          \/ Throws(r) /\ UNCHANGED reached
          \/ Answered(r) /\ (r \in Orders => exchange[r].state # "none") /\ UNCHANGED reached
    /\ OrdersKept /\ LoadKept /\ WalletKept

WalletCalls ==
    /\ \E s \in Subscriptions : GetReferenceData("ftx", s)
    /\ UNCHANGED rest /\ UNCHANGED ftxRefVars /\ OrdersKept /\ WalletKept

\* What the program does without FTX or its user.
FtxProgramStep ==
    /\ \/ OrderClientStep
       \/ (\E r \in Requests : RestProgress(r)) /\ OrdersKept /\ LoadKept /\ WalletKept
       \/ LoadStep /\ OrdersKept /\ WalletKept
       \/ /\ DeadlinePasses("ftx") \/ \E a \in Callers["ftx"] : CallerGoesOn("ftx", a)
          /\ UNCHANGED <<rest, ftxRefVars>> /\ OrdersKept /\ WalletKept
       \/ (\E s \in Subscriptions : WalletStep(s)) /\ OrdersKept /\ LoadKept
    /\ UNCHANGED reached

FtxNext ==
    \/ FtxProgramStep
    \/ /\ Login \/ (\E c \in Orders : OrderSent(c)) \/ WalletCalls \/ ExchangeStep
       /\ UNCHANGED reached
    \/ RestServes

\* Timers run out, the resolver gives up and what is queued runs; nothing is assumed of
\* FTX.  No step of the program can be taken for ever, as the updates are bounded, so
\* that fairness to all of them together is fairness to each.
FtxSpec == FtxInit /\ [][FtxNext]_ftxVars /\ WF_ftxVars(FtxProgramStep)
===============================================================================
