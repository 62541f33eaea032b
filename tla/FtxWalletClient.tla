--------------------------- MODULE FtxWalletClient ---------------------------
(***************************************************************************)
(* Ftx/FtxWalletClient: a subscription waits for the reference data and    *)
(* starts a loop that asks for the balances and tells them, every second.  *)
(*                                                                         *)
(* All loops wait on one timer: the loop that arms it again aborts the     *)
(* wait of another, which ends that one.  A balance is the number of the   *)
(* answer that told it; margin is the balance of the quote currency.       *)
(***************************************************************************)
EXTENDS FtxReferenceDataClient, Naturals

CONSTANTS
    Subscriptions,  \* calls of subscribe_wallet; each is a caller and a request too
    MaxUpdates      \* bound: updates told

VARIABLES
    loop,           \* the update loop each subscription started
    onWallet,       \* the subscriber whose callback _onWallet is
    updates,        \* the number of wallets told
    failed          \* history: a request for balances threw

walletVars == <<loop, onWallet, updates, failed>>

WalletInit ==
    /\ loop = [s \in Subscriptions |-> "none"]
    /\ onWallet = "none"
    /\ updates = 0
    /\ failed = FALSE

\* Mutants: slips of the code that the properties below are there to catch.
WaitForUpdate_WaitFirst(s) ==
    /\ loop[s] = "publishing"
    /\ loop' = [q \in Subscriptions |-> IF q = s \/ loop[q] = "waiting" THEN "aborted" ELSE loop[q]]
    /\ UNCHANGED <<onWallet, updates, failed, rest>>

\* do_subscribe_wallet after the reference data: without the quote currency it throws.
SubscribeWallet(s) ==
    /\ call["ftx"][s] \in {"data", "timedOut", "unable"}
    /\ loop[s] = "none"
    /\ IF call["ftx"][s] = "data" /\ Find(CurrencyNames, "USD") # 0
       THEN /\ onWallet' = s
            /\ loop' = [loop EXCEPT ![s] = "balances"]
            /\ SendRequest(s)
       ELSE loop' = [loop EXCEPT ![s] = "refused"] /\ UNCHANGED <<onWallet, rest>>
    /\ UNCHANGED <<updates, failed>>

\* do_update_positions with an answer: the wallet is told and its statistics published,
TellWallet(s) ==
    /\ loop[s] = "balances" /\ rest[s] = "answered"
    /\ updates < MaxUpdates /\ updates' = updates + 1
    /\ loop' = [loop EXCEPT ![s] = "publishing"]
    /\ UNCHANGED <<onWallet, failed, rest>>

\* which is awaited; then the timer is armed again, and waited on.
WaitForUpdate(s) ==
    /\ loop[s] = "publishing"
    /\ loop' = [q \in Subscriptions |->
                   IF q = s THEN "waiting" ELSE IF loop[q] = "waiting" THEN "aborted" ELSE loop[q]]
    /\ UNCHANGED <<onWallet, updates, failed, rest>>

\* A request that throws ends its loop for good.
BalancesFail(s) ==
    /\ loop[s] = "balances" /\ rest[s] = "thrown"
    /\ loop' = [loop EXCEPT ![s] = "ended"]
    /\ failed' = TRUE
    /\ UNCHANGED <<onWallet, updates, rest>>

\* A second later the loop that waits asks again,
UpdateAgain(s) ==
    /\ loop[s] = "waiting"
    /\ loop' = [loop EXCEPT ![s] = "balances"]
    /\ SendRequest(s)
    /\ UNCHANGED <<onWallet, updates, failed>>

\* and one whose wait was aborted ends.
LoopEnds(s) ==
    /\ loop[s] = "aborted"
    /\ loop' = [loop EXCEPT ![s] = "ended"]
    /\ UNCHANGED <<onWallet, updates, failed, rest>>

WalletStep(s) ==
    \/ SubscribeWallet(s) \/ TellWallet(s) \/ WaitForUpdate(s) \/ BalancesFail(s)
    \/ UpdateAgain(s) \/ LoopEnds(s)

\* Subscriptions take each other's timer and callback, and yet as long as no request for
\* balances has failed a loop goes on, once one has been started.
ALoopRuns ==
    onWallet # "none" /\ ~failed =>
        \E s \in Subscriptions : loop[s] \in {"balances", "publishing", "waiting"}
===============================================================================
