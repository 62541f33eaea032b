----------------------- MODULE SerumReferenceDataClient -----------------------
(***************************************************************************)
(* Serum/SerumReferenceDataClient over AccountBatcher: the accounts of the *)
(* configured markets, the check that their mints are configured, and the  *)
(* accounts of the mints.                                                  *)
(*                                                                         *)
(* The chain is the environment, and changes as it likes: what an account  *)
(* holds is chosen when it is read, so that two reads may find accounts    *)
(* that were never on the chain together.  The RPC node answers a loader   *)
(* with as many accounts as it asked for (an account that is missing or of *)
(* another size would be read past its end); another client of the batcher *)
(* gets answers of every size.  The price and quantity increments are      *)
(* decimal arithmetic on what is loaded.                                   *)
(***************************************************************************)
EXTENDS AccountBatcher, ReferenceDataClient, SequencesExt

CONSTANTS
    Markets,        \* serumMarketAddresses of the configuration
    Mints,          \* mintAddresses of the configuration
    MarketAccounts, \* what the accounts of the markets may hold: the mints of each
    OtherCall,      \* a call of get_multiple_accounts by another client
    OtherKeys       \* bound: the keys it asks for

ASSUME ConfigurationAssumption == Len(Markets) \in 1 .. MaxKeys /\ Len(Mints) \in 1 .. MaxKeys

VARIABLES
    loading,        \* what do_load_reference_data of each client awaits
    serum           \* serumMarketAccount, baseCurrencyIndex and quoteCurrencyIndex of each pair

serumVars == <<loading, serum>>

\* find_if: the position of the first element, 0 if there is none.
Find(s, x) == SelectInSeq(s, LAMBDA y : y = x)

SerumInit ==
    /\ Init /\ RefInit
    /\ loading = [k \in RefClients |-> IF k = "serum" THEN "markets" ELSE "serum"]
    /\ serum = <<>>

\* An await of get_multiple_accounts: the call, and what follows it.
RequestAccounts(k, c, n) ==
    /\ loading[k] = c
    /\ GetMultipleAccounts(c, n)
    /\ UNCHANGED <<refVars, serumVars>>

AccountsArrive(k, c) == loading[k] = c /\ Resume(c) /\ outcome'[c] = "ok"

AccountsFail(k, c) ==
    /\ loading[k] = c
    /\ \/ Resume(c) /\ outcome'[c] = "error"
       \/ ResumeTimedOut(c)
    /\ LoadFails(k)
    /\ loading' = [loading EXCEPT ![k] = "failed"]
    /\ UNCHANGED serum

Stops(k) ==
    /\ LoadFails(k)
    /\ loading' = [loading EXCEPT ![k] = "failed"]

GoesOn(k, next) ==
    /\ loading' = [loading EXCEPT ![k] = next]
    /\ UNCHANGED refVars

Finishes(k) ==
    /\ loading' = [loading EXCEPT ![k] = "done"]
    /\ Loaded(k)

\* Every market's base and quote mints must be configured.
SerumMarketsLoaded ==
    /\ AccountsArrive("serum", "markets")
    /\ \E account \in MarketAccounts :
          LET pairs == [p \in DOMAIN Markets |->
                           [account |-> account[Markets[p]],
                            base |-> Find(Mints, account[Markets[p]].base),
                            quote |-> Find(Mints, account[Markets[p]].quote)]]
          IN  IF \E p \in DOMAIN Markets : 0 \in {pairs[p].base, pairs[p].quote}
              THEN Stops("serum") /\ UNCHANGED serum
              ELSE GoesOn("serum", "mints") /\ serum' = pairs

SerumMintsLoaded ==
    /\ AccountsArrive("serum", "mints")
    /\ Finishes("serum")
    /\ UNCHANGED serum

SerumLoads ==
    \/ RequestAccounts("serum", "markets", Len(Markets)) \/ RequestAccounts("serum", "mints", Len(Mints))
    \/ SerumMarketsLoaded \/ SerumMintsLoaded
    \/ AccountsFail("serum", "markets") \/ AccountsFail("serum", "mints")

\* The batcher's RPC node, its timers and its other client.
RpcAnswers ==
    /\ \/ \E c \in Calls, i \in 0 .. MaxKeys - 1 :
             HandleError(c, i) \/ HandleAnswer(c, i, BatchRequestSize(keys[c], i))
       \/ \E i \in 0 .. MaxKeys - 1, size \in 0 .. MaxKeys : HandleAnswer(OtherCall, i, size)
    /\ UNCHANGED <<refVars, serumVars>>

BatchExpires(c) == Expire(c) /\ UNCHANGED <<refVars, serumVars>>

OtherClientCalls == GetMultipleAccounts(OtherCall, OtherKeys) /\ UNCHANGED <<refVars, serumVars>>

OtherClientResumes ==
    (Resume(OtherCall) \/ ResumeTimedOut(OtherCall)) /\ UNCHANGED <<refVars, serumVars>>
===============================================================================
