------------------------- MODULE ReferenceDataClient -------------------------
(***************************************************************************)
(* What the reference data clients of Serum, Mango and FTX share: data     *)
(* loaded once by a coroutine that the constructor starts, and callers     *)
(* that wait for it on the timer of the client, armed for 30 s when the    *)
(* client is made.                                                         *)
(*                                                                         *)
(* The loading coroutine goes on in the thread of the service that         *)
(* answered it last, so that its end can fall between a caller's look at   *)
(* _isInitialized and its wait on the timer.                               *)
(***************************************************************************)
CONSTANTS
    RefClients,     \* the reference data clients of the program
    Callers         \* the calls of get_reference_data made to each client

VARIABLES
    isInitialized,  \* _isInitialized of each client
    expiryTimer,    \* _expiryTimer of each client
    call            \* where the calls of each client are, and what they got

refVars == <<isInitialized, expiryTimer, call>>

RefInit ==
    /\ isInitialized = [k \in RefClients |-> FALSE]
    /\ expiryTimer = [k \in RefClients |-> "armed"]
    /\ call = [k \in RefClients |-> [a \in Callers[k] |-> "none"]]

\* The waits on the timer of a client end together.
EndWaits(k, how) ==
    [a \in Callers[k] |-> IF call[k][a] = "waiting" THEN how ELSE call[k][a]]

\* do_get_reference_data: data that is there is returned at once.
GetReferenceData(k, a) ==
    /\ call[k][a] = "none"
    /\ call' = [call EXCEPT ![k][a] = IF isInitialized[k] THEN "data" ELSE "checked"]
    /\ UNCHANGED <<isInitialized, expiryTimer>>

\* Its wait, which is over at once if the timer has run out.
WaitForData(k, a) ==
    /\ call[k][a] = "checked"
    /\ call' = [call EXCEPT ![k][a] = IF expiryTimer[k] = "expired" THEN "expired" ELSE "waiting"]
    /\ UNCHANGED <<isInitialized, expiryTimer>>

DeadlinePasses(k) ==
    /\ expiryTimer[k] = "armed"
    /\ expiryTimer' = [expiryTimer EXCEPT ![k] = "expired"]
    /\ call' = [call EXCEPT ![k] = EndWaits(k, "expired")]
    /\ UNCHANGED isInitialized

\* What follows the wait: a wait that ran out is refused, even if the data came since.
CallerResumes(k, a) ==
    /\ call[k][a] \in {"aborted", "expired"}
    /\ call' = [call EXCEPT ![k][a] =
                   IF call[k][a] = "expired" THEN "timedOut"
                   ELSE IF isInitialized[k] THEN "data" ELSE "unable"]
    /\ UNCHANGED <<isInitialized, expiryTimer>>

\* The end of do_load_reference_data.  The cancel wakes those that wait; the time the
\* timer runs out is left as it was.
Loaded(k) ==
    /\ isInitialized' = [isInitialized EXCEPT ![k] = TRUE]
    /\ call' = [call EXCEPT ![k] = EndWaits(k, "aborted")]
    /\ UNCHANGED expiryTimer

\* A coroutine that throws just ends: it was spawned detached.
LoadFails(k) ==
    /\ ~isInitialized[k]
    /\ UNCHANGED refVars

CallerGoesOn(k, a) == WaitForData(k, a) \/ CallerResumes(k, a)

RefNext == \E k \in RefClients :
    \/ DeadlinePasses(k) \/ Loaded(k) \/ LoadFails(k)
    \/ \E a \in Callers[k] : GetReferenceData(k, a) \/ CallerGoesOn(k, a)

RefSpec == RefInit /\ [][RefNext]_refVars

-----------------------------------------------------------------------------
RefTypeOK ==
    /\ isInitialized \in [RefClients -> BOOLEAN]
    /\ expiryTimer \in [RefClients -> {"armed", "expired"}]
    /\ DOMAIN call = RefClients
    /\ \A k \in RefClients :
          call[k] \in [Callers[k] -> {"none", "checked", "waiting", "aborted", "expired",
                                      "data", "timedOut", "unable"}]
=============================================================================
