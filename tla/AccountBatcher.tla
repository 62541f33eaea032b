---------------------------- MODULE AccountBatcher ----------------------------
(***************************************************************************)
(* Solana/AccountBatcher: one get_multiple_accounts request split into     *)
(* requests of at most BatchSize keys, whose answers, in any order, fill   *)
(* one response.                                                           *)
(*                                                                         *)
(* The caller's coroutine sleeps on the timer of its batch (30 s) and is   *)
(* woken by the handler of the last answer.  _nextBatchId has 64 bits and  *)
(* does not repeat, so a batch is named by its call.  get_account only     *)
(* forwards its request to SolanaHttpClient and keeps nothing here.        *)
(* What the RPC node answers, and how many accounts an answer holds, is    *)
(* the environment.                                                        *)
(***************************************************************************)
EXTENDS Integers, FiniteSets

CONSTANTS
    Calls,          \* calls of get_multiple_accounts
    BatchSize,      \* _multipleAccountsBatchSize
    MaxKeys         \* bound: keys of one call, accounts of one answer

\* Nothing in the constructor rules out 0; with it the first call divides by zero.
ASSUME BatchSizeAssumption == BatchSize \in Nat \ {0}
ASSUME MaxKeysAssumption == MaxKeys \in Nat

VARIABLES
    batches,        \* _multipleAccountBatches
    keys,           \* the number of keys each call asks for
    outstanding,    \* batchIndex of the requests of each call not handled yet
    outcome,        \* what became of each call
    result,         \* the response each call was given
    oddAnswer       \* environment: an answer to the call had a size not asked for

vars == <<batches, keys, outstanding, outcome, result, oddAnswer>>

\* A slot of a response: the position of the key whose account it holds, or NoInfo.
NoInfo == -1
Response(n) == [0 .. n - 1 -> 0 .. MaxKeys - 1 \cup {NoInfo}]
EmptyResponse(n) == [k \in 0 .. n - 1 |-> NoInfo]

\* Mutant: the last, shorter request is not counted.
RequestCount_Truncated(n) == n \div BatchSize

\* The batchIndex of every request the loop makes for n keys, and the number of
\* requests the counter starts with.
BatchIndexes(n) == {i \in 0 .. n - 1 : i % BatchSize = 0}
RequestCount(n) == (n \div BatchSize) + (IF n % BatchSize > 0 THEN 1 ELSE 0)

\* The number of keys of the request at batchIndex i.
BatchRequestSize(n, i) == IF BatchSize < n - i THEN BatchSize ELSE n - i

Batch(n) == [pendingBatches : Nat, wait : {"waiting", "aborted", "timedOut"},
             error : BOOLEAN, response : Response(n)]
NewBatch(n) == [pendingBatches |-> RequestCount(n), wait |-> "waiting",
                error |-> FALSE, response |-> EmptyResponse(n)]

Without(f, c) == [d \in DOMAIN f \ {c} |-> f[d]]

\* std::copy of an answer of the given size to batchIndex i of a call for n keys.
\* Accounts past the ones asked for are nobody's; a slot past the end would show.
Copied(response, n, i, size) ==
    [k \in DOMAIN response \cup i .. i + size - 1 |->
        IF k \in i .. i + size - 1
        THEN IF k < i + BatchRequestSize(n, i) THEN k ELSE NoInfo
        ELSE response[k]]

WithError(batch) == [batch EXCEPT !.error = TRUE]
WithAnswer(batch, n, i, size) == [batch EXCEPT !.response = Copied(batch.response, n, i, size)]

\* The handler's last step: the last answer cancels the timer, which aborts the
\* wait unless it is over.
Counted(batch) ==
    [pendingBatches |-> batch.pendingBatches - 1,
     wait |-> IF batch.pendingBatches = 1 /\ batch.wait = "waiting"
              THEN "aborted" ELSE batch.wait,
     error |-> batch.error,
     response |-> batch.response]

Init ==
    /\ batches = [c \in {} |-> 0]
    /\ keys = [c \in Calls |-> 0]
    /\ outstanding = [c \in Calls |-> {}]
    /\ outcome = [c \in Calls |-> "none"]
    /\ result = [c \in Calls |-> EmptyResponse(0)]
    /\ oddAnswer = [c \in Calls |-> FALSE]

-----------------------------------------------------------------------------
\* Mutants: slips of the code that the properties below are there to catch.

HandleError_NotStored(c, i) ==
    /\ i \in outstanding[c]
    /\ outstanding' = [outstanding EXCEPT ![c] = @ \ {i}]
    /\ batches' = IF c \in DOMAIN batches
                  THEN [batches EXCEPT ![c] = Counted(@)] ELSE batches
    /\ UNCHANGED <<keys, outcome, result, oddAnswer>>

ResumeTimedOut_OnlyWhenAnswered(c) ==
    /\ c \in DOMAIN batches
    /\ batches[c].wait = "timedOut"
    /\ outcome[c] = "waiting"
    /\ outstanding[c] = {}
    /\ outcome' = [outcome EXCEPT ![c] = "timedOut"]
    /\ UNCHANGED <<batches, keys, outstanding, result, oddAnswer>>

-----------------------------------------------------------------------------
\* do_get_multiple_accounts up to its wait: nothing to do without keys.
GetMultipleAccounts(c, n) ==
    /\ outcome[c] = "none"
    /\ keys' = [keys EXCEPT ![c] = n]
    /\ IF n = 0
       THEN /\ outcome' = [outcome EXCEPT ![c] = "ok"]
            /\ UNCHANGED <<batches, outstanding>>
       ELSE /\ outcome' = [outcome EXCEPT ![c] = "waiting"]
            /\ outstanding' = [outstanding EXCEPT ![c] = BatchIndexes(n)]
            /\ batches' = [d \in DOMAIN batches \cup {c} |->
                              IF d = c THEN NewBatch(n) ELSE batches[d]]
    /\ UNCHANGED <<result, oddAnswer>>

\* do_handle_multiple_account_batch for an answer: one that would end past the
\* response of the whole call is an error, any other is copied.
HandleAnswer(c, i, size) ==
    /\ i \in outstanding[c]
    /\ outstanding' = [outstanding EXCEPT ![c] = @ \ {i}]
    /\ oddAnswer' = [oddAnswer EXCEPT ![c] = @ \/ size # BatchRequestSize(keys[c], i)]
    /\ batches' =
          IF c \notin DOMAIN batches
          THEN batches
          ELSE [batches EXCEPT ![c] = Counted(
                   IF size + i > Cardinality(DOMAIN @.response)
                   THEN WithError(@) ELSE WithAnswer(@, keys[c], i, size))]
    /\ UNCHANGED <<keys, outcome, result>>

\* do_handle_multiple_account_batch for a request that threw.
HandleError(c, i) ==
    /\ i \in outstanding[c]
    /\ outstanding' = [outstanding EXCEPT ![c] = @ \ {i}]
    /\ batches' = IF c \in DOMAIN batches
                  THEN [batches EXCEPT ![c] = Counted(WithError(@))]
                  ELSE batches
    /\ UNCHANGED <<keys, outcome, result, oddAnswer>>

\* The 30 s of the batch are over.
Expire(c) ==
    /\ c \in DOMAIN batches
    /\ batches[c].wait = "waiting"
    /\ batches' = [batches EXCEPT ![c].wait = "timedOut"]
    /\ UNCHANGED <<keys, outstanding, outcome, result, oddAnswer>>

\* The caller woken by the last answer.
Resume(c) ==
    /\ c \in DOMAIN batches
    /\ batches[c].wait = "aborted"
    /\ batches' = Without(batches, c)
    /\ IF batches[c].error
       THEN outcome' = [outcome EXCEPT ![c] = "error"] /\ UNCHANGED result
       ELSE /\ outcome' = [outcome EXCEPT ![c] = "ok"]
            /\ result' = [result EXCEPT ![c] = batches[c].response]
    /\ UNCHANGED <<keys, outstanding, oddAnswer>>

\* The caller woken by the timer throws; the batch stays in the table for good.
ResumeTimedOut(c) ==
    /\ c \in DOMAIN batches
    /\ batches[c].wait = "timedOut"
    /\ outcome[c] = "waiting"
    /\ outcome' = [outcome EXCEPT ![c] = "timedOut"]
    /\ UNCHANGED <<batches, keys, outstanding, result, oddAnswer>>

Next ==
    \E c \in Calls :
       \/ \E n \in 0 .. MaxKeys : GetMultipleAccounts(c, n)
       \/ \E i \in outstanding[c] :
             HandleError(c, i) \/ (\E size \in 0 .. MaxKeys : HandleAnswer(c, i, size))
       \/ Expire(c) \/ Resume(c) \/ ResumeTimedOut(c)

\* Timers run out and the strand runs the caller that is queued; that a request is
\* ever answered is not assumed.
Fairness == \A c \in Calls : WF_vars(Expire(c)) /\ WF_vars(Resume(c) \/ ResumeTimedOut(c))

Spec == Init /\ [][Next]_vars /\ Fairness

-----------------------------------------------------------------------------
\* Type invariant.  A response keeps the size of its call: no answer, of whatever
\* size, is copied past its end.
TypeOK ==
    /\ DOMAIN batches \subseteq Calls /\ DOMAIN outstanding = Calls /\ DOMAIN result = Calls
    /\ keys \in [Calls -> 0 .. MaxKeys]
    /\ \A c \in Calls : outstanding[c] \subseteq BatchIndexes(keys[c])
    /\ \A c \in DOMAIN batches : batches[c] \in Batch(keys[c])
    /\ outcome \in [Calls -> {"none", "waiting", "ok", "error", "timedOut"}]
    /\ \A c \in Calls : result[c] \in Response(IF outcome[c] = "ok" THEN keys[c] ELSE 0)
    /\ oddAnswer \in [Calls -> BOOLEAN]

\* The counter of a batch is the number of its requests still to be handled, so the
\* caller is woken by the last answer and by no earlier one, the entry outlives every
\* request of the call, and late answers of a call that timed out still find it.
PendingCounted ==
    /\ \A c \in DOMAIN batches :
          /\ batches[c].pendingBatches = Cardinality(outstanding[c])
          /\ batches[c].wait = "aborted" => outstanding[c] = {}
          /\ batches[c].wait = "waiting" => outstanding[c] # {}
    /\ \A c \in Calls :
          /\ outstanding[c] # {} => c \in DOMAIN batches
          /\ c \in DOMAIN batches <=> outcome[c] \in {"waiting", "timedOut"}

\* A call that returns has the account of every key at the position of the key, in
\* whatever order the answers came: no error is lost, no slice missed and none put
\* elsewhere.  The RPC node is trusted to answer with as many accounts as asked.
ReturnedComplete ==
    \A c \in Calls : outcome[c] = "ok" /\ ~oddAnswer[c] =>
       \A k \in 0 .. keys[c] - 1 : result[c][k] = k
===============================================================================
