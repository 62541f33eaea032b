------------------------------ MODULE RpcSocket ------------------------------
(***************************************************************************)
(* JSON-RPC calls over a message socket (Io/RpcSocket/RpcSocket.hpp).      *)
(*                                                                         *)
(* Every coroutine and handler of the socket runs on one strand, so a      *)
(* stretch of code between two suspensions is one action: Send(c) is       *)
(* do_send_request up to the wait on the expiry timer, Resume(c) is the    *)
(* rest of it, OnMessage(m) is the handler of one message read.  Expiry    *)
(* of a timer only QUEUES the waiter: a message handled between Expire     *)
(* and Resume finds a timer it can no longer cancel.                       *)
(*                                                                         *)
(* The server and the wire are the environment: requests and responses     *)
(* may be lost, delayed and reordered; a request is answered at most once. *)
(* A message with no id is passed to the layer above and touches nothing   *)
(* of this state (module SolanaWsClient takes it from there).              *)
(***************************************************************************)
EXTENDS Integers

CONSTANTS
    Calls,      \* calls of do_send_request, each made at most once
    NoCall,     \* no response stored yet
    IdLimit     \* number of values of _nextRequestId, 2^32 in the program

ASSUME IdLimitAssumption == IdLimit \in Nat \ {0}
ASSUME NoCallAssumption == NoCall \notin Calls

VARIABLES
    nextRequestId,      \* _nextRequestId
    pendingRequests,    \* _pendingRequests: id -> timer, error and response
    status,             \* the coroutine of each call: unsent, waiting, or how it ended
    callId,             \* the id each call was sent with (a local of the coroutine)
    returned,           \* the payload a call returned: the call it was computed for
    answer,             \* environment: the server's answer to each call
    responses           \* environment: responses on their way to on_message

vars == <<nextRequestId, pendingRequests, status, callId, returned, answer,
          responses>>

Ids == 0 .. IdLimit - 1

\* What the server may put in the single answer to a call: a result, a result
\* json_to rejects, an error object, or neither of "result" and "error".
Answers == {"result", "badResult", "error", "malformed"}

\* The entry that do_send_request emplaces, and its possible values.
NewPending == [expiryTimer |-> "armed", error |-> FALSE, response |-> NoCall]
Pending == [expiryTimer : {"armed", "expired", "cancelled"},
            error : BOOLEAN,
            response : Calls \cup {NoCall}]

Without(f, id) == [i \in DOMAIN f \ {id} |-> f[i]]

\* A call still able to send a response to on_message, or waiting for one.
Live(c) == \/ status[c] = "waiting"
           \/ status[c] # "unsent" /\ answer[c] = "none"
           \/ \E m \in responses : m.call = c

\* Environment: _nextRequestId is 32 bits wide and wraps, but an id comes round
\* only after 2^32 requests, when the 30 s timer of its previous use is long over
\* and no response to it is on the wire.
IdIsFree(id) == \A c \in Calls : Live(c) => callId[c] # id

Init ==
    /\ nextRequestId = 0
    /\ pendingRequests = [i \in {} |-> NewPending]
    /\ status = [c \in Calls |-> "unsent"]
    /\ callId = [c \in Calls |-> 0]
    /\ returned = [c \in Calls |-> NoCall]
    /\ answer = [c \in Calls |-> "none"]
    /\ responses = {}

-----------------------------------------------------------------------------
\* Mutants: slips of the code that the properties below are there to catch.

Resume_TimedOutNotErased(c) ==
    /\ status[c] = "waiting"
    /\ pendingRequests[callId[c]].expiryTimer = "expired"
    /\ status' = [status EXCEPT ![c] = "timedOut"]
    /\ UNCHANGED <<nextRequestId, pendingRequests, callId, returned, answer, responses>>

OnMessage_InOrder(m) ==
    /\ m \in responses
    /\ responses' = responses \ {m}
    /\ \E id \in DOMAIN pendingRequests :
          pendingRequests' = [pendingRequests EXCEPT
             ![id].expiryTimer = IF @ = "armed" THEN "cancelled" ELSE @,
             ![id].response = m.call]
    /\ UNCHANGED <<nextRequestId, status, callId, returned, answer>>

OnMessage_MalformedCancels(m) ==
    /\ m \in responses
    /\ responses' = responses \ {m}
    /\ pendingRequests' =
          IF m.id \notin DOMAIN pendingRequests
          THEN pendingRequests
          ELSE [pendingRequests EXCEPT
                  ![m.id].expiryTimer = IF @ = "armed" THEN "cancelled" ELSE @,
                  ![m.id].error = @ \/ answer[m.call] \in {"error", "badResult"},
                  ![m.id].response = IF answer[m.call] = "result" THEN m.call ELSE @]
    /\ UNCHANGED <<nextRequestId, status, callId, returned, answer>>

-----------------------------------------------------------------------------
\* do_send_request up to its wait.  Neither do_send_message nor the emplace
\* suspends, so no message is handled before the entry is in the table.
Send(c) ==
    /\ status[c] = "unsent"
    /\ IdIsFree(nextRequestId)
    /\ nextRequestId' = (nextRequestId + 1) % IdLimit
    /\ pendingRequests' = [i \in DOMAIN pendingRequests \cup {nextRequestId} |->
                              IF i \in DOMAIN pendingRequests
                              THEN pendingRequests[i] ELSE NewPending]
    /\ status' = [status EXCEPT ![c] = "waiting"]
    /\ callId' = [callId EXCEPT ![c] = nextRequestId]
    /\ UNCHANGED <<returned, answer, responses>>

\* The 30 s expiry timer runs out: the waiter is queued with no error code.
Expire(id) ==
    /\ id \in DOMAIN pendingRequests
    /\ pendingRequests[id].expiryTimer = "armed"
    /\ pendingRequests' = [pendingRequests EXCEPT ![id].expiryTimer = "expired"]
    /\ UNCHANGED <<nextRequestId, status, callId, returned, answer, responses>>

\* The waiter runs again: aborted means answered, no error code means timed out.
\* Whatever the outcome, the entry is erased.
Resume(c) ==
    LET p == pendingRequests[callId[c]]
    IN  /\ status[c] = "waiting"
        /\ p.expiryTimer # "armed"
        /\ pendingRequests' = Without(pendingRequests, callId[c])
        /\ status' = [status EXCEPT ![c] =
                          IF p.expiryTimer = "expired" THEN "timedOut"
                          ELSE IF p.error THEN "failed" ELSE "returned"]
        /\ returned' = [returned EXCEPT ![c] =
                          IF p.expiryTimer = "cancelled" /\ ~p.error
                          THEN p.response ELSE NoCall]
        /\ UNCHANGED <<nextRequestId, callId, answer, responses>>

\* on_message for a message with an id: unknown ids are logged; a message with
\* neither result nor error throws before the timer is touched; otherwise the
\* entry is filled and the timer cancelled, in vain if it has expired already.
OnMessage(m) ==
    /\ m \in responses
    /\ responses' = responses \ {m}
    /\ pendingRequests' =
          IF m.id \notin DOMAIN pendingRequests \/ answer[m.call] = "malformed"
          THEN pendingRequests
          ELSE [pendingRequests EXCEPT
                  ![m.id].expiryTimer = IF @ = "armed" THEN "cancelled" ELSE @,
                  ![m.id].error = @ \/ answer[m.call] \in {"error", "badResult"},
                  ![m.id].response = IF answer[m.call] = "result" THEN m.call ELSE @]
    /\ UNCHANGED <<nextRequestId, status, callId, returned, answer>>

\* Environment: the server answers a call.
ServerAnswer(c, a) ==
    /\ status[c] # "unsent"
    /\ answer[c] = "none"
    /\ answer' = [answer EXCEPT ![c] = a]
    /\ responses' = responses \cup {[id |-> callId[c], call |-> c]}
    /\ UNCHANGED <<nextRequestId, pendingRequests, status, callId, returned>>

\* Environment: the request is lost before it is answered.
LoseRequest(c) ==
    /\ status[c] # "unsent"
    /\ answer[c] = "none"
    /\ answer' = [answer EXCEPT ![c] = "lost"]
    /\ UNCHANGED <<nextRequestId, pendingRequests, status, callId, returned, responses>>

\* Environment: the connection drops with a response on it.
LoseResponse(m) ==
    /\ m \in responses
    /\ responses' = responses \ {m}
    /\ UNCHANGED <<nextRequestId, pendingRequests, status, callId, returned, answer>>

Next ==
    \/ \E c \in Calls : Send(c) \/ Resume(c) \/ LoseRequest(c)
    \/ \E c \in Calls, a \in Answers : ServerAnswer(c, a)
    \/ \E id \in Ids : Expire(id)
    \/ \E m \in responses : OnMessage(m) \/ LoseResponse(m)

\* A steady timer expires and the strand runs what is queued; nothing is asked of
\* the server.
Fairness ==
    /\ \A c \in Calls : WF_vars(Resume(c))
    /\ \A id \in Ids : WF_vars(Expire(id))

Spec == Init /\ [][Next]_vars /\ Fairness

-----------------------------------------------------------------------------
Statuses == {"unsent", "waiting", "returned", "failed", "timedOut"}

\* Type invariant.
TypeOK ==
    /\ nextRequestId \in Ids
    /\ DOMAIN pendingRequests \subseteq Ids
    /\ \A id \in DOMAIN pendingRequests : pendingRequests[id] \in Pending
    /\ status \in [Calls -> Statuses]
    /\ callId \in [Calls -> Ids]
    /\ returned \in [Calls -> Calls \cup {NoCall}]
    /\ answer \in [Calls -> Answers \cup {"none", "lost"}]
    /\ responses \subseteq [id : Ids, call : Calls]

\* The pending table holds one entry for each suspended call and no other: no
\* entry outlives its call on any path out of do_send_request, and no two calls
\* ever share an entry (a shared one would be erased under the second waiter).
PendingIffWaiting ==
    /\ DOMAIN pendingRequests = {callId[c] : c \in {d \in Calls : status[d] = "waiting"}}
    /\ \A c, d \in Calls :
          status[c] = "waiting" /\ status[d] = "waiting" /\ callId[c] = callId[d] => c = d

\* A call that returns, returns the payload the server computed for it, whatever
\* the order of answers, of late answers to calls that timed out, and of ids that
\* have wrapped.
OwnResponse ==
    \A c \in Calls : status[c] = "returned" => returned[c] = c /\ answer[c] = "result"

\* The timer decides the race between an answer and the timeout, once: an answer
\* handled while the timer runs is what the caller gets, and a call whose timer
\* ran out times out even if its answer is handled before the caller resumes.
TimerDecides ==
    [][\A c \in Calls :
          status[c] = "waiting" /\ status'[c] # "waiting" =>
             LET timer == pendingRequests[callId[c]].expiryTimer
             IN  \/ timer = "expired" /\ status'[c] = "timedOut"
                 \/ timer = "cancelled" /\ answer[c] = "result" /\ status'[c] = "returned"
                 \/ timer = "cancelled" /\ answer[c] \in {"error", "badResult"}
                                        /\ status'[c] = "failed"]_vars

\* The socket implements RequestReply, including that every call ends: at most
\* once, with the answer to itself or a timeout.
Abstract == INSTANCE RequestReply WITH Calls <- Calls, status <- status, answer <- answer
ImplementsRequestReply == Abstract!Spec
=============================================================================
