----------------------------- MODULE SocketProofs -----------------------------
(***************************************************************************)
(* Proofs about the sockets: RpcSocket for any set of calls and any width  *)
(* of the id, and JsonHttpSocket for any messages.                         *)
(***************************************************************************)
EXTENDS RpcSocket, JsonHttpSocket, TLAPS

\* What is on the wire was sent: a response carries the id of its call, and comes
\* from a server that has answered.
WireOK ==
    \A m \in responses :
        /\ m.id = callId[m.call]
        /\ status[m.call] # "unsent"
        /\ answer[m.call] \in Answers

\* Only one live call bears an id: this is what IdIsFree buys.
LiveIdsDiffer ==
    \A c, d \in Calls : Live(c) /\ Live(d) /\ callId[c] = callId[d] => c = d

\* An entry holds only what the server answered to the call that waits on it, and
\* its timer is cancelled only when it holds something.
EntryOK ==
    \A c \in Calls : status[c] = "waiting" =>
        LET p == pendingRequests[callId[c]]
        IN  /\ p.error => answer[c] \in {"error", "badResult"}
            /\ p.response # NoCall => p.response = c /\ answer[c] = "result"
            /\ p.expiryTimer = "cancelled" => p.error \/ p.response # NoCall

UnsentUnanswered == \A c \in Calls : status[c] = "unsent" => answer[c] = "none"

IInv ==
    /\ TypeOK
    /\ PendingIffWaiting
    /\ WireOK
    /\ LiveIdsDiffer
    /\ EntryOK
    /\ UnsentUnanswered
    /\ OwnResponse
-----------------------------------------------------------------------------
LEMMA WrapsWithinIds == \A i \in Ids : (i + 1) % IdLimit \in Ids
BY IdLimitAssumption DEF Ids

LEMMA InitIInv == Init => IInv
<1> SUFFICES ASSUME Init PROVE IInv
    OBVIOUS
<1>1. TypeOK
    BY IdLimitAssumption DEF Init, TypeOK, Ids, Statuses
<1>2. PendingIffWaiting /\ WireOK /\ LiveIdsDiffer /\ EntryOK
    BY DEF Init, PendingIffWaiting, WireOK, LiveIdsDiffer, Live, EntryOK
<1>3. UnsentUnanswered /\ OwnResponse
    BY DEF Init, UnsentUnanswered, OwnResponse
<1> QED BY <1>1, <1>2, <1>3 DEF IInv

LEMMA SendStep ==
    ASSUME IInv, NEW c \in Calls, Send(c)
    PROVE  IInv'
<1> USE DEF IInv
<1>1. c \in Calls /\ callId'[c] = nextRequestId /\ status'[c] = "waiting"
      /\ \A d \in Calls \ {c} : status'[d] = status[d] /\ callId'[d] = callId[d]
    BY DEF Send, TypeOK
<1>2. nextRequestId \notin DOMAIN pendingRequests
    BY DEF Send, IdIsFree, Live, PendingIffWaiting
<1>3. /\ DOMAIN pendingRequests' = DOMAIN pendingRequests \cup {nextRequestId}
      /\ pendingRequests'[nextRequestId] = NewPending
      /\ \A i \in DOMAIN pendingRequests : pendingRequests'[i] = pendingRequests[i]
    BY <1>2 DEF Send
<1>4. TypeOK'
    BY <1>3, WrapsWithinIds DEF Send, TypeOK, NewPending, Pending, Statuses
<1>5. \A d \in Calls \ {c} : Live(d)' <=> Live(d)
    BY <1>1 DEF Send, Live
<1>6. LiveIdsDiffer'
    BY <1>1, <1>5 DEF Send, LiveIdsDiffer, IdIsFree
<1>7. PendingIffWaiting'
  <2>1. \A i : i \in DOMAIN pendingRequests' <=>
                   \E d \in Calls : status'[d] = "waiting" /\ callId'[d] = i
    BY <1>1, <1>3 DEF Send, PendingIffWaiting
  <2>2. \A d, e \in Calls : status'[d] = "waiting" /\ status'[e] = "waiting"
                               /\ callId'[d] = callId'[e] => d = e
    BY <1>6 DEF LiveIdsDiffer, Live
  <2> QED BY <2>1, <2>2 DEF PendingIffWaiting
<1>8. WireOK'
    BY <1>1 DEF Send, WireOK, TypeOK
<1>9. EntryOK'
    BY <1>1, <1>2, <1>3 DEF Send, EntryOK, PendingIffWaiting, NewPending
<1>10. UnsentUnanswered' /\ OwnResponse'
    BY <1>1 DEF Send, UnsentUnanswered, OwnResponse
<1> QED BY <1>4, <1>6, <1>7, <1>8, <1>9, <1>10

LEMMA ResumeStep ==
    ASSUME IInv, NEW c \in Calls, Resume(c)
    PROVE  IInv'
<1> USE DEF IInv
<1> DEFINE p == pendingRequests[callId[c]]
<1>1. /\ callId[c] \in DOMAIN pendingRequests
      /\ p \in Pending
      /\ p.expiryTimer \in {"expired", "cancelled"}
    BY DEF Resume, PendingIffWaiting, TypeOK, Pending
<1>2. /\ status'[c] \in {"timedOut", "failed", "returned"}
      /\ \A d \in Calls \ {c} : status'[d] = status[d] /\ returned'[d] = returned[d]
    BY DEF Resume, TypeOK
<1>3. /\ DOMAIN pendingRequests' = DOMAIN pendingRequests \ {callId[c]}
      /\ \A i \in DOMAIN pendingRequests' : pendingRequests'[i] = pendingRequests[i]
    BY DEF Resume, Without
<1>4. returned'[c] \in Calls \cup {NoCall}
    BY <1>1 DEF Resume, TypeOK, Pending
<1>5. TypeOK'
    BY <1>2, <1>3, <1>4 DEF Resume, TypeOK, Statuses
<1>6. \A d \in Calls : Live(d)' => Live(d)
    BY <1>2 DEF Resume, Live
<1>7. LiveIdsDiffer'
    BY <1>6 DEF Resume, LiveIdsDiffer
<1>8. \A d \in Calls \ {c} : status[d] = "waiting" => callId[d] # callId[c]
    BY DEF Resume, PendingIffWaiting
<1>9. PendingIffWaiting'
    BY <1>2, <1>3, <1>8 DEF Resume, PendingIffWaiting
<1>10. WireOK'
    BY <1>2 DEF Resume, WireOK, TypeOK
<1>11. EntryOK'
    BY <1>2, <1>3, <1>8 DEF Resume, EntryOK, PendingIffWaiting
<1>12. status'[c] = "returned" => returned'[c] = c /\ answer'[c] = "result"
    BY <1>1 DEF Resume, EntryOK, TypeOK
<1>13. UnsentUnanswered' /\ OwnResponse'
    BY <1>2, <1>12 DEF Resume, UnsentUnanswered, OwnResponse
<1> QED BY <1>5, <1>7, <1>9, <1>10, <1>11, <1>13

LEMMA ExpireStep ==
    ASSUME IInv, NEW id \in Ids, Expire(id)
    PROVE  IInv'
<1> USE DEF IInv
<1>1. /\ DOMAIN pendingRequests' = DOMAIN pendingRequests
      /\ \A i \in DOMAIN pendingRequests :
            /\ pendingRequests'[i] \in Pending
            /\ pendingRequests'[i].error = pendingRequests[i].error
            /\ pendingRequests'[i].response = pendingRequests[i].response
            /\ pendingRequests'[i].expiryTimer = "cancelled"
                  => pendingRequests[i].expiryTimer = "cancelled"
    BY DEF Expire, TypeOK, Pending
<1>2. TypeOK' /\ PendingIffWaiting'
    BY <1>1 DEF Expire, TypeOK, PendingIffWaiting
<1>3. WireOK' /\ LiveIdsDiffer' /\ UnsentUnanswered' /\ OwnResponse'
    BY DEF Expire, WireOK, LiveIdsDiffer, Live, UnsentUnanswered, OwnResponse
<1>4. EntryOK'
    BY <1>1 DEF Expire, EntryOK, PendingIffWaiting
<1> QED BY <1>2, <1>3, <1>4

LEMMA OnMessageStep ==
    ASSUME IInv, NEW m \in responses, OnMessage(m)
    PROVE  IInv'
<1> USE DEF IInv
<1>1. m.call \in Calls /\ m.id = callId[m.call] /\ answer[m.call] \in Answers
    BY DEF TypeOK, WireOK
<1>2. Live(m.call)
    BY DEF Live
<1>3. \A d \in Calls : Live(d)' => Live(d)
    BY DEF OnMessage, Live
<1>4. /\ DOMAIN pendingRequests' = DOMAIN pendingRequests
      /\ \A i \in DOMAIN pendingRequests :
            i # m.id => pendingRequests'[i] = pendingRequests[i]
    BY DEF OnMessage
<1>5. CASE m.id \notin DOMAIN pendingRequests \/ answer[m.call] = "malformed"
  <2>1. /\ UNCHANGED <<nextRequestId, pendingRequests, status, callId, returned, answer>>
        /\ responses' \subseteq responses
    BY <1>5 DEF OnMessage
  <2>2. TypeOK' /\ PendingIffWaiting' /\ WireOK' /\ LiveIdsDiffer'
    BY <1>3, <2>1 DEF TypeOK, PendingIffWaiting, WireOK, LiveIdsDiffer
  <2>3. EntryOK' /\ UnsentUnanswered' /\ OwnResponse'
    BY <2>1 DEF EntryOK, UnsentUnanswered, OwnResponse
  <2> QED BY <2>2, <2>3
<1>6. CASE m.id \in DOMAIN pendingRequests /\ answer[m.call] # "malformed"
  <2> DEFINE p == pendingRequests[m.id]
             q == pendingRequests'[m.id]
  <2>1. p \in Pending /\ answer[m.call] \in {"result", "badResult", "error"}
    BY <1>1, <1>6 DEF TypeOK, Answers
  <2>2. /\ q.expiryTimer = IF p.expiryTimer = "armed" THEN "cancelled" ELSE p.expiryTimer
        /\ q.error = (p.error \/ answer[m.call] \in {"error", "badResult"})
        /\ q.response = IF answer[m.call] = "result" THEN m.call ELSE p.response
        /\ q \in Pending
    BY <1>1, <1>6, <2>1 DEF OnMessage, Pending
  <2>3. status[m.call] = "waiting"
    <3>1. PICK d \in Calls : status[d] = "waiting" /\ callId[d] = m.id
        BY <1>6 DEF PendingIffWaiting
    <3>2. Live(d)
        BY <3>1 DEF Live
    <3> QED BY <1>1, <1>2, <3>1, <3>2 DEF LiveIdsDiffer
  <2>4. \A d \in Calls \ {m.call} : status[d] = "waiting" => callId[d] # m.id
    BY <1>1, <2>3 DEF PendingIffWaiting
  <2>5. UNCHANGED <<nextRequestId, status, callId, returned, answer>>
        /\ responses' \subseteq responses
    BY DEF OnMessage
  <2>6. TypeOK' /\ PendingIffWaiting'
    BY <1>4, <2>2, <2>5 DEF TypeOK, PendingIffWaiting
  <2>7. EntryOK'
    <3>1. ASSUME NEW d \in Calls, status'[d] = "waiting"
          PROVE  LET e == pendingRequests'[callId'[d]]
                 IN  /\ e.error => answer'[d] \in {"error", "badResult"}
                     /\ e.response # NoCall => e.response = d /\ answer'[d] = "result"
                     /\ e.expiryTimer = "cancelled" => e.error \/ e.response # NoCall
      <4>1. CASE d = m.call
        BY <1>1, <2>1, <2>2, <2>3, <2>5, <4>1, NoCallAssumption DEF EntryOK, Pending
      <4>2. CASE d # m.call
        <5>1. pendingRequests'[callId'[d]] = pendingRequests[callId[d]]
          BY <1>4, <2>4, <2>5, <3>1, <4>2 DEF PendingIffWaiting
        <5> QED BY <2>5, <3>1, <5>1 DEF EntryOK
      <4> QED BY <4>1, <4>2
    <3> QED BY <3>1 DEF EntryOK
  <2>8. WireOK' /\ LiveIdsDiffer' /\ UnsentUnanswered' /\ OwnResponse'
    BY <1>3 DEF OnMessage, WireOK, LiveIdsDiffer, UnsentUnanswered, OwnResponse
  <2> QED BY <2>6, <2>7, <2>8
<1> QED BY <1>5, <1>6

LEMMA ServerAnswerStep ==
    ASSUME IInv, NEW c \in Calls, NEW a \in Answers, ServerAnswer(c, a)
    PROVE  IInv'
<1> USE DEF IInv
<1>1. /\ answer'[c] = a
      /\ \A d \in Calls \ {c} : answer'[d] = answer[d]
    BY DEF ServerAnswer, TypeOK
<1>2. Live(c) /\ \A d \in Calls : Live(d)' => Live(d)
    BY <1>1 DEF ServerAnswer, Live, Answers
<1>3. TypeOK'
    BY DEF ServerAnswer, TypeOK
<1>4. PendingIffWaiting' /\ LiveIdsDiffer'
    BY <1>2 DEF ServerAnswer, PendingIffWaiting, LiveIdsDiffer
<1>5. WireOK'
    BY <1>1 DEF ServerAnswer, WireOK, TypeOK
<1>6. EntryOK' /\ OwnResponse' /\ UnsentUnanswered'
    BY <1>1 DEF ServerAnswer, EntryOK, OwnResponse, UnsentUnanswered
<1> QED BY <1>3, <1>4, <1>5, <1>6

LEMMA LossStep ==
    ASSUME IInv,
           \/ \E c \in Calls : LoseRequest(c)
           \/ \E m \in responses : LoseResponse(m)
    PROVE  IInv'
<1> USE DEF IInv
<1>1. CASE \E c \in Calls : LoseRequest(c)
  <2> PICK c \in Calls : LoseRequest(c)
    BY <1>1
  <2>1. /\ answer'[c] = "lost"
        /\ \A d \in Calls \ {c} : answer'[d] = answer[d]
    BY DEF LoseRequest, TypeOK
  <2>2. \A d \in Calls : Live(d)' => Live(d)
    BY <2>1 DEF LoseRequest, Live
  <2>3. TypeOK'
    BY DEF LoseRequest, TypeOK
  <2>4. PendingIffWaiting' /\ LiveIdsDiffer'
    BY <2>2 DEF LoseRequest, PendingIffWaiting, LiveIdsDiffer
  <2>5. WireOK' /\ EntryOK' /\ OwnResponse' /\ UnsentUnanswered'
    BY <2>1 DEF LoseRequest, WireOK, Answers, EntryOK, OwnResponse, UnsentUnanswered, TypeOK
  <2> QED BY <2>3, <2>4, <2>5
<1>2. CASE \E m \in responses : LoseResponse(m)
  <2>1. \A d \in Calls : Live(d)' => Live(d)
    BY <1>2 DEF LoseResponse, Live
  <2> QED
    BY <1>2, <2>1 DEF LoseResponse, TypeOK, PendingIffWaiting, WireOK, LiveIdsDiffer,
       EntryOK, OwnResponse, UnsentUnanswered
<1> QED BY <1>1, <1>2

LEMMA NextIInv == IInv /\ [Next]_vars => IInv'
<1> SUFFICES ASSUME IInv, [Next]_vars PROVE IInv'
    OBVIOUS
<1>1. CASE \E c \in Calls : Send(c)
    BY <1>1, SendStep
<1>2. CASE \E c \in Calls : Resume(c)
    BY <1>2, ResumeStep
<1>3. CASE \E c \in Calls : LoseRequest(c)
    BY <1>3, LossStep
<1>4. CASE \E c \in Calls, a \in Answers : ServerAnswer(c, a)
    BY <1>4, ServerAnswerStep
<1>5. CASE \E id \in Ids : Expire(id)
    BY <1>5, ExpireStep
<1>6. CASE \E m \in responses : OnMessage(m)
    BY <1>6, OnMessageStep
<1>7. CASE \E m \in responses : LoseResponse(m)
    BY <1>7, LossStep
<1>8. CASE UNCHANGED vars
    BY <1>8 DEF vars, IInv, TypeOK, PendingIffWaiting, WireOK, LiveIdsDiffer, Live,
       EntryOK, UnsentUnanswered, OwnResponse
<1> QED BY <1>1, <1>2, <1>3, <1>4, <1>5, <1>6, <1>7, <1>8 DEF Next

THEOREM Invariance == Spec => []IInv
BY InitIInv, NextIInv, PTL DEF Spec

-----------------------------------------------------------------------------
\* The type invariant of the socket.
THEOREM TypeCorrect == Spec => []TypeOK
BY Invariance, PTL DEF IInv

\* The pending table of _pendingRequests holds exactly the suspended calls, one
\* entry each.
THEOREM PendingTableExact == Spec => []PendingIffWaiting
BY Invariance, PTL DEF IInv

\* do_send_request never returns the answer to another call.
THEOREM ResponsesAreOwn == Spec => []OwnResponse
BY Invariance, PTL DEF IInv

-----------------------------------------------------------------------------
\* A step of Resume ends the call as its timer and its entry say.
LEMMA ResumeVerdict ==
    ASSUME IInv, NEW c \in Calls, Resume(c)
    PROVE  LET timer == pendingRequests[callId[c]].expiryTimer
           IN  \/ timer = "expired" /\ status'[c] = "timedOut"
               \/ timer = "cancelled" /\ answer[c] = "result" /\ status'[c] = "returned"
               \/ timer = "cancelled" /\ answer[c] \in {"error", "badResult"}
                                      /\ status'[c] = "failed"
<1> DEFINE p == pendingRequests[callId[c]]
<1>1. p \in Pending
    BY DEF IInv, Resume, PendingIffWaiting, TypeOK
<1>2. p.expiryTimer \in {"expired", "cancelled"}
    BY <1>1 DEF Resume, Pending
<1>3. CASE p.expiryTimer = "expired"
  <2>1. status' = [status EXCEPT ![c] = "timedOut"]
    BY <1>3 DEF Resume
  <2> QED BY <1>3, <2>1 DEF IInv, TypeOK
<1>4. CASE p.expiryTimer = "cancelled" /\ p.error
    BY <1>4 DEF IInv, Resume, TypeOK, EntryOK
<1>5. CASE p.expiryTimer = "cancelled" /\ ~p.error
    BY <1>5 DEF IInv, Resume, TypeOK, EntryOK
<1> QED BY <1>2, <1>3, <1>4, <1>5

\* The expiry timer decides between the answer and the timeout, for every order in
\* which the answer, the expiry and the waiter are run.
THEOREM TimerDecidesRace == Spec => TimerDecides
<1> DEFINE Decided ==
      \A c \in Calls :
          status[c] = "waiting" /\ status'[c] # "waiting" =>
             LET timer == pendingRequests[callId[c]].expiryTimer
             IN  \/ timer = "expired" /\ status'[c] = "timedOut"
                 \/ timer = "cancelled" /\ answer[c] = "result" /\ status'[c] = "returned"
                 \/ timer = "cancelled" /\ answer[c] \in {"error", "badResult"}
                                        /\ status'[c] = "failed"
<1>1. IInv /\ [Next]_vars => [Decided]_vars
  <2> SUFFICES ASSUME IInv, Next, NEW c \in Calls,
                      status[c] = "waiting", status'[c] # "waiting"
               PROVE  Resume(c)
    BY ResumeVerdict
  <2>1. ASSUME NEW d \in Calls, Send(d) PROVE FALSE
    BY <2>1 DEF Send, IInv, TypeOK
  <2>2. ASSUME NEW d \in Calls, Resume(d) PROVE Resume(c)
    BY <2>2 DEF Resume, IInv, TypeOK
  <2>3. ASSUME UNCHANGED status PROVE FALSE
    BY <2>3
  <2> QED
    BY <2>1, <2>2, <2>3 DEF Next, LoseRequest, ServerAnswer, Expire, OnMessage, LoseResponse
<1> QED BY <1>1, Invariance, PTL DEF Spec, TimerDecides

-----------------------------------------------------------------------------
\* Every step of the socket is a step of RequestReply or leaves it unchanged, and
\* so is its initial state (liveness is left to TLC).
THEOREM RefinesRequestReply == Spec => Abstract!Init /\ [][Abstract!Next]_(Abstract!vars)
<1>1. Init => Abstract!Init
    BY DEF Init, Abstract!Init
<1>2. IInv /\ [Next]_vars => [Abstract!Next]_(Abstract!vars)
  <2> SUFFICES ASSUME IInv, [Next]_vars PROVE [Abstract!Next]_(Abstract!vars)
    OBVIOUS
  <2>1. ASSUME NEW c \in Calls, Send(c) PROVE Abstract!Send(c)
    BY <2>1 DEF Send, Abstract!Send
  <2>2. ASSUME NEW c \in Calls, Resume(c) PROVE Abstract!Complete(c)
    <3>1. /\ status[c] = "waiting"
          /\ status' = [status EXCEPT ![c] = status'[c]]
          /\ UNCHANGED answer
        BY <2>2 DEF Resume, IInv, TypeOK
    <3>2. status'[c] \in {"timedOut", Abstract!Verdict(answer[c])} \ {"none"}
        BY <2>2, ResumeVerdict DEF Abstract!Verdict
    <3> QED BY <3>1, <3>2 DEF Abstract!Complete
  <2>3. ASSUME NEW c \in Calls, NEW a \in Answers, ServerAnswer(c, a)
        PROVE  Abstract!Answer(c)
    BY <2>3 DEF ServerAnswer, Abstract!Answer, Answers
  <2>4. ASSUME NEW c \in Calls, LoseRequest(c) PROVE Abstract!Answer(c)
    BY <2>4 DEF LoseRequest, Abstract!Answer
  <2>5. ASSUME UNCHANGED <<status, answer>> PROVE UNCHANGED Abstract!vars
    BY <2>5 DEF Abstract!vars
  <2> QED
    BY <2>1, <2>2, <2>3, <2>4, <2>5
       DEF Next, Abstract!Next, Expire, OnMessage, LoseResponse, vars
<1> QED BY <1>1, <1>2, Invariance, PTL DEF Spec

-----------------------------------------------------------------------------
\* A writer from its spawn to its return, by where it stands.
WriterWaits == {"waiting", "aborted", "timedOut"}
WriterWrites == {"writing", "failing", "refused"}

\* A writer writes the one message there is, the last that was sent.
AloneWithMessage ==
    \A w \in Messages :
        /\ writer[w] \in WriterWaits \cup WriterWrites => writeBuffer = <<w>> /\ sent = w
        /\ writer[w] \in WriterWrites => writing[w] = w

\* What is on the wire was sent before what is in the queue.
WireBehindQueue ==
    /\ \A i, j \in 1 .. Len(wire) : i < j => wire[i] < wire[j]
    /\ \A i \in 1 .. Len(wire) : wire[i] =< sent
    /\ writeBuffer # <<>> => writeBuffer = <<sent>> /\ \A i \in 1 .. Len(wire) : wire[i] < sent

HttpTypeOK ==
    /\ sent \in Nat /\ backlogged \in BOOLEAN
    /\ writer \in [Messages -> {"none", "done", "gaveUp"} \cup WriterWaits \cup WriterWrites]
    /\ writing \in [Messages -> Nat]
    /\ writeBuffer \in Seq(Nat) /\ wire \in Seq(Nat)

\* Before a message is sent behind another there is one message at a time.
HttpIInv == HttpTypeOK /\ (~backlogged => ~undefined /\ AloneWithMessage /\ WireBehindQueue)

LEMMA HttpInitKeeps == HttpInit => HttpIInv
<1> SUFFICES ASSUME HttpInit PROVE HttpIInv
  OBVIOUS
<1>1. /\ sent = 0 /\ backlogged = FALSE /\ undefined = FALSE /\ writeBuffer = <<>> /\ wire = <<>>
      /\ writer = [m \in Messages |-> "none"] /\ writing = [m \in Messages |-> 0]
  BY DEF HttpInit
<1>2. writeBuffer \in Seq(Nat) /\ wire \in Seq(Nat) /\ Len(wire) = 0
  BY <1>1
<1>3. HttpTypeOK
  BY <1>1, <1>2 DEF HttpTypeOK
<1>4. AloneWithMessage
  BY <1>1 DEF AloneWithMessage, WriterWaits, WriterWrites
<1>5. WireBehindQueue
  BY <1>1, <1>2 DEF WireBehindQueue
<1> QED BY <1>1, <1>3, <1>4, <1>5 DEF HttpIInv

\* The connection may wake the writers that wait, and fail the writes.
LEMMA WakeKeeps ==
  ASSUME HttpIInv, UNCHANGED <<writeBuffer, sent, backlogged, writing, wire, undefined>>,
         \/ UNCHANGED writer
         \/ \E how \in {"aborted", "timedOut"} : writer' = Wake(how)
         \/ writer' = FailWrites
         \/ writer' = [w \in Messages |->
                          IF FailWrites[w] = "waiting" THEN "aborted" ELSE FailWrites[w]]
  PROVE  HttpIInv'
<1>1. /\ HttpTypeOK'
      /\ \A w \in Messages :
            /\ writer'[w] \in WriterWaits \cup WriterWrites => writer[w] \in WriterWaits \cup WriterWrites
            /\ writer'[w] \in WriterWrites => writer[w] \in WriterWrites
  BY DEF HttpIInv, HttpTypeOK, Wake, FailWrites, WriterWaits, WriterWrites
<1>2. ~backlogged' => ~undefined' /\ AloneWithMessage' /\ WireBehindQueue'
  BY <1>1 DEF HttpIInv, AloneWithMessage, WireBehindQueue
<1> QED BY <1>1, <1>2 DEF HttpIInv

\* A message is put into an empty queue, and has a writer of its own if any.
LEMMA SendKeeps ==
  ASSUME HttpIInv, NEW m \in Messages, SendMessage(m)
  PROVE  HttpIInv'
<1>1. /\ m = sent + 1 /\ sent' = m /\ writeBuffer' = Append(writeBuffer, m)
      /\ backlogged' = (backlogged \/ writeBuffer # <<>>)
      /\ UNCHANGED <<wire, undefined>>
  BY DEF SendMessage, StaysDefined
<1>2. m \in Nat /\ writeBuffer' \in Seq(Nat) /\ writeBuffer' # <<>> /\ Head(writeBuffer') \in Nat
  BY <1>1 DEF HttpIInv, HttpTypeOK
<1>3. \/ UNCHANGED <<writer, writing>>
      \/ /\ \E s \in WriterWaits : writer' = [writer EXCEPT ![m] = s]
         /\ UNCHANGED writing
      \/ /\ \E s \in WriterWrites : writer' = [writer EXCEPT ![m] = s]
         /\ writing' = [writing EXCEPT ![m] = Head(writeBuffer')]
  BY <1>2 DEF SendMessage, Loop, StartWrite, WriterWaits, WriterWrites
<1>4. HttpTypeOK'
  BY <1>1, <1>2, <1>3 DEF HttpIInv, HttpTypeOK
<1>5. ASSUME ~backlogged'
      PROVE  ~undefined' /\ AloneWithMessage' /\ WireBehindQueue'
  <2>1. ~backlogged /\ writeBuffer = <<>>
    BY <1>1, <1>5 DEF HttpIInv, HttpTypeOK
  <2>2. writeBuffer' = <<m>> /\ Head(writeBuffer') = m
    BY <1>1, <1>2, <2>1
  <2>3. \A w \in Messages : writer[w] \notin WriterWaits \cup WriterWrites
    BY <2>1 DEF HttpIInv, AloneWithMessage
  <2>4. \A w \in Messages :
            /\ writer'[w] \in WriterWaits \cup WriterWrites => w = m
            /\ writer'[w] \in WriterWrites => writing'[w] = m
    BY <1>3, <2>2, <2>3 DEF HttpIInv, HttpTypeOK, WriterWaits, WriterWrites
  <2>5. AloneWithMessage'
    BY <1>1, <2>2, <2>4 DEF AloneWithMessage
  <2>6. WireBehindQueue'
    BY <1>1, <1>2, <2>1, <2>2 DEF HttpIInv, HttpTypeOK, WireBehindQueue
  <2> QED BY <1>1, <2>1, <2>5, <2>6 DEF HttpIInv
<1> QED BY <1>4, <1>5 DEF HttpIInv

\* After its wait the writer writes, or gives its message up.
LEMMA WaitEndKeeps ==
  ASSUME HttpIInv, NEW w \in Messages, WriterAborted(w) \/ WriterGivesUp(w)
  PROVE  HttpIInv'
<1>1. UNCHANGED <<writeBuffer, sent, backlogged, wire>> /\ writer[w] \in WriterWaits
  BY DEF WriterAborted, WriterGivesUp, sends, WriterWaits
<1>2. \/ UNCHANGED <<writer, writing>> /\ writeBuffer = <<>>
      \/ writer' = [writer EXCEPT ![w] = "gaveUp"] /\ UNCHANGED <<writing, undefined>>
      \/ /\ writeBuffer # <<>>
         /\ \E s \in WriterWrites : writer' = [writer EXCEPT ![w] = s]
         /\ writing' = [writing EXCEPT ![w] = Head(writeBuffer)] /\ UNCHANGED undefined
  BY DEF WriterAborted, WriterGivesUp, StartWrite, StaysDefined, WriterWrites
<1>3. writeBuffer # <<>> => Head(writeBuffer) \in Nat
  BY DEF HttpIInv, HttpTypeOK
<1>4. HttpTypeOK'
  BY <1>1, <1>2, <1>3 DEF HttpIInv, HttpTypeOK
<1>5. ASSUME ~backlogged'
      PROVE  ~undefined' /\ AloneWithMessage' /\ WireBehindQueue'
  <2>1. ~undefined /\ AloneWithMessage /\ WireBehindQueue
    BY <1>1, <1>5 DEF HttpIInv
  <2>2. writeBuffer = <<w>> /\ writeBuffer # <<>> /\ Head(writeBuffer) = w
    BY <1>1, <2>1 DEF AloneWithMessage
  <2>3. AloneWithMessage'
    BY <1>1, <1>2, <2>1, <2>2 DEF HttpIInv, HttpTypeOK, AloneWithMessage, WriterWaits, WriterWrites
  <2>4. ~undefined'
    BY <1>2, <2>1, <2>2
  <2> QED BY <1>1, <2>1, <2>3, <2>4 DEF WireBehindQueue
<1> QED BY <1>4, <1>5 DEF HttpIInv

\* A write that ends takes the message with it, whether it succeeds or fails.
LEMMA WriteEndKeeps ==
  ASSUME HttpIInv, NEW w \in Messages,
         WriteSucceeds(w) \/ \E partly \in BOOLEAN : WriteFails(w, partly)
  PROVE  HttpIInv'
<1>1. /\ UNCHANGED <<sent, backlogged>> /\ writer[w] \in WriterWrites
      /\ wire' = wire \/ wire' = Append(wire, writing[w])
  BY DEF WriteSucceeds, WriteFails, sends, WriterWrites
<1>2. \/ UNCHANGED <<writeBuffer, writer, writing>>
      \/ /\ writeBuffer' \in {<<>>, Tail(writeBuffer)} /\ writeBuffer \in Seq(Nat)
         /\ \/ /\ \E s \in WriterWaits \cup {"done"} : writer' = [writer EXCEPT ![w] = s]
               /\ UNCHANGED writing
            \/ /\ writeBuffer' # <<>>
               /\ \E s \in WriterWrites : writer' = [writer EXCEPT ![w] = s]
               /\ writing' = [writing EXCEPT ![w] = Head(writeBuffer')]
  BY DEF HttpIInv, HttpTypeOK, WriteSucceeds, WriteFails, Loop, StartWrite,
         WriterWaits, WriterWrites
<1>3. CASE backlogged
  <2>1. wire' \in Seq(Nat)
    <3>1. writing[w] \in Nat /\ wire \in Seq(Nat)
      BY DEF HttpIInv, HttpTypeOK
    <3> QED BY <1>1, <3>1
  <2>2. HttpTypeOK'
    <3>1. CASE UNCHANGED <<writeBuffer, writer, writing>>
      BY <1>1, <2>1, <3>1 DEF HttpIInv, HttpTypeOK
    <3>2. CASE writeBuffer' = <<>>
      <4>1. writeBuffer' \in Seq(Nat)
        BY <3>2
      <4>2. UNCHANGED writing
        BY <1>2, <3>2
      <4>3. UNCHANGED writer \/ \E s \in WriterWaits \cup {"done"} : writer' = [writer EXCEPT ![w] = s]
        BY <1>2, <3>2
      <4>4. writer' \in [Messages -> {"none", "done", "gaveUp"} \cup WriterWaits \cup WriterWrites]
        BY <4>3 DEF HttpIInv, HttpTypeOK
      <4> QED BY <1>1, <2>1, <4>1, <4>2, <4>4 DEF HttpIInv, HttpTypeOK
    <3>3. CASE writeBuffer # <<>> /\ writeBuffer' = Tail(writeBuffer)
      <4>1. writeBuffer' \in Seq(Nat) /\ (writeBuffer' # <<>> => Head(writeBuffer') \in Nat)
        BY <3>3 DEF HttpIInv, HttpTypeOK
      <4> QED BY <1>1, <1>2, <2>1, <4>1 DEF HttpIInv, HttpTypeOK, WriterWaits, WriterWrites
    <3> QED BY <1>2, <3>1, <3>2, <3>3 DEF WriteSucceeds, WriteFails
  <2> QED BY <1>1, <1>3, <2>2 DEF HttpIInv
<1>4. CASE ~backlogged
  <2>1. /\ ~undefined /\ AloneWithMessage /\ WireBehindQueue
        /\ writeBuffer = <<w>> /\ sent = w /\ writing[w] = w /\ w \in Nat
    BY <1>1, <1>4 DEF HttpIInv, HttpTypeOK, AloneWithMessage, WriterWaits, WriterWrites
  <2>2. \A v \in Messages \ {w} : writer[v] \notin WriterWaits \cup WriterWrites
    BY <2>1 DEF AloneWithMessage
  <2>3. ~InUse(w, {Head(writeBuffer)}) /\ ~InUse(w, Contents(writeBuffer)) /\ writeBuffer # <<>>
    BY <2>1, <2>2 DEF InUse, WriterWrites
  <2>4. ~undefined' /\ writeBuffer' = <<>> /\ writer' = [writer EXCEPT ![w] = "done"] /\ UNCHANGED writing
    BY <2>1, <2>3, <1>2 DEF WriteSucceeds, WriteFails, Loop
  <2>5. AloneWithMessage'
    BY <2>2, <2>4 DEF HttpIInv, HttpTypeOK, AloneWithMessage, WriterWaits, WriterWrites
  <2>6. WireBehindQueue' /\ wire' \in Seq(Nat)
    <3>1. /\ wire \in Seq(Nat) /\ \A i, j \in 1 .. Len(wire) : i < j => wire[i] < wire[j]
          /\ \A i \in 1 .. Len(wire) : wire[i] < w
      BY <2>1 DEF HttpIInv, HttpTypeOK, WireBehindQueue
    <3>2. CASE wire' = wire
      BY <1>1, <2>1, <2>4, <3>1, <3>2 DEF WireBehindQueue
    <3>3. CASE wire' = Append(wire, w)
      <4>1. /\ wire' \in Seq(Nat) /\ Len(wire') = Len(wire) + 1
            /\ \A i \in 1 .. Len(wire) + 1 : wire'[i] = IF i = Len(wire) + 1 THEN w ELSE wire[i]
        BY <2>1, <3>1, <3>3
      <4>2. \A i \in 1 .. Len(wire) : wire'[i] = wire[i] /\ wire[i] \in Nat
        BY <3>1, <4>1
      <4>3. ASSUME NEW i \in 1 .. Len(wire') PROVE wire'[i] =< w
        <5>1. CASE i = Len(wire) + 1
          BY <2>1, <4>1, <5>1
        <5>2. CASE i # Len(wire) + 1
          <6>1. Len(wire) \in Nat /\ i \in 1 .. Len(wire)
            BY <3>1, <4>1, <5>2
          <6>2. wire'[i] < w /\ wire'[i] \in Nat
            BY <3>1, <4>2, <6>1
          <6> QED BY <2>1, <6>2
        <5> QED BY <5>1, <5>2
      <4>4. \A i, j \in 1 .. Len(wire') : i < j => wire'[i] < wire'[j]
        <5> SUFFICES ASSUME NEW i \in 1 .. Len(wire'), NEW j \in 1 .. Len(wire'), i < j
                     PROVE  wire'[i] < wire'[j]
          OBVIOUS
        <5>1. i \in 1 .. Len(wire)
          BY <3>1, <4>1
        <5>2. CASE j = Len(wire) + 1
          BY <3>1, <4>1, <4>2, <5>1, <5>2
        <5>3. CASE j # Len(wire) + 1
          <6>1. Len(wire) \in Nat /\ Len(wire') = Len(wire) + 1
            BY <3>1, <4>1
          <6>2. j \in 1 .. Len(wire)
            BY <5>3, <6>1
          <6> QED BY <3>1, <4>2, <5>1, <6>2
        <5> QED BY <5>2, <5>3
      <4> QED BY <1>1, <2>1, <2>4, <4>1, <4>3, <4>4 DEF WireBehindQueue
    <3> QED BY <1>1, <2>1, <3>2, <3>3
  <2>7. HttpTypeOK'
    BY <1>1, <2>4, <2>6 DEF HttpIInv, HttpTypeOK
  <2> QED BY <2>4, <2>5, <2>6, <2>7 DEF HttpIInv
<1> QED BY <1>3, <1>4 DEF HttpIInv, HttpTypeOK

THEOREM HttpInvariance == HttpSpec => []HttpIInv
<1>1. HttpIInv /\ [HttpNext]_(httpVars) => HttpIInv'
  <2> SUFFICES ASSUME HttpIInv, [HttpNext]_(httpVars) PROVE HttpIInv'
    OBVIOUS
  <2>1. CASE UNCHANGED httpVars
    BY <2>1, WakeKeeps DEF httpVars
  <2>2. CASE Resolve \/ Connect \/ ConnectFails \/ HandshakeFails \/ ReadFails
    BY <2>2, WakeKeeps
    DEF Resolve, Connect, ConnectFails, HandshakeFails, ReadFails, sends,
        StaysDefined
  <2>3. CASE Retry
    BY <2>3, WakeKeeps DEF Retry, StartReconnect, sends, StaysDefined, Wake
  <2>4. CASE Connected \/ TimerExpires
    BY <2>4, WakeKeeps DEF Connected, TimerExpires, sends, StaysDefined
  <2>5. CASE ServerCloses \/ Close
    BY <2>5, WakeKeeps DEF ServerCloses, Close, StartReconnect, sends, StaysDefined
  <2> QED
    BY <2>1, <2>2, <2>3, <2>4, <2>5, SendKeeps, WaitEndKeeps, WriteEndKeeps
    DEF HttpNext, WriterStep
<1> QED BY HttpInitKeeps, <1>1, PTL DEF HttpSpec

\* WireInOrder (do_write of Io/JsonHttpSocket): for any number of messages, until one is sent
\* behind another there is one writer, no undefined behaviour, and the wire is in order.
THEOREM HttpWireInOrder == HttpSpec => []WireInOrder
<1>1. HttpIInv => WireInOrder
  <2> SUFFICES ASSUME HttpIInv, ~backlogged PROVE WireInOrder
    BY DEF WireInOrder
  <2>1. ~undefined /\ AloneWithMessage /\ WireBehindQueue /\ wire \in Seq(Nat)
    BY DEF HttpIInv, HttpTypeOK
  <2>2. SingleWriter
    BY <2>1 DEF AloneWithMessage, SingleWriter, Active, WriterWaits, WriterWrites
  <2>3. \A i, j \in DOMAIN wire : i < j => wire[i] < wire[j]
    BY <2>1 DEF WireBehindQueue
  <2> QED BY <2>1, <2>2, <2>3 DEF WireInOrder
<1> QED BY HttpInvariance, <1>1, PTL
=============================================================================
