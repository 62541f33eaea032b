---------------------------- MODULE WebSocketBase ----------------------------
(***************************************************************************)
(* The WebSocket of Io/WebSocket: the queue and the writer coroutine of    *)
(* WebSocketBase.hpp, over the connector of SSLWebSocket.cpp (the one of   *)
(* UnsecureWebSocket.cpp differs in the length of its timeouts).           *)
(*                                                                         *)
(* There is one attempt to connect and no reconnection.  Everything runs   *)
(* on one strand; an action is the code between two suspensions, and a     *)
(* coroutine spawned from the strand runs at once up to its first one.     *)
(***************************************************************************)
EXTENDS Integers, Sequences

CONSTANT
    MaxMessages     \* bound: messages sent during the life of the socket

ASSUME MaxMessagesAssumption == MaxMessages \in Nat

VARIABLES
    conn,               \* the connection: connecting, handshaking, open, down
    reconnectTimer,     \* _reconnectTimer: "armed" or "expired"
    writeBuffer,        \* _writeBuffer, messages numbered in the order of sending
    sent,               \* number of messages sent so far
    writer,             \* the do_write coroutine spawned for each message
    wire                \* the messages written to an open WebSocket

vars == <<conn, reconnectTimer, writeBuffer, sent, writer, wire>>

Messages == 1 .. MaxMessages

\* A refused write is one begun on a connection that cannot carry it.
ActiveStates == {"waiting", "woken", "writing", "refused"}
Active == {w \in Messages : writer[w] \in ActiveStates}

Init ==
    /\ conn = "connecting"
    /\ reconnectTimer = "armed"
    /\ writeBuffer = <<>>
    /\ sent = 0
    /\ writer = [m \in Messages |-> "none"]
    /\ wire = <<>>

\* Where the loop of do_write stops when the queue is buffer: it returns, waits for
\* the connection (a wait on an expired timer is over at once), or writes the front.
LoopState(buffer) ==
    IF buffer = <<>> THEN "done"
    ELSE IF conn = "open" THEN "writing"
    ELSE IF reconnectTimer = "armed" THEN "waiting" ELSE "woken"

\* The waits on the timer end, aborted or expired: do_write treats both alike.
WakeWriters == writer' = [w \in Messages |-> IF writer[w] = "waiting" THEN "woken" ELSE writer[w]]

-----------------------------------------------------------------------------
\* Mutants: slips of the code that the properties below are there to catch.
SendMessage_AlwaysSpawns(m) ==
    /\ m = sent + 1
    /\ sent' = m
    /\ writeBuffer' = Append(writeBuffer, m)
    /\ writer' = [writer EXCEPT ![m] = LoopState(writeBuffer')]
    /\ UNCHANGED <<conn, reconnectTimer, wire>>

-----------------------------------------------------------------------------
\* do_send_message: the message that finds the queue empty starts the writer.
SendMessage(m) ==
    /\ m = sent + 1
    /\ sent' = m
    /\ writeBuffer' = Append(writeBuffer, m)
    /\ writer' = [writer EXCEPT ![m] = IF Len(writeBuffer') = 1
                                       THEN LoopState(writeBuffer') ELSE @]
    /\ UNCHANGED <<conn, reconnectTimer, wire>>

\* do_write after its wait, aborted or not: it writes whatever the connection is.
WriterResumes(w) ==
    /\ writer[w] = "woken"
    /\ writer' = [writer EXCEPT ![w] =
                      IF conn \in {"handshaking", "open"} THEN "writing" ELSE "refused"]
    /\ UNCHANGED <<conn, reconnectTimer, writeBuffer, sent, wire>>

\* do_write after a write: the front is popped and the loop goes on.  A frame
\* written during the handshake leaves on a stream that is no WebSocket yet.
WriteSucceeds(w) ==
    /\ writer[w] = "writing"
    /\ conn \in {"handshaking", "open"}
    /\ wire' = IF conn = "open" THEN Append(wire, Head(writeBuffer)) ELSE wire
    /\ writeBuffer' = Tail(writeBuffer)
    /\ writer' = [writer EXCEPT ![w] = LoopState(writeBuffer')]
    /\ UNCHANGED <<conn, reconnectTimer, sent>>

\* do_write after a failed write: the queue is dropped and the writer returns.
WriteFails(w) ==
    /\ writer[w] \in {"writing", "refused"}
    /\ writeBuffer' = <<>>
    /\ writer' = [writer EXCEPT ![w] = "done"]
    /\ UNCHANGED <<conn, reconnectTimer, sent, wire>>

\* do_connect: the TCP connection is up, the handshakes begin.
Connect ==
    /\ conn = "connecting"
    /\ conn' = "handshaking"
    /\ UNCHANGED <<reconnectTimer, writeBuffer, sent, writer, wire>>

\* do_connect returns on the first error, and nobody tries again.
ConnectFails ==
    /\ conn \in {"connecting", "handshaking"}
    /\ conn' = "down"
    /\ UNCHANGED <<reconnectTimer, writeBuffer, sent, writer, wire>>

\* do_connect succeeds: it cancels the timer and starts the reader.
Opens ==
    /\ conn = "handshaking"
    /\ conn' = "open"
    /\ WakeWriters
    /\ UNCHANGED <<reconnectTimer, writeBuffer, sent, wire>>

\* do_read returns: the connection was closed by the server or by do_close, or the
\* read failed.
Closes ==
    /\ conn = "open"
    /\ conn' = "down"
    /\ UNCHANGED <<reconnectTimer, writeBuffer, sent, writer, wire>>

\* 15 s (30 s for UnsecureWebSocket) after construction.
TimerExpires ==
    /\ reconnectTimer = "armed"
    /\ reconnectTimer' = "expired"
    /\ WakeWriters
    /\ UNCHANGED <<conn, writeBuffer, sent, wire>>

WriterStep(w) == WriterResumes(w) \/ WriteSucceeds(w) \/ WriteFails(w)

Next ==
    \/ \E m \in Messages : SendMessage(m) \/ WriterStep(m)
    \/ Connect \/ ConnectFails \/ Opens \/ Closes \/ TimerExpires

\* The strand runs what is queued, the timer expires, and the system completes or
\* fails every write.
Fairness ==
    /\ \A w \in Messages : WF_vars(WriterStep(w))
    /\ WF_vars(TimerExpires)

Spec == Init /\ [][Next]_vars /\ Fairness

-----------------------------------------------------------------------------
\* Type invariant.
TypeOK ==
    /\ conn \in {"connecting", "handshaking", "open", "down"}
    /\ reconnectTimer \in {"armed", "expired"}
    /\ writeBuffer \in Seq(Messages)
    /\ sent \in 0 .. MaxMessages
    /\ writer \in [Messages -> ActiveStates \cup {"none", "done"}]
    /\ wire \in Seq(Messages)

\* The length of the queue stands for "a writer is running": there is never more
\* than one writer, and there is one exactly while the queue holds a message, so
\* no message is stranded and no two writes overlap.
OneWriterIffBacklog ==
    /\ \A v, w \in Active : v = w
    /\ Active # {} <=> writeBuffer # <<>>

Increasing(s) == \A i, j \in DOMAIN s : i < j => s[i] < s[j]

\* Messages reach the WebSocket in the order of sending, each at most once, and
\* never after one still in the queue.
InOrder ==
    /\ Increasing(wire)
    /\ Increasing(writeBuffer)
    /\ \A i \in DOMAIN wire, j \in DOMAIN writeBuffer : wire[i] < writeBuffer[j]

\* "Writers wait on this timer for reconnect to complete or timeout before writing"
\* (line 187): a write on a connection still being made comes after the deadline.
EarlyWriteOnlyAfterDeadline ==
    (\E w \in Messages : writer[w] = "writing") /\ conn \in {"connecting", "handshaking"}
       => reconnectTimer = "expired"
===============================================================================
