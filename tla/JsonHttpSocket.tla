---------------------------- MODULE JsonHttpSocket ----------------------------
(***************************************************************************)
(* The HTTP socket of Io/JsonHttpSocket/JsonHttpSocket.cpp: a queue of     *)
(* requests, the writer coroutines that drain it, and the connection       *)
(* coroutine that connects, reads and reconnects.                          *)
(*                                                                         *)
(* All of them run on one strand: an action is the code one coroutine runs *)
(* between two suspensions.  co_spawn from a handler of the strand starts  *)
(* the new coroutine at once, so StartWriter belongs to the action that    *)
(* spawns.  do_connect and do_read hand over to each other and never run   *)
(* together: the variable conn is where that one chain stands.             *)
(***************************************************************************)
EXTENDS Integers, Sequences

CONSTANTS
    MaxMessages,    \* bound: messages sent during the life of the socket
    MaxQueue        \* bound: messages the clients keep in the queue at once

ASSUME BoundsAssumption == MaxMessages \in Nat \ {0} /\ MaxQueue \in Nat \ {0}

VARIABLES
    isConnecting,       \* _isConnecting
    isWriting,          \* _isWriting
    reconnectTimer,     \* _reconnectTimer: "armed" or "expired"
    writeBuffer,        \* _writeBuffer, messages numbered in the order of sending
    sent,               \* number of messages sent so far
    conn,               \* the coroutine do_connect -> do_read -> do_connect
    writer,             \* the do_write coroutine spawned for each message
    writing,            \* the message each writer has handed to async_write
    wire,               \* the messages async_write has put on the wire
    undefined,          \* the program has run into undefined behaviour
    backlogged          \* history: a message was sent behind another in the queue

httpVars == <<isConnecting, isWriting, reconnectTimer, writeBuffer, sent, conn,
          writer, writing, wire, undefined, backlogged>>
sends == <<sent, backlogged>>

Messages == 1 .. MaxMessages

\* The states of conn in which the socket is open.  In readDead the reader has
\* returned on an error it does not handle, and nobody reads any more.
Open == {"reading", "readDead"}

\* A writer from its spawn to its return.
Active == {w \in Messages : writer[w] \in {"waiting", "aborted", "timedOut",
                                            "writing", "failing", "refused"}}

HttpInit ==
    /\ isConnecting = TRUE
    /\ isWriting = FALSE
    /\ reconnectTimer = "armed"
    /\ writeBuffer = <<>>
    /\ sent = 0
    /\ conn = "resolving"
    /\ writer = [m \in Messages |-> "none"]
    /\ writing = [m \in Messages |-> 0]
    /\ wire = <<>>
    /\ undefined = FALSE
    /\ backlogged = FALSE

\* async_write of the front of the queue: on a closed socket it can only fail.
StartWrite(w, buffer) ==
    /\ writer' = [writer EXCEPT ![w] = IF conn \in Open THEN "writing" ELSE "refused"]
    /\ writing' = [writing EXCEPT ![w] = Head(buffer)]

\* The loop of do_write from its test to the next suspension.  A wait on a timer
\* that has expired completes at once.
Loop(w, buffer) ==
    \/ /\ buffer = <<>>
       /\ writer' = [writer EXCEPT ![w] = "done"]
       /\ UNCHANGED writing
    \/ /\ buffer # <<>> /\ isConnecting
       /\ writer' = [writer EXCEPT ![w] =
                        IF reconnectTimer = "armed" THEN "waiting" ELSE "timedOut"]
       /\ UNCHANGED writing
    \/ /\ buffer # <<>> /\ ~isConnecting
       /\ StartWrite(w, buffer)

\* The writers suspended on the reconnect timer are woken, with or without error.
Wake(how) == [w \in Messages |-> IF writer[w] = "waiting" THEN how ELSE writer[w]]

\* start_reconnect: moving the expiry of the timer aborts the waits on it.
StartReconnect(writers) ==
    /\ isConnecting' = TRUE
    /\ reconnectTimer' = "armed"
    /\ writer' = [w \in Messages |-> IF writers[w] = "waiting" THEN "aborted" ELSE writers[w]]
    /\ conn' = "resolving"

\* Closing the socket fails the writes in progress.
FailWrites == [w \in Messages |-> IF writer[w] = "writing" THEN "failing" ELSE writer[w]]

\* A message destroyed while another writer's async_write still reads it.
InUse(w, messages) == \E v \in Messages \ {w} :
                         writer[v] \in {"writing", "failing", "refused"} /\ writing[v] \in messages

\* Nothing is said of a program that has run into undefined behaviour: it stops.
StaysDefined == ~undefined /\ UNCHANGED undefined

Contents(buffer) == {buffer[i] : i \in DOMAIN buffer}

-----------------------------------------------------------------------------
\* Mutants: slips of the code that the properties below are there to catch.

WriteSucceeds_FrontKept(w) ==
    /\ writer[w] = "writing"
    /\ conn \in Open
    /\ wire' = Append(wire, writing[w])
    /\ isWriting' = FALSE
    /\ Loop(w, writeBuffer)
    /\ UNCHANGED <<isConnecting, reconnectTimer, writeBuffer, sends, conn>>
    /\ StaysDefined

WriteFails_Retried(w, partly) ==
    /\ writer[w] \in {"writing", "failing", "refused"}
    /\ isWriting' = (isWriting /\ ~partly)
    /\ Loop(w, writeBuffer)
    /\ UNCHANGED <<isConnecting, reconnectTimer, writeBuffer, sends, conn, wire>>
    /\ StaysDefined

-----------------------------------------------------------------------------
\* do_send_message, and the writer it spawns unless _isWriting says there is one.
SendMessage(m) ==
    /\ m = sent + 1
    /\ Len(writeBuffer) < MaxQueue
    /\ sent' = m
    /\ backlogged' = (backlogged \/ writeBuffer # <<>>)
    /\ writeBuffer' = Append(writeBuffer, m)
    /\ IF ~isWriting
       THEN isWriting' = TRUE /\ Loop(m, writeBuffer')
       ELSE UNCHANGED <<isWriting, writer, writing>>
    /\ UNCHANGED <<isConnecting, reconnectTimer, conn, wire>>
    /\ StaysDefined

\* do_write after its wait.  Aborted: the writer goes on to write, without looking
\* at _isConnecting again.
WriterAborted(w) ==
    /\ ~undefined
    /\ writer[w] = "aborted"
    /\ IF writeBuffer = <<>>
       THEN undefined' = TRUE /\ UNCHANGED <<writer, writing>>
       ELSE StartWrite(w, writeBuffer) /\ UNCHANGED undefined
    /\ UNCHANGED <<isConnecting, isWriting, reconnectTimer, writeBuffer, sends, conn, wire>>

\* Timed out: the writer returns, and leaves _isWriting as it is.
WriterGivesUp(w) ==
    /\ writer[w] = "timedOut"
    /\ writer' = [writer EXCEPT ![w] = "gaveUp"]
    /\ UNCHANGED <<isConnecting, isWriting, reconnectTimer, writeBuffer, sends, conn,
                   writing, wire>>
    /\ StaysDefined

\* do_write after a complete write: the front is popped, _isWriting is reset, and
\* the loop goes on with what is left.
WriteSucceeds(w) ==
    /\ ~undefined
    /\ writer[w] = "writing"
    /\ conn \in Open
    /\ wire' = Append(wire, writing[w])
    /\ isWriting' = FALSE
    /\ IF writeBuffer = <<>> \/ InUse(w, {Head(writeBuffer)})
       THEN undefined' = TRUE /\ UNCHANGED <<writeBuffer, writer, writing>>
       ELSE /\ writeBuffer' = Tail(writeBuffer)
            /\ Loop(w, writeBuffer')
            /\ UNCHANGED undefined
    /\ UNCHANGED <<isConnecting, reconnectTimer, sends, conn>>

\* do_write after a failed write: the whole queue is dropped, which ends the loop;
\* _isWriting is reset only if some bytes had gone out.
WriteFails(w, partly) ==
    /\ ~undefined
    /\ writer[w] \in IF partly THEN {"writing", "failing"} ELSE {"writing", "failing", "refused"}
    /\ isWriting' = (isWriting /\ ~partly)
    /\ IF InUse(w, Contents(writeBuffer)) \/ (partly /\ writeBuffer = <<>>)
       THEN undefined' = TRUE /\ UNCHANGED <<writeBuffer, writer>>
       ELSE /\ writeBuffer' = <<>>
            /\ writer' = [writer EXCEPT ![w] = "done"]
            /\ UNCHANGED undefined
    /\ UNCHANGED <<isConnecting, reconnectTimer, sends, conn, writing, wire>>

-----------------------------------------------------------------------------
\* do_connect: the delay and the name lookup.  A lookup error ends the connector,
\* with _isConnecting still set.
Resolve ==
    /\ conn = "resolving"
    /\ conn' \in {"connecting", "dead"}
    /\ UNCHANGED <<isConnecting, isWriting, reconnectTimer, writeBuffer, sends, writer,
                   writing, wire>>
    /\ StaysDefined

Connect ==
    /\ conn = "connecting"
    /\ conn' = "handshaking"
    /\ UNCHANGED <<isConnecting, isWriting, reconnectTimer, writeBuffer, sends, writer,
                   writing, wire>>
    /\ StaysDefined

\* A connection error waits for the reconnect timer, which may have expired.
ConnectFails ==
    /\ conn = "connecting"
    /\ conn' = IF reconnectTimer = "armed" THEN "retryWait" ELSE "retryDue"
    /\ UNCHANGED <<isConnecting, isWriting, reconnectTimer, writeBuffer, sends, writer,
                   writing, wire>>
    /\ StaysDefined

Retry ==
    /\ conn = "retryDue"
    /\ StartReconnect(writer)
    /\ UNCHANGED <<isWriting, writeBuffer, sends, writing, wire>>
    /\ StaysDefined

\* async_handshake throws on an error, which ends the detached connector.
HandshakeFails ==
    /\ conn = "handshaking"
    /\ conn' = "dead"
    /\ UNCHANGED <<isConnecting, isWriting, reconnectTimer, writeBuffer, sends, writer,
                   writing, wire>>
    /\ StaysDefined

\* The connection is up: the waiting writers are aborted and the reader starts.
Connected ==
    /\ conn = "handshaking"
    /\ conn' = "reading"
    /\ isConnecting' = FALSE
    /\ writer' = Wake("aborted")
    /\ UNCHANGED <<isWriting, reconnectTimer, writeBuffer, sends, writing, wire>>
    /\ StaysDefined

\* do_read: the server closes the connection; the reader closes the socket and
\* reconnects.
ServerCloses ==
    /\ conn = "reading"
    /\ StartReconnect(FailWrites)
    /\ UNCHANGED <<isWriting, writeBuffer, sends, writing, wire>>
    /\ StaysDefined

\* do_read: any other error just ends the reader.
ReadFails ==
    /\ conn = "reading"
    /\ conn' = "readDead"
    /\ UNCHANGED <<isConnecting, isWriting, reconnectTimer, writeBuffer, sends, writer,
                   writing, wire>>
    /\ StaysDefined

\* do_close: the pending read is aborted, and so are the writes.  While the socket
\* is still being connected, closing it makes ConnectFails or HandshakeFails happen.
Close ==
    /\ conn \in Open
    /\ conn' = "closed"
    /\ writer' = FailWrites
    /\ UNCHANGED <<isConnecting, isWriting, reconnectTimer, writeBuffer, sends, writing,
                   wire>>
    /\ StaysDefined

\* 30 s after start_reconnect.
TimerExpires ==
    /\ reconnectTimer = "armed"
    /\ reconnectTimer' = "expired"
    /\ writer' = Wake("timedOut")
    /\ conn' = IF conn = "retryWait" THEN "retryDue" ELSE conn
    /\ UNCHANGED <<isConnecting, isWriting, writeBuffer, sends, writing, wire>>
    /\ StaysDefined

WriterStep(w) ==
    \/ WriterAborted(w)
    \/ WriterGivesUp(w)
    \/ WriteSucceeds(w)
    \/ \E partly \in BOOLEAN : WriteFails(w, partly)

HttpNext ==
    \/ \E m \in Messages : SendMessage(m) \/ WriterStep(m)
    \/ Resolve \/ Connect \/ ConnectFails \/ Retry \/ HandshakeFails \/ Connected
    \/ ServerCloses \/ ReadFails \/ Close \/ TimerExpires

\* The strand runs what is queued, the timer expires, and a write is completed or
\* failed by the system.  Nothing is assumed of the server or of the clients.
HttpFairness ==
    /\ \A m \in Messages : WF_httpVars(WriterStep(m))
    /\ WF_httpVars(TimerExpires)

HttpSpec == HttpInit /\ [][HttpNext]_httpVars /\ HttpFairness

-----------------------------------------------------------------------------
\* "Only a single writer coro should be writing at a time" (line 173).
SingleWriter == \A v, w \in Active : v = w

\* Until a message is sent behind another there is one writer, the program stays
\* defined, and the wire carries each message at most once, in the order of sending,
\* whatever becomes of the connection meanwhile.
WireInOrder ==
    ~backlogged =>
       /\ SingleWriter /\ ~undefined
       /\ \A i, j \in DOMAIN wire : i < j => wire[i] < wire[j]

\* The queue empties, or a writer has given up on it, or the socket has stopped
\* starting writers.
Drains ==
    writeBuffer # <<>> ~>
       \/ writeBuffer = <<>> \/ undefined
       \/ \E w \in Messages : writer[w] = "gaveUp"
       \/ isWriting /\ Active = {}
===============================================================================
