-------------------------- MODULE StatisticsPublisher --------------------------
(***************************************************************************)
(* Statistics/StatisticsPublisher: measurements are appended to one write  *)
(* buffer, which a single do_write coroutine posts to InfluxDB, and a      *)
(* connection coroutine connects, reads the answers and reconnects.        *)
(*                                                                         *)
(* All run on one strand: an action is the code one coroutine runs between *)
(* two suspensions.  Measurements are numbered in the order of publishing. *)
(* Two operations of one kind at once on the stream are an assertion of    *)
(* Beast (undefined behaviour in a release build): the program stops.      *)
(***************************************************************************)
EXTENDS Integers, Sequences, SequencesExt

CONSTANT MaxMeasurements    \* bound: measurements published

ASSUME MaxMeasurementsAssumption == MaxMeasurements \in Nat \ {0}

VARIABLES
    writeBuffer,        \* _writeBuffer
    request,            \* the batch do_write has moved to its own stack
    isWriting,          \* _isWriting
    writer,             \* where do_write stands
    conn,               \* the coroutine do_connect -> do_read -> do_connect
    open,               \* the socket is open, if only to a peer that has gone
    reconnectTimer,     \* _reconnectTimer: "armed" or "expired"
    published,          \* number of measurements taken so far
    accepted,           \* those of calls that returned without an exception
    wire,               \* what async_write has put on the wire
    dropped,            \* what went with a failed write
    undefined           \* two operations of one kind on the stream

buffers == <<writeBuffer, request, isWriting, writer>>
connection == <<conn, open, reconnectTimer>>
history == <<published, accepted, wire, dropped>>
statsVars == <<buffers, connection, history, undefined>>

Measurements == 1 .. MaxMeasurements

\* _isConnecting: set from start_reconnect until the socket is connected.
IsConnecting == conn \in {"resolving", "connecting", "dead"}

\* async_write of everything in the buffer, which is left empty.
StartWrite(buffer) ==
    /\ request' = buffer
    /\ writeBuffer' = <<>>
    /\ writer' = "writing"
    /\ undefined' = (conn = "connecting")

\* Mutant: a wait that only a notification ends.
Loop_WaitsForNotice(buffer) ==
    \/ /\ buffer = <<>>
       /\ isWriting' = FALSE
       /\ writer' = "none"
       /\ UNCHANGED <<writeBuffer, request, undefined>>
    \/ /\ buffer # <<>> /\ IsConnecting
       /\ writer' = "waiting"
       /\ isWriting' = TRUE
       /\ writeBuffer' = buffer
       /\ UNCHANGED <<request, undefined>>
    \/ /\ buffer # <<>> /\ ~IsConnecting
       /\ isWriting' = TRUE
       /\ StartWrite(buffer)

\* The loop of do_write up to its next suspension.  A wait on a timer that has
\* expired completes at once.
Loop(buffer) ==
    \/ /\ buffer = <<>>
       /\ isWriting' = FALSE
       /\ writer' = "none"
       /\ UNCHANGED <<writeBuffer, request, undefined>>
    \/ /\ buffer # <<>> /\ IsConnecting
       /\ writer' = IF reconnectTimer = "armed" THEN "waiting" ELSE "woken"
       /\ isWriting' = TRUE
       /\ writeBuffer' = buffer
       /\ UNCHANGED <<request, undefined>>
    \/ /\ buffer # <<>> /\ ~IsConnecting
       /\ isWriting' = TRUE
       /\ StartWrite(buffer)

StatsInit ==
    /\ writeBuffer = <<>> /\ request = <<>>
    /\ isWriting = FALSE /\ writer = "none"
    /\ conn = "resolving" /\ open = FALSE /\ reconnectTimer = "armed"
    /\ published = 0 /\ accepted = {} /\ wire = <<>> /\ dropped = {}
    /\ undefined = FALSE

-----------------------------------------------------------------------------
\* Mutants: slips of the code that the properties below are there to catch.

\* The new connection starts with an empty buffer.
Connected_BufferReset ==
    /\ ~undefined
    /\ conn = "connecting"
    /\ conn' = "reading" /\ open' = TRUE
    /\ writeBuffer' = <<>>
    /\ writer' = IF writer = "waiting" THEN "woken" ELSE writer
    /\ UNCHANGED <<request, isWriting, reconnectTimer, history, undefined>>

-----------------------------------------------------------------------------
\* publish_statistic and publish_statistics: n measurements are appended, and a
\* writer spawned unless there is one.  A measurement without fields after them
\* makes the call throw: what it has appended stays, and no writer is spawned.
PublishGroup(n, invalid) ==
    LET group == [i \in 1 .. n |-> published + i] IN
    /\ ~undefined
    /\ published + n <= MaxMeasurements
    /\ published' = published + n
    /\ accepted' = IF invalid THEN accepted ELSE accepted \cup ToSet(group)
    /\ IF invalid \/ isWriting
       THEN /\ writeBuffer' = writeBuffer \o group
            /\ UNCHANGED <<request, isWriting, writer, undefined>>
       ELSE Loop(writeBuffer \o group)
    /\ UNCHANGED <<connection, wire, dropped>>

\* do_write after its wait.  Aborted or timed out, it goes on to write.
WriterWoken ==
    /\ ~undefined
    /\ writer = "woken"
    /\ StartWrite(writeBuffer)
    /\ UNCHANGED <<isWriting, connection, history>>

\* do_write after async_write: whatever came into the buffer meanwhile is erased
\* by the reset, so the loop ends.  The error of a failed write is only logged.
WriteSucceeds ==
    /\ ~undefined
    /\ writer = "writing"
    /\ open
    /\ wire' = wire \o request
    /\ request' = <<>> /\ writeBuffer' = <<>>
    /\ isWriting' = FALSE /\ writer' = "none"
    /\ UNCHANGED <<connection, published, accepted, dropped, undefined>>

WriteFails ==
    /\ ~undefined
    /\ writer = "writing"
    /\ dropped' = dropped \cup ToSet(request)
    /\ request' = <<>> /\ writeBuffer' = <<>>
    /\ isWriting' = FALSE /\ writer' = "none"
    /\ UNCHANGED <<connection, published, accepted, wire, undefined>>

-----------------------------------------------------------------------------
\* do_connect: the name lookup, then async_connect, which closes the socket first.
Resolved ==
    /\ conn = "resolving"
    /\ conn' = "connecting" /\ open' = FALSE
    /\ undefined' = (writer = "writing")
    /\ UNCHANGED <<buffers, reconnectTimer, history>>

\* An error of either is thrown, and ends the detached coroutine.
ConnectFails ==
    /\ ~undefined
    /\ conn \in {"resolving", "connecting"}
    /\ conn' = "dead"
    /\ UNCHANGED <<buffers, open, reconnectTimer, history, undefined>>

Connected ==
    /\ ~undefined
    /\ conn = "connecting"
    /\ conn' = "reading" /\ open' = TRUE
    /\ writer' = IF writer = "waiting" THEN "woken" ELSE writer
    /\ UNCHANGED <<writeBuffer, request, isWriting, reconnectTimer, history, undefined>>

\* do_read: the end of the stream starts a reconnect, any other error ends the reader.
ServerCloses ==
    /\ ~undefined
    /\ conn = "reading"
    /\ conn' = "resolving" /\ reconnectTimer' = "armed"
    /\ writer' = IF writer = "waiting" THEN "woken" ELSE writer
    /\ UNCHANGED <<writeBuffer, request, isWriting, open, history, undefined>>

ReadFails ==
    /\ ~undefined
    /\ conn = "reading"
    /\ conn' = "readDead"
    /\ UNCHANGED <<buffers, open, reconnectTimer, history, undefined>>

\* 30 s after start_reconnect.
TimerExpires ==
    /\ ~undefined
    /\ reconnectTimer = "armed"
    /\ reconnectTimer' = "expired"
    /\ writer' = IF writer = "waiting" THEN "woken" ELSE writer
    /\ UNCHANGED <<writeBuffer, request, isWriting, conn, open, history, undefined>>

StatsNext ==
    \/ \E n \in 1 .. 2, invalid \in BOOLEAN : PublishGroup(n, invalid)
    \/ WriterWoken \/ WriteSucceeds \/ WriteFails
    \/ Resolved \/ ConnectFails \/ Connected \/ ServerCloses \/ ReadFails \/ TimerExpires

\* The strand runs a woken writer, the system ends a write and the timer expires;
\* nothing is assumed of the server.
StatsFairness ==
    /\ WF_statsVars(WriterWoken) /\ WF_statsVars(WriteSucceeds \/ WriteFails)
    /\ WF_statsVars(TimerExpires)

StatsSpec == StatsInit /\ [][StatsNext]_statsVars /\ StatsFairness

-----------------------------------------------------------------------------
\* What is on its way or accounted for.
Kept == ToSet(writeBuffer) \cup ToSet(request) \cup ToSet(wire) \cup dropped

\* A measurement vanishes, neither written nor in a write that failed with an error,
\* only at the end of a write during which it was published: the reset of the buffer
\* after async_write (line 293) erases it.
LostOnlyAtWriteEnd ==
    [][\A m \in Kept \ Kept' :
          /\ writer = "writing" /\ writer' = "none"
          /\ m \in ToSet(writeBuffer)]_statsVars

\* What is published is sent or thrown away in bounded time, whatever becomes of the
\* connection: the buffer cannot grow for ever.
BufferDrains ==
    \A m \in Measurements :
        m \in accepted /\ m \in ToSet(writeBuffer) ~> m \notin ToSet(writeBuffer) \/ undefined
=============================================================================
