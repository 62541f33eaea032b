--------------------------- MODULE WebSocketProofs ---------------------------
(***************************************************************************)
(* Proofs about WebSocketBase, alone and under FtxMarketDataClient, for    *)
(* any number of messages.                                                 *)
(***************************************************************************)
EXTENDS FtxMarketDataClient, SequenceTheorems, DataLemmas, TLAPS

\* A writer waits only for an unexpired deadline, is refused or writes early only
\* after it, and a connection that was never made has woken nobody before it.
DeadlineOK ==
    conn \in {"connecting", "handshaking"} /\ reconnectTimer = "armed" =>
       \A w \in Messages : writer[w] \notin {"woken", "writing", "refused"}

\* Messages not sent yet have no writer and are nowhere.
Fresh ==
    /\ \A m \in Messages : m > sent => writer[m] = "none"
    /\ \A i \in DOMAIN writeBuffer : writeBuffer[i] <= sent
    /\ \A i \in DOMAIN wire : wire[i] <= sent

IInv == TypeOK /\ OneWriterIffBacklog /\ InOrder /\ DeadlineOK /\ Fresh

-----------------------------------------------------------------------------
LEMMA LoopStates ==
    ASSUME NEW buffer
    PROVE  /\ buffer = <<>> => LoopState(buffer) = "done"
           /\ buffer # <<>> => LoopState(buffer) \in ActiveStates
           /\ LoopState(buffer) # "refused"
           /\ conn \in {"connecting", "handshaking"} /\ reconnectTimer = "armed"
                => LoopState(buffer) \in {"done", "waiting"}
BY DEF LoopState, ActiveStates

\* What Append and Tail do to the indices of a sequence of messages.
LEMMA AppendFacts ==
    ASSUME NEW S, NEW s \in Seq(S), NEW m \in S
    PROVE  /\ Append(s, m) \in Seq(S)
           /\ Append(s, m) # <<>>
           /\ Len(Append(s, m)) = 1 <=> s = <<>>
           /\ DOMAIN Append(s, m) = DOMAIN s \cup {Len(s) + 1}
           /\ \A i \in DOMAIN s : i < Len(s) + 1 /\ Append(s, m)[i] = s[i]
           /\ Append(s, m)[Len(s) + 1] = m
OBVIOUS

LEMMA TailFacts ==
    ASSUME NEW S, NEW s \in Seq(S), s # <<>>
    PROVE  /\ Tail(s) \in Seq(S)
           /\ Head(s) \in S /\ Head(s) = s[1] /\ 1 \in DOMAIN s
           /\ \A i \in DOMAIN Tail(s) : i + 1 \in DOMAIN s /\ Tail(s)[i] = s[i + 1]
                                        /\ i \in Nat /\ 1 < i + 1
OBVIOUS

LEMMA InitIInv == Init => IInv
<1> SUFFICES ASSUME Init PROVE IInv
    OBVIOUS
<1>1. TypeOK
    BY MaxMessagesAssumption DEF Init, TypeOK, ActiveStates
<1>2. Active = {}
    BY DEF Init, Active, ActiveStates, Messages
<1>3. OneWriterIffBacklog
    BY <1>2 DEF Init, OneWriterIffBacklog
<1>4. InOrder /\ DeadlineOK /\ Fresh
    BY DEF Init, InOrder, Increasing, DeadlineOK, Fresh
<1> QED BY <1>1, <1>3, <1>4 DEF IInv

LEMMA SendStep ==
    ASSUME IInv, NEW m \in Messages, SendMessage(m)
    PROVE  IInv'
<1> USE DEF IInv
<1>1. /\ m = sent + 1 /\ sent' = m /\ m \in Int /\ sent \in Int
      /\ writeBuffer' = Append(writeBuffer, m)
      /\ UNCHANGED <<conn, reconnectTimer, wire>>
      /\ writeBuffer \in Seq(Messages) /\ wire \in Seq(Messages)
    BY MaxMessagesAssumption DEF SendMessage, TypeOK, Messages
<1>2. /\ writeBuffer' \in Seq(Messages)
      /\ writeBuffer' # <<>>
      /\ Len(writeBuffer') = 1 <=> writeBuffer = <<>>
      /\ DOMAIN writeBuffer' = DOMAIN writeBuffer \cup {Len(writeBuffer) + 1}
      /\ \A i \in DOMAIN writeBuffer : i < Len(writeBuffer) + 1 /\ writeBuffer'[i] = writeBuffer[i]
      /\ writeBuffer'[Len(writeBuffer) + 1] = m
    BY <1>1, AppendFacts
<1>3. writer[m] = "none"
    BY <1>1 DEF Fresh
<1>4. /\ \A w \in Messages \ {m} : writer'[w] = writer[w]
      /\ writeBuffer = <<>> => writer'[m] = LoopState(writeBuffer')
      /\ writeBuffer # <<>> => writer'[m] = "none"
    BY <1>2, <1>3 DEF SendMessage, TypeOK
<1>5. /\ LoopState(writeBuffer') \in ActiveStates
      /\ LoopState(writeBuffer') # "refused"
      /\ conn \in {"connecting", "handshaking"} /\ reconnectTimer = "armed"
           => LoopState(writeBuffer') = "waiting"
    BY <1>2 DEF LoopState, ActiveStates
<1>6. TypeOK'
    BY <1>1, <1>2, <1>5, MaxMessagesAssumption DEF SendMessage, TypeOK, Messages
<1>7. OneWriterIffBacklog'
    BY <1>2, <1>3, <1>4, <1>5 DEF OneWriterIffBacklog, Active, ActiveStates
<1>8. InOrder' /\ Fresh'
  <2>1. \A i \in DOMAIN wire : wire[i] \in Int /\ wire[i] < m
    <3>1. \A i \in DOMAIN wire : wire[i] \in Messages /\ wire[i] <= sent
        BY <1>1 DEF Fresh
    <3> QED BY <1>1, <3>1 DEF Messages
  <2>2. \A i \in DOMAIN writeBuffer : writeBuffer[i] \in Int /\ writeBuffer[i] < m
    <3>1. \A i \in DOMAIN writeBuffer : writeBuffer[i] \in Messages /\ writeBuffer[i] <= sent
        BY <1>1 DEF Fresh
    <3> QED BY <1>1, <3>1 DEF Messages
  <2>3. Increasing(writeBuffer')
    BY <1>1, <1>2, <2>2 DEF InOrder, Increasing
  <2>4. \A i \in DOMAIN wire, j \in DOMAIN writeBuffer' : wire[i] < writeBuffer'[j]
    BY <1>2, <2>1 DEF InOrder
  <2>5. Fresh'
    BY <1>1, <1>2, <1>4, <2>1, <2>2 DEF Fresh, Messages
  <2> QED BY <1>1, <2>3, <2>4, <2>5 DEF InOrder, Increasing
<1>9. DeadlineOK'
    BY <1>1, <1>3, <1>4, <1>5 DEF DeadlineOK
<1> QED BY <1>6, <1>7, <1>8, <1>9

\* A writer that goes from one active state to another disturbs neither the queue
\* nor the order.
LEMMA ResumeStep ==
    ASSUME IInv, NEW w \in Messages, WriterResumes(w)
    PROVE  IInv'
<1> USE DEF IInv
<1>1. /\ writer'[w] \in {"writing", "refused"}
      /\ \A v \in Messages \ {w} : writer'[v] = writer[v]
      /\ UNCHANGED <<conn, reconnectTimer, writeBuffer, sent, wire>>
    BY DEF WriterResumes, TypeOK
<1>2. TypeOK'
    BY DEF WriterResumes, TypeOK, ActiveStates
<1>3. Active' = Active
    BY <1>1 DEF WriterResumes, Active, ActiveStates
<1>4. OneWriterIffBacklog'
    BY <1>1, <1>3 DEF OneWriterIffBacklog
<1>5. InOrder' /\ DeadlineOK'
    BY <1>1 DEF WriterResumes, InOrder, Increasing, DeadlineOK
<1>6. Fresh'
    BY <1>1 DEF WriterResumes, Fresh
<1> QED BY <1>2, <1>4, <1>5, <1>6

LEMMA WriteSucceedsStep ==
    ASSUME IInv, NEW w \in Messages, WriteSucceeds(w)
    PROVE  IInv'
<1> USE DEF IInv
<1>1. w \in Active /\ writeBuffer # <<>> /\ writeBuffer \in Seq(Messages) /\ wire \in Seq(Messages)
    BY DEF WriteSucceeds, OneWriterIffBacklog, Active, ActiveStates, TypeOK
<1>2. /\ UNCHANGED <<conn, reconnectTimer, sent>>
      /\ writeBuffer' = Tail(writeBuffer)
      /\ wire' = wire \/ wire' = Append(wire, Head(writeBuffer))
      /\ writer'[w] = LoopState(writeBuffer')
      /\ \A v \in Messages \ {w} : writer'[v] = writer[v]
    BY DEF WriteSucceeds, TypeOK
<1>3. /\ writeBuffer' \in Seq(Messages)
      /\ Head(writeBuffer) \in Messages /\ Head(writeBuffer) = writeBuffer[1]
      /\ 1 \in DOMAIN writeBuffer
      /\ \A i \in DOMAIN writeBuffer' : i + 1 \in DOMAIN writeBuffer
            /\ writeBuffer'[i] = writeBuffer[i + 1] /\ i \in Nat /\ 1 < i + 1
    BY <1>1, <1>2, TailFacts
<1>4. wire' \in Seq(Messages)
  <2>1. Append(wire, Head(writeBuffer)) \in Seq(Messages)
    BY <1>1, <1>3, AppendFacts
  <2> QED BY <1>1, <1>2, <2>1
<1>5. LoopState(writeBuffer') \in ActiveStates \cup {"done"}
    BY LoopStates
<1>6. TypeOK'
    BY <1>2, <1>3, <1>4, <1>5 DEF WriteSucceeds, TypeOK
<1>7. OneWriterIffBacklog'
  <2>1. \A v \in Messages \ {w} : v \notin Active'
    BY <1>1, <1>2 DEF OneWriterIffBacklog, Active
  <2>2. w \in Active' <=> writeBuffer' # <<>>
    BY <1>2, LoopStates DEF Active, ActiveStates
  <2> QED BY <2>1, <2>2 DEF OneWriterIffBacklog, Active
<1>8. Increasing(writeBuffer')
    BY <1>3 DEF InOrder, Increasing
<1>9. \A i \in DOMAIN wire, j \in DOMAIN writeBuffer' : wire[i] < writeBuffer'[j]
    BY <1>3 DEF InOrder
<1>10. \A j \in DOMAIN writeBuffer' : Head(writeBuffer) < writeBuffer'[j]
    BY <1>3 DEF InOrder, Increasing
<1>11. InOrder'
  <2>1. CASE wire' = wire
    BY <1>8, <1>9, <2>1 DEF InOrder
  <2>2. CASE wire' = Append(wire, Head(writeBuffer))
    <3>1. /\ DOMAIN wire' = DOMAIN wire \cup {Len(wire) + 1}
          /\ \A i \in DOMAIN wire : i < Len(wire) + 1 /\ wire'[i] = wire[i]
          /\ wire'[Len(wire) + 1] = Head(writeBuffer)
        BY <1>1, <1>3, <2>2, AppendFacts
    <3>2. \A i \in DOMAIN wire : wire[i] < Head(writeBuffer)
        BY <1>3 DEF InOrder
    <3>3. Len(wire) + 1 \in Int /\ \A i \in DOMAIN wire : i \in Int
        BY <1>1
    <3>4. Increasing(wire')
        BY <3>1, <3>2, <3>3 DEF InOrder, Increasing
    <3>5. \A i \in DOMAIN wire', j \in DOMAIN writeBuffer' : wire'[i] < writeBuffer'[j]
        BY <1>9, <1>10, <3>1
    <3> QED BY <1>8, <3>4, <3>5 DEF InOrder
  <2> QED BY <1>2, <2>1, <2>2
<1>12. DeadlineOK'
    BY <1>2, LoopStates DEF WriteSucceeds, DeadlineOK
<1>13. Fresh'
  <2>1. \A m \in Messages : m > sent => writer'[m] = "none"
    BY <1>2 DEF WriteSucceeds, Fresh
  <2>2. \A i \in DOMAIN writeBuffer' : writeBuffer'[i] <= sent
    BY <1>3 DEF Fresh
  <2>3. \A i \in DOMAIN wire' : wire'[i] <= sent
    <3>1. Head(writeBuffer) <= sent
        BY <1>3 DEF Fresh
    <3>2. CASE wire' = wire
        BY <3>2 DEF Fresh
    <3>3. CASE wire' = Append(wire, Head(writeBuffer))
      <4>1. /\ DOMAIN wire' = DOMAIN wire \cup {Len(wire) + 1}
            /\ \A i \in DOMAIN wire : wire'[i] = wire[i]
            /\ wire'[Len(wire) + 1] = Head(writeBuffer)
        BY <1>1, <1>3, <3>3, AppendFacts
      <4> QED BY <3>1, <4>1 DEF Fresh
    <3> QED BY <1>2, <3>2, <3>3
  <2> QED BY <1>2, <2>1, <2>2, <2>3 DEF Fresh
<1> QED BY <1>6, <1>7, <1>11, <1>12, <1>13

LEMMA WriteFailsStep ==
    ASSUME IInv, NEW w \in Messages, WriteFails(w)
    PROVE  IInv'
<1> USE DEF IInv
<1>1. /\ writer'[w] = "done" /\ writeBuffer' = <<>>
      /\ \A v \in Messages \ {w} : writer'[v] = writer[v]
      /\ UNCHANGED <<conn, reconnectTimer, sent, wire>>
    BY DEF WriteFails, TypeOK
<1>2. TypeOK'
    BY DEF WriteFails, TypeOK
<1>3. w \in Active /\ \A v \in Messages \ {w} : v \notin Active
    BY DEF WriteFails, OneWriterIffBacklog, Active, ActiveStates
<1>4. Active' = {}
    BY <1>1, <1>3 DEF Active, ActiveStates
<1>5. OneWriterIffBacklog'
    BY <1>1, <1>4 DEF OneWriterIffBacklog
<1>6. InOrder' /\ DeadlineOK'
    BY <1>1 DEF InOrder, Increasing, DeadlineOK
<1>7. Fresh'
    BY <1>1 DEF WriteFails, Fresh
<1> QED BY <1>2, <1>5, <1>6, <1>7

\* The connection and the timer: writers at most go from waiting to woken.
LEMMA ConnectionStep ==
    ASSUME IInv, Connect \/ ConnectFails \/ Opens \/ Closes \/ TimerExpires
    PROVE  IInv'
<1> USE DEF IInv
<1>1. /\ UNCHANGED <<writeBuffer, sent, wire>>
      /\ UNCHANGED writer \/ WakeWriters
    BY DEF Connect, ConnectFails, Opens, Closes, TimerExpires
<1>2. TypeOK'
    BY DEF Connect, ConnectFails, Opens, Closes, TimerExpires, WakeWriters, TypeOK, ActiveStates
<1>3. /\ Active' = Active
      /\ \A m \in Messages : writer[m] = "none" => writer'[m] = "none"
    BY <1>1 DEF WakeWriters, Active, ActiveStates, TypeOK
<1>4. OneWriterIffBacklog' /\ InOrder' /\ Fresh'
    BY <1>1, <1>3 DEF OneWriterIffBacklog, InOrder, Increasing, Fresh
<1>5. DeadlineOK'
    BY DEF Connect, ConnectFails, Opens, Closes, TimerExpires, WakeWriters, DeadlineOK
<1> QED BY <1>2, <1>4, <1>5

LEMMA NextIInv == IInv /\ [Next]_vars => IInv'
<1> SUFFICES ASSUME IInv, [Next]_vars PROVE IInv'
    OBVIOUS
<1>1. ASSUME NEW m \in Messages, SendMessage(m) PROVE IInv'
    BY <1>1, SendStep
<1>2. ASSUME NEW w \in Messages, WriterStep(w) PROVE IInv'
    BY <1>2, ResumeStep, WriteSucceedsStep, WriteFailsStep DEF WriterStep
<1>3. CASE Connect \/ ConnectFails \/ Opens \/ Closes \/ TimerExpires
    BY <1>3, ConnectionStep
<1>4. CASE UNCHANGED vars
    BY <1>4 DEF vars, IInv, TypeOK, OneWriterIffBacklog, Active, InOrder, Increasing,
       DeadlineOK, Fresh
<1> QED BY <1>1, <1>2, <1>3, <1>4 DEF Next

THEOREM Invariance == Spec => []IInv
BY InitIInv, NextIInv, PTL DEF Spec

\* The type invariant of the WebSocket.
THEOREM TypeCorrect == Spec => []TypeOK
BY Invariance, PTL DEF IInv

\* _writeBuffer.size() == 1 after a push is a sound test for "no writer is running".
THEOREM OneWriter == Spec => []OneWriterIffBacklog
BY Invariance, PTL DEF IInv

\* Messages go out in the order do_send_message was called, none of them twice.
THEOREM SentInOrder == Spec => []InOrder
BY Invariance, PTL DEF IInv

\* do_write writes to a connection still being made only after the deadline.
THEOREM NoEarlyWrite == Spec => []EarlyWriteOnlyAfterDeadline
<1>1. IInv => EarlyWriteOnlyAfterDeadline
    BY DEF IInv, DeadlineOK, EarlyWriteOnlyAfterDeadline, TypeOK
<1> QED BY <1>1, Invariance, PTL

-----------------------------------------------------------------------------
\* The market data client does with its WebSocket what any client does: it sends a
\* request for each pair, the first in the order of the pairs, and nothing else.
LEMMA MdStepOfWebSocket == [MdNext]_allVars => [Next]_vars
<1> SUFFICES ASSUME [MdNext]_allVars PROVE [Next]_vars
    OBVIOUS
<1>1. ASSUME NEW m \in Markets, WriterStep(m) PROVE Next
    BY <1>1 DEF Next, Markets
<1>2. ASSUME Connect \/ ConnectFails \/ Opens \/ Closes \/ TimerExpires PROVE Next
    BY <1>2 DEF Next
<1>3. ASSUME WsClientStep PROVE UNCHANGED vars
    BY <1>3 DEF WsClientStep, OnSubscribed, SubscriptionExpires, SubscribeResumes
<1>4. ASSUME NEW m \in Markets, NEW book, NEW parsed, OnPartial(m, book, parsed)
      PROVE  UNCHANGED vars
    BY <1>4, Zenon DEF OnPartial, Receive
<1>5. ASSUME NEW m \in Markets, NEW side, NEW changes, NEW sorted, NEW parsed,
             OnUpdate(m, side, changes, sorted, parsed)
      PROVE  UNCHANGED vars
    BY <1>5, Zenon DEF OnUpdate, Receive
<1>6. ASSUME NEW m \in Markets, SubscribePair(m) PROVE Next
    BY <1>6 DEF SubscribePair, SubscribeOrderbook, Next, Markets
<1>7. ASSUME DoOnOrderbookSnapshot \/ DoOnOrderbookUpdate PROVE UNCHANGED vars
    BY <1>7, Zenon DEF DoOnOrderbookSnapshot, DoOnOrderbookUpdate, Take
<1>8. CASE UNCHANGED allVars
    BY <1>8 DEF allVars
<1>9. CASE MdNext
    BY <1>1, <1>2, <1>3, <1>4, <1>5, <1>6, <1>7, <1>9, Zenon DEF MdNext
<1> QED BY <1>8, <1>9

THEOREM MdInvariance == MdSpec => []IInv
<1>1. MdInit => IInv
    BY InitIInv DEF MdInit, WsClientInit
<1> QED BY <1>1, MdStepOfWebSocket, NextIInv, PTL DEF MdSpec

\* One writer runs while requests are queued, whatever is subscribed to, times out
\* and is received meanwhile.
THEOREM MdOneWriter == MdSpec => []OneWriterIffBacklog
BY MdInvariance, PTL DEF IInv

\* The requests of the pairs go out in the order of the pairs, each once.
THEOREM MdSentInOrder == MdSpec => []InOrder
BY MdInvariance, PTL DEF IInv

-----------------------------------------------------------------------------
\* What update_side makes of the levels of one side.
Levels == [price : Nat, quantity : Nat]

\* The levels go strictly from the best on.
InPriceOrder(side, s) == \A i, j \in 1 .. Len(s) : i < j => Better(side, s[i].price, s[j].price)

LEMMA BetterOrder ==
    ASSUME NEW side, NEW p \in Nat, NEW q \in Nat
    PROVE  /\ ~Better(side, p, p)
           /\ Better(side, p, q) => ~Better(side, q, p)
           /\ p # q => Better(side, p, q) \/ Better(side, q, p)
           /\ \A r \in Nat : Better(side, p, q) /\ Better(side, q, r) => Better(side, p, r)
BY DEF Better

\* The first of ordered levels are as many as their places.
LEMMA FirstLevels ==
    ASSUME NEW side, NEW s \in Seq(Levels), InPriceOrder(side, s)
    PROVE  \A n \in 0 .. Len(s) : /\ IsFiniteSet({s[j] : j \in 1 .. n})
                                  /\ Cardinality({s[j] : j \in 1 .. n}) = n
<1> DEFINE P(n) == {s[j] : j \in 1 .. n}
           Good == {n \in Nat : n =< Len(s) => IsFiniteSet(P(n)) /\ Cardinality(P(n)) = n}
<1>1. Len(s) \in Nat /\ \A i \in 1 .. Len(s) : s[i] \in Levels
    BY ElementOfSeq, LenProperties
<1>2. P(0) = {}
    OBVIOUS
<1>3. 0 \in Good
    BY <1>2, FS_EmptySet
<1>4. ASSUME NEW n \in Nat, n \in Good PROVE n + 1 \in Good
  <2> SUFFICES ASSUME n + 1 =< Len(s)
               PROVE  IsFiniteSet(P(n + 1)) /\ Cardinality(P(n + 1)) = n + 1
      OBVIOUS
  <2>1. IsFiniteSet(P(n)) /\ Cardinality(P(n)) = n
      BY <1>1, <1>4
  <2>2. P(n + 1) = P(n) \cup {s[n + 1]}
    <3>1. 1 .. (n + 1) = (1 .. n) \cup {n + 1}
        OBVIOUS
    <3> QED BY <3>1
  <2>3. s[n + 1] \notin P(n)
    <3>1. \A j \in 1 .. n : Better(side, s[j].price, s[n + 1].price)
        BY <1>1 DEF InPriceOrder
    <3>2. s[n + 1].price \in Nat
        BY <1>1 DEF Levels
    <3>3. ~Better(side, s[n + 1].price, s[n + 1].price)
        BY <3>2, BetterOrder
    <3> QED BY <3>1, <3>3
  <2> HIDE DEF P
  <2> QED BY <2>1, <2>2, <2>3, FS_AddElement
<1> HIDE DEF Good
<1>5. \A n \in Nat : n \in Good
    BY <1>3, <1>4, Induction
<1> QED BY <1>1, <1>5 DEF Good

\* Ordered levels are the best-first sequence of what they are.
LEMMA OrderedIsBestFirst ==
    ASSUME NEW side, NEW s \in Seq(Levels), InPriceOrder(side, s),
           NEW levels, levels = {s[i] : i \in 1 .. Len(s)}
    PROVE  BestFirst(side, levels) = s
<1>1. Len(s) \in Nat /\ (\A i \in 1 .. Len(s) : s[i] \in Levels) /\ s = [i \in 1 .. Len(s) |-> s[i]]
    BY ElementOfSeq, LenProperties
<1>2. \A i \in 1 .. Len(s) : s[i].price \in Nat
    BY <1>1 DEF Levels
<1>3. Cardinality(levels) = Len(s)
  <2>1. Len(s) \in 0 .. Len(s)
      BY <1>1
  <2> QED BY <2>1, FirstLevels
<1> DEFINE Over(l) == {k \in levels : Better(side, k.price, l.price)}
<1>4. ASSUME NEW j \in 1 .. Len(s) PROVE Cardinality(Over(s[j])) = j - 1
  <2>1. ASSUME NEW i \in 1 .. Len(s) PROVE Better(side, s[i].price, s[j].price) <=> i < j
    <3>1. i < j => Better(side, s[i].price, s[j].price)
        BY DEF InPriceOrder
    <3>2. j < i => Better(side, s[j].price, s[i].price)
        BY DEF InPriceOrder
    <3>3. i = j \/ i < j \/ j < i
        BY <1>1
    <3> QED BY <1>1, <1>2, <3>1, <3>2, <3>3, BetterOrder
  <2>2. Over(s[j]) = {s[i] : i \in 1 .. (j - 1)}
    <3>1. \A i \in 1 .. Len(s) : i < j <=> i \in 1 .. (j - 1)
        BY <1>1
    <3>2. 1 .. (j - 1) \subseteq 1 .. Len(s)
        BY <1>1
    <3> QED BY <2>1, <3>1, <3>2
  <2>3. j - 1 \in 0 .. Len(s)
      BY <1>1
  <2> QED BY <2>2, <2>3, FirstLevels
<1>5. ASSUME NEW i \in 1 .. Len(s)
      PROVE  (CHOOSE l \in levels : Cardinality(Over(l)) = i - 1) = s[i]
  <2>1. s[i] \in levels /\ Cardinality(Over(s[i])) = i - 1
      BY <1>4
  <2>2. ASSUME NEW l \in levels, Cardinality(Over(l)) = i - 1 PROVE l = s[i]
    <3>1. PICK j \in 1 .. Len(s) : l = s[j]
        OBVIOUS
    <3>2. j - 1 = i - 1
        BY <1>4, <2>2, <3>1
    <3> QED BY <1>1, <3>1, <3>2
  <2> HIDE DEF Over
  <2> QED BY <2>1, <2>2
<1> QED BY <1>1, <1>3, <1>5 DEF BestFirst

LEMMA WorstLevel ==
    ASSUME NEW side, NEW levels \in SUBSET Levels, IsFiniteSet(levels), levels # {},
           \A k, l \in levels : k.price = l.price => k = l
    PROVE  \E last \in levels : \A l \in levels \ {last} : Better(side, l.price, last.price)
<1> DEFINE prices == {l.price : l \in levels}
<1>1. prices \in SUBSET Nat /\ prices # {} /\ \A l \in levels : l.price \in prices
    BY DEF Levels
<1>2. IsFiniteSet(prices)
  <2>1. [l \in levels |-> l.price] \in Surjection(levels, prices)
      BY DEF Surjection
  <2> HIDE DEF prices
  <2> QED BY <2>1, FS_Surjection
<1>3. \E last \in levels : \A l \in levels : l # last =>
         IF side = "bid" THEN l.price > last.price ELSE l.price < last.price
  <2>1. CASE side = "bid"
    <3>1. PICK p \in prices : \A q \in prices : p =< q
        BY <1>1, LeastExists
    <3>2. PICK last \in levels : last.price = p
        BY <3>1
    <3>3. \A l \in levels : l # last => l.price \in Nat /\ last.price \in Nat /\ last.price =< l.price /\ l.price # last.price
        BY <1>1, <3>1, <3>2
    <3> QED BY <2>1, <3>3
  <2>2. CASE side # "bid"
    <3>1. PICK p \in prices : \A q \in prices : q =< p
        BY <1>1, <1>2, GreatestOfFinite
    <3>2. PICK last \in levels : last.price = p
        BY <3>1
    <3>3. \A l \in levels : l # last => l.price \in Nat /\ last.price \in Nat /\ l.price =< last.price /\ l.price # last.price
        BY <1>1, <3>1, <3>2
    <3> QED BY <2>2, <3>3
  <2> QED BY <2>1, <2>2
<1> QED BY <1>3 DEF Better

\* Finitely many levels of different prices have a best-first sequence.
LEMMA BestFirstOrders ==
    ASSUME NEW side, NEW levels \in SUBSET Levels, IsFiniteSet(levels),
           \A k, l \in levels : k.price = l.price => k = l
    PROVE  /\ BestFirst(side, levels) \in Seq(levels)
           /\ InPriceOrder(side, BestFirst(side, levels))
           /\ levels = {BestFirst(side, levels)[i] : i \in 1 .. Len(BestFirst(side, levels))}
<1> DEFINE Orders(s, set) == s \in Seq(set) /\ InPriceOrder(side, s) /\ set = {s[i] : i \in 1 .. Len(s)}
           Good == {n \in Nat : \A set \in SUBSET levels : Cardinality(set) = n => \E s : Orders(s, set)}
<1>1. \A set \in SUBSET levels : IsFiniteSet(set) /\ Cardinality(set) \in Nat
    BY FS_Subset, FS_CardinalityType
<1>2. \A l \in levels : l \in Levels /\ l.price \in Nat
    BY DEF Levels
<1>3. 0 \in Good
  <2> SUFFICES ASSUME NEW set \in SUBSET levels, Cardinality(set) = 0 PROVE \E s : Orders(s, set)
      OBVIOUS
  <2>1. set = {}
      BY <1>1, FS_EmptySet
  <2>2. Orders(<<>>, set)
      BY <2>1 DEF InPriceOrder
  <2> QED BY <2>2
<1>4. ASSUME NEW n \in Nat, n \in Good PROVE n + 1 \in Good
  <2> SUFFICES ASSUME NEW set \in SUBSET levels, Cardinality(set) = n + 1 PROVE \E s : Orders(s, set)
      OBVIOUS
  <2>1. PICK last \in set : \A l \in set \ {last} : Better(side, l.price, last.price)
    <3>1. set # {}
        BY FS_EmptySet
    <3> QED BY <1>1, <3>1, WorstLevel
  <2>2. Cardinality(set \ {last}) = n /\ set \ {last} \in SUBSET levels
    <3>1. Cardinality(set \ {last}) = Cardinality(set) - 1
        BY <1>1, <2>1, FS_RemoveElement
    <3> QED BY <3>1
  <2>3. PICK s : Orders(s, set \ {last})
      BY <1>4, <2>2
  <2>4. /\ Append(s, last) \in Seq(set) /\ Len(Append(s, last)) = Len(s) + 1
        /\ Append(s, last)[Len(s) + 1] = last /\ Len(s) \in Nat
        /\ \A i \in 1 .. Len(s) : Append(s, last)[i] = s[i] /\ s[i] \in set \ {last}
      BY <2>1, <2>3, ElementOfSeq, LenProperties
  <2>5. InPriceOrder(side, Append(s, last))
    <3> SUFFICES ASSUME NEW i \in 1 .. Len(s) + 1, NEW j \in 1 .. Len(s) + 1, i < j
                 PROVE  Better(side, Append(s, last)[i].price, Append(s, last)[j].price)
        BY <2>4 DEF InPriceOrder
    <3>1. i \in 1 .. Len(s) /\ (j \in 1 .. Len(s) \/ j = Len(s) + 1)
        BY <2>4
    <3>2. CASE j \in 1 .. Len(s)
      <4>1. Better(side, s[i].price, s[j].price)
          BY <2>3, <3>1, <3>2 DEF InPriceOrder
      <4> QED BY <2>4, <3>1, <3>2, <4>1
    <3>3. CASE j = Len(s) + 1
      <4>1. Better(side, s[i].price, last.price)
          BY <2>1, <2>4, <3>1
      <4> QED BY <2>4, <3>1, <3>3, <4>1
    <3> QED BY <3>1, <3>2, <3>3
  <2>6. set = {Append(s, last)[i] : i \in 1 .. Len(Append(s, last))}
    <3>1. \A l \in set \ {last} : \E i \in 1 .. Len(s) : l = s[i]
        BY <2>3
    <3> QED BY <2>1, <2>4, <3>1
  <2> QED BY <2>4, <2>5, <2>6
<1> HIDE DEF Good
<1>5. \A n \in Nat : n \in Good
    BY <1>3, <1>4, Induction
<1>6. PICK s : Orders(s, levels)
    BY <1>1, <1>5 DEF Good
<1>7. s \in Seq(Levels)
    BY <1>6, SeqMonotonic
<1>8. BestFirst(side, levels) = s
    BY <1>6, <1>7, OrderedIsBestFirst
<1> QED BY <1>6, <1>8

\* std::lower_bound: its search has a function that computes it, ...
Searched(search, side, levels, price) ==
    search = [range \in Nat \X Nat |->
                 LET first == range[1]
                     count == range[2]
                     half == count \div 2
                 IN  IF count = 0 THEN first
                     ELSE IF Better(side, levels[first + half].price, price)
                     THEN search[<<first + half + 1, count - half - 1>>]
                     ELSE search[<<first, half>>]]

LEMMA SearchExists ==
    ASSUME NEW side, NEW levels, NEW price
    PROVE  \E search : Searched(search, side, levels, price)
<1> DEFINE S == Nat \X Nat
           measure == [x \in S |-> x[2]]
           Stop == {x \in S : x[2] = 0}
           base == [x \in S |-> x[1]]
           next == [x \in S |-> IF Better(side, levels[x[1] + (x[2] \div 2)].price, price)
                                THEN <<x[1] + (x[2] \div 2) + 1, x[2] - (x[2] \div 2) - 1>>
                                ELSE <<x[1], x[2] \div 2>>]
           step == [x \in S \X Nat |-> x[2]]
<1>1. ASSUME NEW x \in S \ Stop PROVE next[x] \in S /\ measure[next[x]] < measure[x]
  <2>1. x[1] \in Nat /\ x[2] \in Nat /\ x[2] # 0
      OBVIOUS
  <2>2. /\ x[2] \div 2 \in Nat /\ x[2] \div 2 < x[2]
        /\ x[1] + (x[2] \div 2) + 1 \in Nat /\ x[2] - (x[2] \div 2) - 1 \in Nat
        /\ x[2] - (x[2] \div 2) - 1 < x[2]
      BY <2>1
  <2> QED BY <2>1, <2>2
<1>2. measure \in [S -> Nat]
    OBVIOUS
<1>3. \A x \in S \cap Stop : base[x] \in Nat
    OBVIOUS
<1>4. \A x \in S \ Stop, v \in Nat : step[<<x, v>>] = v
    OBVIOUS
<1>5. \A x \in S : base[x] = x[1] /\ (x \in Stop <=> x[2] = 0)
    OBVIOUS
<1>6. \A x \in S : next[x] = IF Better(side, levels[x[1] + (x[2] \div 2)].price, price)
                             THEN <<x[1] + (x[2] \div 2) + 1, x[2] - (x[2] \div 2) - 1>>
                             ELSE <<x[1], x[2] \div 2>>
    OBVIOUS
<1> HIDE DEF measure, Stop, base, next, step
<1>7. Recursion(S, Nat, measure, Stop, base, next, step)
    BY <1>1, <1>2, <1>3, <1>4 DEF Recursion
<1>8. PICK f : Recurs(f, S, Nat, Stop, base, next, step)
    BY <1>7, RecursionExists
<1>9. f \in [S -> Nat]
    BY <1>8 DEF Recurs
<1>10. ASSUME NEW x \in S
       PROVE  f[x] = LET half == x[2] \div 2
                     IN  IF x[2] = 0 THEN x[1]
                         ELSE IF Better(side, levels[x[1] + half].price, price)
                         THEN f[<<x[1] + half + 1, x[2] - half - 1>>]
                         ELSE f[<<x[1], half>>]
  <2>1. CASE x[2] = 0
      BY <1>5, <1>8, <2>1 DEF Recurs
  <2>2. CASE x[2] # 0
    <3>1. x \notin Stop /\ next[x] \in S /\ f[next[x]] \in Nat
        BY <1>1, <1>5, <1>9, <2>2
    <3>2. f[x] = step[<<x, f[next[x]]>>]
        BY <1>8, <3>1 DEF Recurs
    <3>3. f[x] = f[next[x]]
        BY <1>4, <3>1, <3>2
    <3> QED BY <1>6, <2>2, <3>3
  <2> QED BY <2>1, <2>2
<1>11. Searched(f, side, levels, price)
    BY <1>9, <1>10, Zenon DEF Searched
<1> QED BY <1>11

\* Where the search ends: what is before is better than the price, if the levels are in
\* order, and what is from there on is not.
Ends(it, side, s, price, first, last) ==
    /\ it \in first .. last
    /\ InPriceOrder(side, s) =>
          /\ \A i \in first .. (it - 1) : Better(side, s[i].price, price)
          /\ \A i \in it .. (last - 1) : ~Better(side, s[i].price, price)
Finds(search, side, s, price, first, count) ==
    Ends(search[<<first, count>>], side, s, price, first, first + count)

LEMMA SearchFinds ==
    ASSUME NEW side, NEW s \in Seq(Levels), NEW price \in Nat,
           NEW search, Searched(search, side, s, price)
    PROVE  \A count \in Nat, first \in Nat \ {0} :
              first + count =< Len(s) + 1 => Finds(search, side, s, price, first, count)
<1> DEFINE Good == {n \in Nat : \A count \in 0 .. n, first \in Nat \ {0} :
                       first + count =< Len(s) + 1 => Finds(search, side, s, price, first, count)}
<1>1. Len(s) \in Nat /\ (\A i \in 1 .. Len(s) : s[i] \in Levels)
    BY ElementOfSeq, LenProperties
<1>2. \A i \in 1 .. Len(s) : s[i].price \in Nat
    BY <1>1 DEF Levels
<1>3. ASSUME NEW first \in Nat, NEW count \in Nat
      PROVE  search[<<first, count>>] =
                IF count = 0 THEN first
                ELSE IF Better(side, s[first + (count \div 2)].price, price)
                THEN search[<<first + (count \div 2) + 1, count - (count \div 2) - 1>>]
                ELSE search[<<first, count \div 2>>]
    BY Zenon DEF Searched
<1>4. 0 \in Good
  <2>1. ASSUME NEW first \in Nat \ {0}, first + 0 =< Len(s) + 1
        PROVE  Finds(search, side, s, price, first, 0)
    <3>1. search[<<first, 0>>] = first
        BY <1>3
    <3> QED BY <3>1 DEF Finds, Ends
  <2>2. 0 .. 0 = {0}
      OBVIOUS
  <2> QED BY <2>1, <2>2
<1>5. ASSUME NEW n \in Nat, n \in Good PROVE n + 1 \in Good
  <2> SUFFICES ASSUME NEW count \in 0 .. (n + 1), NEW first \in Nat \ {0},
                      first + count =< Len(s) + 1
               PROVE  Finds(search, side, s, price, first, count)
      OBVIOUS
  <2>9. CASE count \in 0 .. n
      BY <1>5, <2>9
  <2>10. CASE count = n + 1
    <3>10. count = n + 1 /\ first + (n + 1) =< Len(s) + 1
        BY <2>10
    <3>1. PICK half : half = (n + 1) \div 2
        OBVIOUS
    <3>2. half \in Nat /\ half =< n /\ n + 1 - half - 1 \in 0 .. n /\ half \in 0 .. n
        BY <3>1
    <3>3. PICK mid : mid = first + half
        OBVIOUS
    <3>4. mid \in 1 .. Len(s) /\ first =< mid /\ mid =< first + n
        BY <1>1, <3>2, <3>3, <3>10
    <3>5. search[<<first, n + 1>>] = IF Better(side, s[mid].price, price)
                                     THEN search[<<mid + 1, n + 1 - half - 1>>]
                                     ELSE search[<<first, half>>]
      <4>1. count \in Nat /\ count # 0 /\ first \in Nat
          BY <3>10
      <4>2. search[<<first, count>>] =
               IF count = 0 THEN first
               ELSE IF Better(side, s[first + (count \div 2)].price, price)
               THEN search[<<first + (count \div 2) + 1, count - (count \div 2) - 1>>]
               ELSE search[<<first, count \div 2>>]
          BY <1>3, <4>1, Zenon
      <4>3. count = n + 1 /\ count \div 2 = half
          BY <3>1, <3>10
      <4>4. first + half = mid /\ ~(count = 0)
          BY <3>3, <4>1
      <4>5. \A h : count \div 2 = h =>
               search[<<first, count>>] =
                  IF count = 0 THEN first
                  ELSE IF Better(side, s[first + h].price, price)
                  THEN search[<<first + h + 1, count - h - 1>>]
                  ELSE search[<<first, h>>]
          BY <4>2, Zenon
      <4>6. search[<<first, count>>] = IF Better(side, s[first + half].price, price)
                                       THEN search[<<first + half + 1, count - half - 1>>]
                                       ELSE search[<<first, half>>]
          BY <4>3, <4>4, <4>5, Zenon
      <4>7. /\ search[<<first, count>>] = search[<<first, n + 1>>]
            /\ s[first + half].price = s[mid].price
          BY <4>3, <4>4, Zenon
      <4>8. search[<<first + half + 1, count - half - 1>>] = search[<<mid + 1, n + 1 - half - 1>>]
        <5>1. first + half + 1 = mid + 1 /\ count - half - 1 = n + 1 - half - 1
            BY <3>2, <4>3, <4>4
        <5> QED BY <5>1, Zenon
      <4> QED BY <4>6, <4>7, <4>8, Zenon
    <3>6. \A i \in 1 .. Len(s) :
             /\ InPriceOrder(side, s) /\ i < mid => Better(side, s[i].price, s[mid].price)
             /\ InPriceOrder(side, s) /\ mid < i => Better(side, s[mid].price, s[i].price)
        BY <3>4 DEF InPriceOrder
    <3>7. CASE Better(side, s[mid].price, price)
      <4>1. PICK it : it = search[<<mid + 1, n + 1 - half - 1>>]
          OBVIOUS
      <4>2. Finds(search, side, s, price, mid + 1, n + 1 - half - 1)
        <5>1. /\ mid + 1 \in Nat \ {0} /\ n + 1 - half - 1 \in 0 .. n
              /\ mid + 1 + (n + 1 - half - 1) =< Len(s) + 1
            BY <1>1, <3>2, <3>3, <3>4, <3>10
        <5> QED BY <1>5, <5>1
      <4>3. mid + 1 + (n + 1 - half - 1) = first + (n + 1)
          BY <3>2, <3>3
      <4>4. Ends(it, side, s, price, mid + 1, first + (n + 1))
          BY <4>1, <4>2, <4>3 DEF Finds
      <4>5. it \in first .. (first + (n + 1))
          BY <3>2, <3>4, <4>4 DEF Ends
      <4>6. ASSUME InPriceOrder(side, s), NEW i \in first .. (it - 1)
            PROVE  Better(side, s[i].price, price)
        <5>1. i \in 1 .. Len(s) /\ (i < mid \/ i = mid \/ i \in (mid + 1) .. (it - 1))
            BY <1>1, <3>4, <3>10, <4>5
        <5>2. s[i].price \in Nat /\ s[mid].price \in Nat
            BY <1>2, <3>4, <5>1
        <5>3. CASE i < mid
          <6>1. Better(side, s[i].price, s[mid].price)
              BY <3>6, <4>6, <5>1, <5>3
          <6>2. \A r \in Nat : Better(side, s[i].price, s[mid].price) /\ Better(side, s[mid].price, r)
                                => Better(side, s[i].price, r)
              BY <5>2, BetterOrder
          <6> QED BY <3>7, <6>1, <6>2
        <5> QED BY <3>7, <4>4, <4>6, <5>1, <5>3 DEF Ends
      <4>7. Ends(it, side, s, price, first, first + (n + 1))
          BY <4>4, <4>5, <4>6 DEF Ends
      <4> QED BY <3>5, <3>7, <3>10, <4>1, <4>7 DEF Finds
    <3>8. CASE ~Better(side, s[mid].price, price)
      <4>1. PICK it : it = search[<<first, half>>]
          OBVIOUS
      <4>2. Finds(search, side, s, price, first, half)
          BY <1>5, <3>2, <3>3, <3>4
      <4>3. Ends(it, side, s, price, first, mid)
          BY <3>3, <4>1, <4>2 DEF Finds
      <4>4. it \in first .. (first + (n + 1))
          BY <3>2, <3>4, <4>3 DEF Ends
      <4>5. ASSUME InPriceOrder(side, s), NEW i \in it .. (first + (n + 1) - 1)
            PROVE  ~Better(side, s[i].price, price)
        <5>1. i \in 1 .. Len(s) /\ (mid < i \/ i = mid \/ i \in it .. (mid - 1))
            BY <1>1, <3>4, <3>10, <4>4
        <5>2. s[i].price \in Nat /\ s[mid].price \in Nat
            BY <1>2, <3>4, <5>1
        <5>3. CASE mid < i
          <6>1. Better(side, s[mid].price, s[i].price)
              BY <3>6, <4>5, <5>1, <5>3
          <6> QED BY <3>8, <5>2, <6>1, BetterOrder
        <5> QED BY <3>8, <4>3, <4>5, <5>1, <5>3 DEF Ends
      <4>6. Ends(it, side, s, price, first, first + (n + 1))
          BY <4>3, <4>4, <4>5 DEF Ends
      <4> QED BY <3>5, <3>8, <3>10, <4>1, <4>6 DEF Finds
    <3> QED BY <3>7, <3>8
  <2>11. count \in 0 .. n \/ count = n + 1
      OBVIOUS
  <2> QED BY <2>9, <2>10, <2>11
<1> HIDE DEF Good
<1>6. \A n \in Nat : n \in Good
    BY <1>4, <1>5, Induction
<1>7. ASSUME NEW count \in Nat, NEW first \in Nat \ {0}, first + count =< Len(s) + 1
      PROVE  Finds(search, side, s, price, first, count)
    BY <1>6, <1>7 DEF Good
<1> QED BY <1>7

\* std::lower_bound ends where the levels are no longer better than the price.
LEMMA LowerBoundFinds ==
    ASSUME NEW side, NEW s \in Seq(Levels), NEW price \in Nat, NEW from \in 1 .. (Len(s) + 1),
           NEW it, it = LowerBound(side, s, from, price)
    PROVE  /\ it \in from .. (Len(s) + 1)
           /\ InPriceOrder(side, s) =>
                 /\ \A i \in from .. (it - 1) : Better(side, s[i].price, price)
                 /\ \A i \in it .. Len(s) : ~Better(side, s[i].price, price)
<1> DEFINE search == CHOOSE f : Searched(f, side, s, price)
<1>1. Searched(search, side, s, price)
    BY SearchExists
<1>2. it = search[<<from, Len(s) + 1 - from>>]
    BY DEF LowerBound, Searched
<1> HIDE DEF search
<1>3. Len(s) \in Nat
    BY LenProperties
<1>4. /\ Len(s) + 1 - from \in Nat /\ from \in Nat \ {0}
      /\ from + (Len(s) + 1 - from) = Len(s) + 1 /\ Len(s) + 1 - 1 = Len(s)
    BY <1>3
<1>5. Finds(search, side, s, price, from, Len(s) + 1 - from)
    BY <1>1, <1>4, SearchFinds
<1>6. Ends(it, side, s, price, from, Len(s) + 1)
    BY <1>2, <1>4, <1>5 DEF Finds
<1> QED BY <1>4, <1>6 DEF Ends

\* The levels of a side with these quantities: each of a price and the quantity of that
\* price, best first, and none left out.
Ladder(side, s, quantities) ==
    /\ s \in Seq(Levels)
    /\ InPriceOrder(side, s)
    /\ \A i \in 1 .. Len(s) :
          s[i].price \in Prices /\ s[i].quantity = quantities[s[i].price] /\ s[i].quantity > 0
    /\ \A p \in Prices : quantities[p] > 0 => \E i \in 1 .. Len(s) : s[i].price = p

LEMMA InsertedAt ==
    ASSUME NEW S, NEW s \in Seq(S), NEW it \in 1 .. Len(s), NEW e \in S
    PROVE  /\ InsertAt(s, it, e) \in Seq(S) /\ Len(InsertAt(s, it, e)) = Len(s) + 1
           /\ \A i \in 1 .. Len(s) + 1 : InsertAt(s, it, e)[i] =
                 IF i < it THEN s[i] ELSE IF i = it THEN e ELSE s[i - 1]
<1>0. PICK t : t = InsertAt(s, it, e)
    OBVIOUS
<1>1. Len(s) \in Nat /\ (\A i \in 1 .. Len(s) : s[i] \in S)
    BY ElementOfSeq, LenProperties
<1>2. PICK front : front = SubSeq(s, 1, it - 1)
    OBVIOUS
<1>3. PICK back : back = SubSeq(s, it, Len(s))
    OBVIOUS
<1>4. /\ front \in Seq(S) /\ Len(front) = it - 1
      /\ \A i \in 1 .. (it - 1) : front[i] = s[i]
    <2>1. 1 \in Int /\ it - 1 \in Int /\ \A i \in 1 .. (it - 1) : s[i] \in S
        BY <1>1
    <2> QED BY <1>2, <2>1, SubSeqProperties
<1>5. /\ back \in Seq(S) /\ Len(back) = Len(s) - it + 1
      /\ \A i \in 1 .. Len(s) - it + 1 : back[i] = s[it + i - 1]
    <2>1. Len(s) \in Int /\ it \in Int /\ it =< Len(s) /\ \A i \in it .. Len(s) : s[i] \in S
        BY <1>1
    <2> QED BY <1>3, <2>1, SubSeqProperties
<1>6. <<e>> \in Seq(S) /\ Len(<<e>>) = 1 /\ <<e>>[1] = e
    OBVIOUS
<1>7. PICK mid : mid = front \o <<e>>
    OBVIOUS
<1>8. /\ mid \in Seq(S) /\ Len(mid) = it
      /\ \A i \in 1 .. it : mid[i] = IF i =< it - 1 THEN front[i] ELSE e
    <2>1. /\ mid \in Seq(S) /\ Len(mid) = (it - 1) + 1
          /\ \A i \in 1 .. (it - 1) + 1 : mid[i] = IF i =< it - 1 THEN front[i] ELSE <<e>>[i - (it - 1)]
        BY <1>4, <1>6, <1>7, ConcatProperties
    <2>2. \A i \in 1 .. it : i =< it - 1 \/ i - (it - 1) = 1
        OBVIOUS
    <2> QED BY <1>6, <2>1, <2>2
<1>9. t = mid \o back
    BY <1>0, <1>2, <1>3, <1>7 DEF InsertAt
<1>10. /\ t \in Seq(S) /\ Len(t) = it + (Len(s) - it + 1)
       /\ \A i \in 1 .. it + (Len(s) - it + 1) : t[i] = IF i =< it THEN mid[i] ELSE back[i - it]
    <2>3. mid \in Seq(S) /\ back \in Seq(S)
        BY <1>5, <1>8
    <2>1. /\ t \in Seq(S) /\ Len(t) = Len(mid) + Len(back)
          /\ \A i \in 1 .. Len(mid) + Len(back) :
                t[i] = IF i =< Len(mid) THEN mid[i] ELSE back[i - Len(mid)]
        BY <1>9, <2>3, ConcatProperties
    <2> QED BY <1>5, <1>8, <2>1
<1>11. it + (Len(s) - it + 1) = Len(s) + 1
    BY <1>1
<1>12. ASSUME NEW i \in 1 .. Len(t)
       PROVE  t[i] = IF i < it THEN s[i] ELSE IF i = it THEN e ELSE s[i - 1]
    <2>1. i \in 1 .. Len(s) + 1
        BY <1>10, <1>11
    <2>2. CASE i =< it
      <3>1. t[i] = mid[i]
          BY <1>10, <1>11, <2>1, <2>2
      <3>2. i \in 1 .. it /\ (i =< it - 1 <=> i < it) /\ (i < it => i \in 1 .. (it - 1))
          BY <1>1, <2>1, <2>2
      <3>3. mid[i] = IF i < it THEN s[i] ELSE e
          BY <1>4, <1>8, <3>2
      <3> QED BY <2>2, <3>1, <3>2, <3>3
    <2>3. CASE i > it
        <3>1. i - it \in 1 .. Len(s) - it + 1 /\ it + (i - it) - 1 = i - 1
            BY <1>1, <2>1, <2>3
        <3> QED BY <1>5, <1>10, <1>11, <2>1, <2>3, <3>1
    <2> QED BY <2>1, <2>2, <2>3
<1> QED BY <1>0, <1>10, <1>11, <1>12

LEMMA RemovedAt ==
    ASSUME NEW S, NEW s \in Seq(S), NEW it \in 1 .. Len(s)
    PROVE  /\ RemoveAt(s, it) \in Seq(S) /\ Len(RemoveAt(s, it)) = Len(s) - 1
           /\ \A i \in 1 .. Len(s) - 1 : RemoveAt(s, it)[i] = IF i < it THEN s[i] ELSE s[i + 1]
<1>0. PICK t : t = RemoveAt(s, it)
    OBVIOUS
<1>1. Len(s) \in Nat /\ (\A i \in 1 .. Len(s) : s[i] \in S)
    BY ElementOfSeq, LenProperties
<1>2. PICK front : front = SubSeq(s, 1, it - 1)
    OBVIOUS
<1>3. PICK back : back = SubSeq(s, it + 1, Len(s))
    OBVIOUS
<1>4. /\ front \in Seq(S) /\ Len(front) = it - 1
      /\ \A i \in 1 .. (it - 1) : front[i] = s[i]
    <2>1. 1 \in Int /\ it - 1 \in Int /\ \A i \in 1 .. (it - 1) : s[i] \in S
        BY <1>1
    <2> QED BY <1>2, <2>1, SubSeqProperties
<1>5. /\ back \in Seq(S) /\ Len(back) = Len(s) - it
      /\ \A i \in 1 .. Len(s) - it : back[i] = s[it + i]
    <2>1. /\ Len(s) \in Int /\ it + 1 \in Int /\ \A i \in (it + 1) .. Len(s) : s[i] \in S
        BY <1>1
    <2>2. /\ back \in Seq(S) /\ Len(back) = IF it + 1 =< Len(s) THEN Len(s) - (it + 1) + 1 ELSE 0
          /\ \A i \in 1 .. Len(s) - (it + 1) + 1 : back[i] = s[(it + 1) + i - 1]
        BY <1>3, <2>1, SubSeqProperties
    <2>3. Len(s) - (it + 1) + 1 = Len(s) - it
        BY <1>1
    <2>4. Len(back) = Len(s) - it
        BY <1>1, <2>2
    <2>5. ASSUME NEW i \in 1 .. Len(s) - it PROVE back[i] = s[it + i]
        <3>1. (it + 1) + i - 1 = it + i
            OBVIOUS
        <3> QED BY <2>2, <2>3, <3>1
    <2> QED BY <2>2, <2>4, <2>5
<1>6. t = front \o back
    BY <1>0, <1>2, <1>3 DEF RemoveAt
<1>7. /\ t \in Seq(S) /\ Len(t) = (it - 1) + (Len(s) - it)
      /\ \A i \in 1 .. (it - 1) + (Len(s) - it) :
            t[i] = IF i =< it - 1 THEN front[i] ELSE back[i - (it - 1)]
    <2>3. front \in Seq(S) /\ back \in Seq(S)
        BY <1>4, <1>5
    <2>1. /\ t \in Seq(S) /\ Len(t) = Len(front) + Len(back)
          /\ \A i \in 1 .. Len(front) + Len(back) :
                t[i] = IF i =< Len(front) THEN front[i] ELSE back[i - Len(front)]
        BY <1>6, <2>3, ConcatProperties
    <2> QED BY <1>4, <1>5, <2>1
<1>8. (it - 1) + (Len(s) - it) = Len(s) - 1
    BY <1>1
<1>9. ASSUME NEW i \in 1 .. Len(t) PROVE t[i] = IF i < it THEN s[i] ELSE s[i + 1]
    <2>1. i \in 1 .. Len(s) - 1
        BY <1>7, <1>8
    <2>2. CASE i < it
        <3>1. i =< it - 1 /\ i \in 1 .. (it - 1)
            BY <2>1, <2>2
        <3> QED BY <1>4, <1>7, <1>8, <2>1, <2>2, <3>1
    <2>3. CASE ~(i < it)
        <3>1. ~(i =< it - 1) /\ i - (it - 1) \in 1 .. Len(s) - it /\ it + (i - (it - 1)) = i + 1
            BY <1>1, <2>1, <2>3
        <3> QED BY <1>5, <1>7, <1>8, <2>1, <2>3, <3>1
    <2> QED BY <2>2, <2>3
<1> QED BY <1>0, <1>7, <1>8, <1>9

\* A level put in the place of the one of its price, or that one taken out.
OneChanged(s, c, t) ==
    /\ \A i \in 1 .. Len(t) : \/ t[i] = c /\ c.quantity > 0
                              \/ \E j \in 1 .. Len(s) : t[i] = s[j] /\ s[j].price # c.price
    /\ \A j \in 1 .. Len(s) : s[j].price # c.price => \E i \in 1 .. Len(t) : t[i] = s[j]
    /\ c.quantity > 0 => \E i \in 1 .. Len(t) : t[i] = c

LEMMA LadderChanges ==
    ASSUME NEW side, NEW s, NEW quantities \in [Prices -> Nat], Ladder(side, s, quantities),
           NEW c \in Levels, c.price \in Prices,
           NEW t \in Seq(Levels), InPriceOrder(side, t), OneChanged(s, c, t)
    PROVE  Ladder(side, t, [quantities EXCEPT ![c.price] = c.quantity])
<1>1. PICK after : after = [quantities EXCEPT ![c.price] = c.quantity]
    OBVIOUS
<1>2. after[c.price] = c.quantity /\ \A p \in Prices \ {c.price} : after[p] = quantities[p]
    BY <1>1
<1>3. ASSUME NEW i \in 1 .. Len(t)
      PROVE  t[i].price \in Prices /\ t[i].quantity = after[t[i].price] /\ t[i].quantity > 0
    <2>1. CASE t[i] = c /\ c.quantity > 0
        BY <1>2, <2>1
    <2>2. ASSUME NEW j \in 1 .. Len(s), t[i] = s[j], s[j].price # c.price
          PROVE  t[i].price \in Prices /\ t[i].quantity = after[t[i].price] /\ t[i].quantity > 0
        <3>1. s[j].price \in Prices /\ s[j].quantity = quantities[s[j].price] /\ s[j].quantity > 0
            BY DEF Ladder
        <3>2. after[s[j].price] = quantities[s[j].price]
            BY <1>2, <2>2, <3>1
        <3> QED BY <2>2, <3>1, <3>2
    <2>3. \/ t[i] = c /\ c.quantity > 0
          \/ \E j \in 1 .. Len(s) : t[i] = s[j] /\ s[j].price # c.price
        BY DEF OneChanged
    <2> QED BY <2>1, <2>2, <2>3
<1>4. ASSUME NEW p \in Prices, after[p] > 0 PROVE \E i \in 1 .. Len(t) : t[i].price = p
    <2>1. CASE p = c.price
        BY <1>2, <1>4, <2>1 DEF OneChanged
    <2>2. CASE p # c.price
        <3>1. PICK j \in 1 .. Len(s) : s[j].price = p
            BY <1>2, <1>4, <2>2 DEF Ladder
        <3> QED BY <2>2, <3>1 DEF OneChanged
    <2> QED BY <2>1, <2>2
<1> QED BY <1>1, <1>3, <1>4 DEF Ladder

\* The levels are those of the quantities, and those before the iterator are better than
\* the price.
Follows(at, side, quantities, price) ==
    /\ at = [levels |-> at.levels, it |-> at.it]
    /\ Ladder(side, at.levels, quantities)
    /\ at.it \in 1 .. Len(at.levels) + 1
    /\ \A i \in 1 .. (at.it - 1) : Better(side, at.levels[i].price, price)

LEMMA FollowsOn ==
    ASSUME NEW side, NEW at, NEW quantities, NEW p \in Nat, NEW q \in Nat,
           Follows(at, side, quantities, p), Better(side, p, q)
    PROVE  Follows(at, side, quantities, q)
<1> SUFFICES ASSUME NEW i \in 1 .. (at.it - 1) PROVE Better(side, at.levels[i].price, q)
    BY DEF Follows
<1>1. at.levels \in Seq(Levels) /\ at.it \in 1 .. Len(at.levels) + 1
    BY DEF Follows, Ladder
<1>2. i \in 1 .. Len(at.levels)
    BY <1>1, LenProperties
<1>3. at.levels[i].price \in Nat
  <2>1. at.levels[i] \in Levels
      BY <1>1, <1>2, ElementOfSeq
  <2> QED BY <2>1 DEF Levels
<1>4. Better(side, at.levels[i].price, p)
    BY DEF Follows
<1> QED BY <1>3, <1>4, BetterOrder

\* One level of a message whose levels go on from the best, with a new quantity.
LEMMA UpdateLevelFollows ==
    ASSUME NEW side, NEW quantities \in [Prices -> Nat], NEW c \in Levels,
           c.price \in Prices, c.quantity # quantities[c.price],
           NEW at, Follows(at, side, quantities, c.price)
    PROVE  Follows(UpdateLevel(side, at, c), side,
                   [quantities EXCEPT ![c.price] = c.quantity], c.price)
<1>1. PICK s, from : s = at.levels /\ from = at.it /\ at = [levels |-> s, it |-> from]
    BY DEF Follows
<1>2. PICK new : new = UpdateLevel(side, at, c)
    OBVIOUS
<1>3. /\ Ladder(side, s, quantities) /\ from \in 1 .. Len(s) + 1
       /\ \A i \in 1 .. (from - 1) : Better(side, s[i].price, c.price)
    BY <1>1 DEF Follows
<1>4. /\ s \in Seq(Levels) /\ Len(s) \in Nat /\ InPriceOrder(side, s)
      /\ \A i \in 1 .. Len(s) : s[i] \in Levels /\ s[i].price \in Nat
      /\ c.price \in Nat /\ c.quantity \in Nat
  <2>1. s \in Seq(Levels) /\ InPriceOrder(side, s)
      BY <1>3 DEF Ladder
  <2>2. Len(s) \in Nat /\ \A i \in 1 .. Len(s) : s[i] \in Levels
      BY <2>1, ElementOfSeq, LenProperties
  <2> QED BY <2>1, <2>2 DEF Levels
<1>5. PICK it : it = LowerBound(side, s, from, c.price)
    OBVIOUS
<1>6. /\ it \in from .. (Len(s) + 1)
      /\ \A i \in from .. (it - 1) : Better(side, s[i].price, c.price)
      /\ \A i \in it .. Len(s) : ~Better(side, s[i].price, c.price)
    BY <1>4, <1>5, <1>3, LowerBoundFinds
<1>7. it \in 1 .. Len(s) + 1
    BY <1>4, <1>6, <1>3
<1>8. ASSUME NEW i \in 1 .. (it - 1)
      PROVE  /\ i \in 1 .. Len(s) /\ Better(side, s[i].price, c.price) /\ s[i].price # c.price
  <2>1. i \in 1 .. Len(s) /\ (i \in 1 .. (from - 1) \/ i \in from .. (it - 1))
      BY <1>4, <1>6, <1>3
  <2>2. Better(side, s[i].price, c.price)
      BY <1>6, <1>3, <2>1
  <2> QED BY <1>4, <2>1, <2>2, BetterOrder
<1>9. ASSUME NEW i \in it .. Len(s), s[i].price # c.price PROVE Better(side, c.price, s[i].price)
  <2>1. i \in 1 .. Len(s) /\ ~Better(side, s[i].price, c.price)
      BY <1>6, <1>7
  <2> QED BY <1>4, <1>9, <2>1, BetterOrder
<1>10. ASSUME NEW i \in 1 .. Len(s), s[i].price = c.price PROVE i = it
  <2>1. i \in it .. Len(s)
      BY <1>4, <1>7, <1>8, <1>10
  <2>2. ASSUME it < i PROVE FALSE
    <3>1. it \in 1 .. Len(s) /\ Better(side, s[it].price, s[i].price)
        BY <1>4, <1>7, <2>1, <2>2 DEF InPriceOrder
    <3>2. ~Better(side, s[it].price, c.price)
        BY <1>6, <3>1
    <3> QED BY <1>10, <3>1, <3>2
  <2> QED BY <1>7, <2>1, <2>2
<1>11. \A i, j \in 1 .. Len(s) : i < j => Better(side, s[i].price, s[j].price)
    BY <1>4 DEF InPriceOrder
<1>12. PICK t : t = IF it > Len(s) THEN Append(s, c)
                   ELSE IF s[it].price # c.price THEN InsertAt(s, it, c)
                   ELSE IF c.quantity = 0 THEN RemoveAt(s, it)
                   ELSE ReplaceAt(s, it, c)
    OBVIOUS
<1>13. new = [it |-> it, levels |-> t]
    BY <1>5, <1>12, <1>1, <1>2 DEF UpdateLevel
\* What the levels are now, and in what order.
<1>14. ASSUME \A i \in 1 .. Len(s) : s[i].price # c.price PROVE c.quantity > 0
  <2>1. quantities[c.price] \in Nat /\ ~(quantities[c.price] > 0)
      BY <1>14, <1>3 DEF Ladder
  <2> QED BY <1>4, <2>1
<1> DEFINE Kept == /\ t \in Seq(Levels) /\ InPriceOrder(side, t)
                   /\ OneChanged(s, c, t)
                   /\ it =< Len(t) + 1
                   /\ \A i \in 1 .. (it - 1) : t[i] = s[i]
<1>15. ASSUME it > Len(s) PROVE Kept
  <2>1. it = Len(s) + 1 /\ \A i \in 1 .. Len(s) : i \in 1 .. (it - 1)
      BY <1>4, <1>7, <1>15
  <2>2. \A i \in 1 .. Len(s) : Better(side, s[i].price, c.price) /\ s[i].price # c.price
      BY <1>8, <2>1
  <2>3. c.quantity > 0
      BY <1>14, <2>2
  <2>4. /\ t \in Seq(Levels) /\ Len(t) = Len(s) + 1 /\ t[Len(s) + 1] = c
        /\ \A i \in 1 .. Len(s) : t[i] = s[i]
      BY <1>4, <1>12, <1>15
  <2>5. InPriceOrder(side, t)
    <3> SUFFICES ASSUME NEW i \in 1 .. Len(s) + 1, NEW j \in 1 .. Len(s) + 1, i < j
                 PROVE  Better(side, t[i].price, t[j].price)
        BY <2>4 DEF InPriceOrder
    <3>1. i \in 1 .. Len(s) /\ (j \in 1 .. Len(s) \/ j = Len(s) + 1)
      <4>1. Len(s) \in Nat
          BY <1>4
      <4> QED BY <4>1
    <3> QED BY <1>11, <2>2, <2>4, <3>1
  <2>6. ASSUME NEW i \in 1 .. Len(t)
        PROVE  \/ t[i] = c /\ c.quantity > 0
               \/ \E j \in 1 .. Len(s) : t[i] = s[j] /\ s[j].price # c.price
    <3>1. i \in 1 .. Len(s) \/ i = Len(s) + 1
        BY <1>4, <2>4
    <3> QED BY <2>2, <2>3, <2>4, <3>1
  <2>7. \A j \in 1 .. Len(s) : \E i \in 1 .. Len(t) : t[i] = s[j]
      BY <1>4, <2>4
  <2>8. \E i \in 1 .. Len(t) : t[i] = c
      BY <1>4, <2>4
  <2>9. it =< Len(t) + 1 /\ \A i \in 1 .. (it - 1) : t[i] = s[i]
      BY <1>4, <2>1, <2>4
  <2>10. OneChanged(s, c, t)
      BY <2>6, <2>7, <2>8 DEF OneChanged
  <2> QED BY <2>4, <2>5, <2>9, <2>10
<1>16. ASSUME it =< Len(s) /\ s[it].price # c.price PROVE Kept
  <2>1. it \in 1 .. Len(s) /\ \A i \in 1 .. Len(s) : s[i].price # c.price
      BY <1>4, <1>7, <1>10, <1>16
  <2>2. c.quantity > 0
      BY <1>14, <2>1
  <2>3. t = InsertAt(s, it, c)
      BY <1>4, <1>7, <1>12, <1>16
  <2>4. /\ t \in Seq(Levels) /\ Len(t) = Len(s) + 1
        /\ \A i \in 1 .. Len(t) : t[i] = IF i < it THEN s[i] ELSE IF i = it THEN c ELSE s[i - 1]
    <3>1. s \in Seq(Levels)
        BY <1>4
    <3>2. it \in 1 .. Len(s) /\ c \in Levels
        BY <2>1
    <3>3. /\ InsertAt(s, it, c) \in Seq(Levels) /\ Len(InsertAt(s, it, c)) = Len(s) + 1
          /\ \A i \in 1 .. Len(s) + 1 : InsertAt(s, it, c)[i] =
                IF i < it THEN s[i] ELSE IF i = it THEN c ELSE s[i - 1]
        BY <3>1, <3>2, InsertedAt
    <3> QED BY <2>3, <3>3
  <2>5. /\ \A i \in 1 .. (it - 1) : t[i] = s[i]
        /\ t[it] = c /\ it \in 1 .. Len(t)
        /\ \A i \in it .. Len(s) : t[i + 1] = s[i] /\ i + 1 \in 1 .. Len(t)
    <3>1. \A i \in 1 .. (it - 1) : i \in 1 .. Len(t) /\ i < it
        BY <1>4, <1>7, <2>1, <2>4
    <3>2. it \in 1 .. Len(t) /\ ~(it < it)
        BY <1>4, <2>1, <2>4
    <3>3. \A i \in it .. Len(s) : i + 1 \in 1 .. Len(t) /\ ~(i + 1 < it) /\ i + 1 # it /\ (i + 1) - 1 = i
        BY <1>4, <2>1, <2>4
    <3> QED BY <2>4, <3>1, <3>2, <3>3
  <2>6. \A i \in 1 .. Len(t) :
           i \in 1 .. (it - 1) \/ i = it \/ (\E k \in it .. Len(s) : i = k + 1)
    <3>1. \A i \in 1 .. Len(t) : i \in 1 .. (it - 1) \/ i = it \/ (i - 1 \in it .. Len(s) /\ i = (i - 1) + 1)
        BY <1>4, <2>1, <2>4
    <3> QED BY <3>1
  <2>7. InPriceOrder(side, t)
    <3> SUFFICES ASSUME NEW i \in 1 .. Len(t), NEW j \in 1 .. Len(t), i < j
                 PROVE  Better(side, t[i].price, t[j].price)
        BY DEF InPriceOrder
    <3>1. CASE j \in 1 .. (it - 1)
      <4>1. i \in 1 .. (it - 1)
          BY <2>1, <3>1
      <4> QED BY <1>8, <1>11, <2>5, <3>1, <4>1
    <3>2. CASE j = it
      <4>1. i \in 1 .. (it - 1)
          BY <2>1, <3>2
      <4> QED BY <1>8, <2>5, <3>2, <4>1
    <3>3. ASSUME NEW k \in it .. Len(s), j = k + 1 PROVE Better(side, t[i].price, t[j].price)
      <4>1. k \in 1 .. Len(s) /\ t[j] = s[k]
          BY <2>1, <2>5, <3>3
      <4>2. CASE i \in 1 .. (it - 1)
        <5>1. i < k
            BY <2>1, <4>2
        <5> QED BY <1>8, <1>11, <2>5, <4>1, <4>2, <5>1
      <4>3. CASE i = it
          BY <1>9, <2>1, <2>5, <4>1, <4>3
      <4>4. ASSUME NEW h \in it .. Len(s), i = h + 1 PROVE Better(side, t[i].price, t[j].price)
        <5>1. h < k /\ h \in 1 .. Len(s) /\ t[i] = s[h]
            BY <2>1, <2>5, <3>3, <4>4
        <5> QED BY <1>11, <4>1, <5>1
      <4> QED BY <2>6, <4>2, <4>3, <4>4
    <3> QED BY <2>6, <3>1, <3>2, <3>3
  <2>8. ASSUME NEW i \in 1 .. Len(t)
        PROVE  \/ t[i] = c /\ c.quantity > 0
               \/ \E j \in 1 .. Len(s) : t[i] = s[j] /\ s[j].price # c.price
    <3>1. CASE i \in 1 .. (it - 1)
        BY <1>8, <2>5, <3>1
    <3>2. CASE i = it
        BY <2>2, <2>5, <3>2
    <3>3. ASSUME NEW k \in it .. Len(s), i = k + 1
          PROVE  \E j \in 1 .. Len(s) : t[i] = s[j] /\ s[j].price # c.price
      <4>1. k \in 1 .. Len(s) /\ t[i] = s[k]
          BY <2>1, <2>5, <3>3
      <4> QED BY <2>1, <4>1
    <3> QED BY <2>6, <3>1, <3>2, <3>3
  <2>9. ASSUME NEW j \in 1 .. Len(s) PROVE \E i \in 1 .. Len(t) : t[i] = s[j]
    <3>1. j \in 1 .. (it - 1) \/ j \in it .. Len(s)
        BY <2>1
    <3>2. \A i \in 1 .. (it - 1) : i \in 1 .. Len(t)
        BY <1>4, <2>1, <2>4
    <3> QED BY <2>5, <3>1, <3>2
  <2>10. it =< Len(t) + 1
      BY <1>4, <2>1, <2>4
  <2>11. OneChanged(s, c, t)
      BY <2>5, <2>8, <2>9 DEF OneChanged
  <2> QED BY <2>4, <2>5, <2>7, <2>10, <2>11
<1>17. ASSUME it =< Len(s) /\ s[it].price = c.price /\ c.quantity = 0 PROVE Kept
  <2>1. it \in 1 .. Len(s) /\ (\A i \in 1 .. Len(s) : s[i].price = c.price <=> i = it) /\ ~(c.quantity > 0)
      BY <1>4, <1>7, <1>10, <1>17
  <2>2. t = RemoveAt(s, it)
      BY <1>4, <1>7, <1>12, <1>17
  <2>3. /\ t \in Seq(Levels) /\ Len(t) = Len(s) - 1
        /\ \A i \in 1 .. Len(t) : t[i] = IF i < it THEN s[i] ELSE s[i + 1]
      BY <1>4, <2>1, <2>2, RemovedAt
  <2>4. \A i \in 1 .. (it - 1) : t[i] = s[i] /\ i \in 1 .. Len(t)
    <3>1. \A i \in 1 .. (it - 1) : i \in 1 .. Len(t) /\ i < it
        BY <1>4, <2>1, <2>3
    <3> QED BY <2>3, <3>1
  <2>5. \A i \in (it + 1) .. Len(s) : t[i - 1] = s[i] /\ i - 1 \in 1 .. Len(t)
    <3>1. \A i \in (it + 1) .. Len(s) : i - 1 \in 1 .. Len(t) /\ ~(i - 1 < it) /\ (i - 1) + 1 = i
        BY <1>4, <2>1, <2>3
    <3> QED BY <2>3, <3>1
  <2>6. ASSUME NEW i \in 1 .. Len(t)
        PROVE  \E k \in 1 .. Len(s) : k # it /\ t[i] = s[k] /\ k = IF i < it THEN i ELSE i + 1
    <3>1. CASE i < it
        BY <1>4, <2>1, <2>3, <3>1
    <3>2. CASE ~(i < it)
      <4>1. i + 1 \in 1 .. Len(s) /\ i + 1 # it
          BY <1>4, <2>1, <2>3, <3>2
      <4> QED BY <2>3, <3>2, <4>1
    <3> QED BY <3>1, <3>2
  <2>7. InPriceOrder(side, t)
    <3> SUFFICES ASSUME NEW i \in 1 .. Len(t), NEW j \in 1 .. Len(t), i < j
                 PROVE  Better(side, t[i].price, t[j].price)
        BY DEF InPriceOrder
    <3>1. PICK h \in 1 .. Len(s) : t[i] = s[h] /\ h = IF i < it THEN i ELSE i + 1
        BY <2>6
    <3>2. PICK k \in 1 .. Len(s) : t[j] = s[k] /\ k = IF j < it THEN j ELSE j + 1
        BY <2>6
    <3>3. h < k
        BY <2>1, <3>1, <3>2
    <3> QED BY <1>11, <3>1, <3>2, <3>3
  <2>8. \A i \in 1 .. Len(t) : \E j \in 1 .. Len(s) : t[i] = s[j] /\ s[j].price # c.price
      BY <2>1, <2>6
  <2>9. ASSUME NEW j \in 1 .. Len(s), s[j].price # c.price PROVE \E i \in 1 .. Len(t) : t[i] = s[j]
    <3>1. j \in 1 .. (it - 1) \/ j \in (it + 1) .. Len(s)
        BY <2>1, <2>9
    <3> QED BY <2>4, <2>5, <3>1
  <2>10. it =< Len(t) + 1
      BY <1>4, <2>1, <2>3
  <2>11. OneChanged(s, c, t)
      BY <2>1, <2>8, <2>9 DEF OneChanged
  <2> QED BY <2>3, <2>4, <2>7, <2>10, <2>11
<1>18. ASSUME it =< Len(s) /\ s[it].price = c.price /\ c.quantity # 0 PROVE Kept
  <2>1. it \in 1 .. Len(s) /\ (\A i \in 1 .. Len(s) : s[i].price = c.price <=> i = it) /\ c.quantity > 0
      BY <1>4, <1>7, <1>10, <1>18
  <2>2. t = [s EXCEPT ![it] = c]
      BY <1>4, <1>7, <1>12, <1>18 DEF ReplaceAt
  <2>3. /\ t \in Seq(Levels) /\ Len(t) = Len(s)
        /\ \A i \in 1 .. Len(s) : t[i] = IF i = it THEN c ELSE s[i]
      BY <1>4, <2>1, <2>2, ExceptSeq
  <2>4. \A i \in 1 .. Len(s) : t[i].price = s[i].price
      BY <2>1, <2>3
  <2>5. InPriceOrder(side, t)
      BY <1>11, <2>3, <2>4 DEF InPriceOrder
  <2>6. \A i \in 1 .. Len(t) : \/ t[i] = c /\ c.quantity > 0
                               \/ \E j \in 1 .. Len(s) : t[i] = s[j] /\ s[j].price # c.price
      BY <2>1, <2>3
  <2>7. \A j \in 1 .. Len(s) : s[j].price # c.price => \E i \in 1 .. Len(t) : t[i] = s[j]
      BY <2>1, <2>3
  <2>8. \E i \in 1 .. Len(t) : t[i] = c
      BY <2>1, <2>3
  <2>9. it =< Len(t) + 1
      BY <1>4, <2>1, <2>3
  <2>10. \A i \in 1 .. (it - 1) : t[i] = s[i]
    <3>1. \A i \in 1 .. (it - 1) : i \in 1 .. Len(s) /\ i # it
        BY <2>1
    <3> QED BY <2>3, <3>1
  <2>11. OneChanged(s, c, t)
      BY <2>6, <2>7, <2>8 DEF OneChanged
  <2> QED BY <2>3, <2>5, <2>9, <2>10, <2>11
<1>19. Kept
  <2>1. it > Len(s) \/ it =< Len(s)
      BY <1>4, <1>7
  <2> HIDE DEF Kept
  <2> QED BY <1>15, <1>16, <1>17, <1>18, <2>1
<1>20. Ladder(side, t, [quantities EXCEPT ![c.price] = c.quantity])
  <2>1. /\ c \in Levels /\ c.price \in Prices
        /\ t \in Seq(Levels) /\ InPriceOrder(side, t) /\ OneChanged(s, c, t)
      BY <1>4, <1>19
  <2> QED BY <1>3, <2>1, LadderChanges
<1>21. \A i \in 1 .. (it - 1) : Better(side, t[i].price, c.price)
    BY <1>8, <1>19
<1>22. it \in 1 .. Len(t) + 1
    BY <1>7, <1>19, LenProperties
<1>23. new.levels = t /\ new.it = it /\ new = [levels |-> new.levels, it |-> new.it]
    BY <1>13
<1> QED BY <1>20, <1>21, <1>22, <1>2, <1>23 DEF Follows

\* The levels that stand for quantities are best first and complete, ...
LEMMA SortedIsLadder ==
    ASSUME NEW side, NEW quantities \in [Prices -> Nat]
    PROVE  Ladder(side, Sorted(side, quantities), quantities)
<1> DEFINE levels == {Level(p, quantities[p]) : p \in {p \in DOMAIN quantities : quantities[p] > 0}}
           s == BestFirst(side, levels)
<1>1. DOMAIN quantities = Prices /\ Prices \subseteq Nat /\ IsFiniteSet(Prices)
    BY PricesAssumption
<1>2. \A l \in levels : /\ l \in Levels /\ l.price \in Prices
                        /\ l.quantity = quantities[l.price] /\ l.quantity > 0
    BY <1>1 DEF Levels, Level
<1>3. \A k, l \in levels : k.price = l.price => k = l
    BY <1>1 DEF Level
<1>4. IsFiniteSet(levels)
  <2> DEFINE sold == {p \in DOMAIN quantities : quantities[p] > 0}
  <2>1. IsFiniteSet(sold)
      BY <1>1, FS_Subset
  <2>2. [p \in sold |-> Level(p, quantities[p])] \in Surjection(sold, levels)
      BY DEF Surjection
  <2> HIDE DEF sold, levels
  <2> QED BY <2>1, <2>2, FS_Surjection
<1>5. ASSUME NEW p \in Prices, quantities[p] > 0 PROVE \E l \in levels : l.price = p
  <2>1. Level(p, quantities[p]) \in levels
      BY <1>1, <1>5
  <2>2. Level(p, quantities[p]).price = p
      BY DEF Level
  <2> QED BY <2>1, <2>2
<1> HIDE DEF levels
<1>6. s \in Seq(levels) /\ InPriceOrder(side, s) /\ levels = {s[i] : i \in 1 .. Len(s)}
    BY <1>2, <1>3, <1>4, BestFirstOrders
<1>7. s = Sorted(side, quantities)
    BY DEF Sorted, levels
<1> HIDE DEF s
<1>8. s \in Seq(Levels)
    BY <1>2, <1>6, SeqMonotonic
<1>9. \A i \in 1 .. Len(s) :
         s[i].price \in Prices /\ s[i].quantity = quantities[s[i].price] /\ s[i].quantity > 0
    BY <1>2, <1>6
<1>10. \A p \in Prices : quantities[p] > 0 => \E i \in 1 .. Len(s) : s[i].price = p
  <2>1. \A l \in levels : \E i \in 1 .. Len(s) : l = s[i]
      BY <1>6
  <2> QED BY <1>5, <2>1
<1>11. Ladder(side, s, quantities)
    BY <1>6, <1>8, <1>9, <1>10 DEF Ladder
<1> QED BY <1>7, <1>11

\* ... and what is best first and complete are these levels.
LEMMA LadderIsSorted ==
    ASSUME NEW side, NEW quantities \in [Prices -> Nat], NEW s, Ladder(side, s, quantities)
    PROVE  s = Sorted(side, quantities)
<1> DEFINE levels == {Level(p, quantities[p]) : p \in {p \in DOMAIN quantities : quantities[p] > 0}}
<1>1. s \in Seq(Levels) /\ InPriceOrder(side, s)
    BY DEF Ladder
<1>2. ASSUME NEW i \in 1 .. Len(s) PROVE s[i] \in levels
  <2>1. /\ s[i].price \in Prices /\ s[i].quantity = quantities[s[i].price]
        /\ quantities[s[i].price] > 0 /\ s[i] \in Levels
      BY <1>1, ElementOfSeq DEF Ladder
  <2>2. s[i] = Level(s[i].price, quantities[s[i].price])
      BY <2>1 DEF Levels, Level
  <2> QED BY <2>1, <2>2
<1>3. ASSUME NEW l \in levels PROVE \E i \in 1 .. Len(s) : l = s[i]
  <2>1. PICK p \in Prices : quantities[p] > 0 /\ l = Level(p, quantities[p])
      BY <1>3
  <2>2. PICK i \in 1 .. Len(s) : s[i].price = p
      BY <2>1 DEF Ladder
  <2>3. s[i] \in Levels /\ s[i].quantity = quantities[p]
      BY <1>1, <2>2, ElementOfSeq DEF Ladder
  <2>4. l = s[i]
      BY <2>1, <2>2, <2>3 DEF Levels, Level
  <2> QED BY <2>4
<1>4. levels = {s[i] : i \in 1 .. Len(s)}
    BY <1>2, <1>3
<1>5. BestFirst(side, levels) = s
  <2> HIDE DEF levels
  <2> QED BY <1>1, <1>4, OrderedIsBestFirst
<1> QED BY <1>5 DEF Sorted

Places == {[levels |-> s, it |-> i] : s \in Seq(Levels), i \in Nat \ {0}}
Within == {at \in Places : at.it =< Len(at.levels) + 1}

\* Whatever the order, the iterator stays within the levels.
LEMMA UpdateLevelType ==
    ASSUME NEW side, NEW at \in Within, NEW c \in Levels
    PROVE  UpdateLevel(side, at, c) \in Within
<1>1. PICK s \in Seq(Levels), from \in Nat \ {0} : at = [levels |-> s, it |-> from]
    BY DEF Within, Places
<1>2. at.levels = s /\ at.it = from /\ Len(s) \in Nat /\ from \in 1 .. Len(s) + 1
    BY <1>1, LenProperties DEF Within
<1>3. PICK it : it = LowerBound(side, s, from, c.price)
    OBVIOUS
<1>4. it \in 1 .. Len(s) + 1
  <2>1. c.price \in Nat
      BY DEF Levels
  <2>2. it \in from .. (Len(s) + 1)
      BY <1>2, <1>3, <2>1, LowerBoundFinds
  <2> QED BY <1>2, <2>2
<1>5. PICK t : t = IF it > Len(s) THEN Append(s, c)
                   ELSE IF s[it].price # c.price THEN InsertAt(s, it, c)
                   ELSE IF c.quantity = 0 THEN RemoveAt(s, it)
                   ELSE ReplaceAt(s, it, c)
    OBVIOUS
<1>6. UpdateLevel(side, at, c) = [levels |-> t, it |-> it]
    BY <1>2, <1>3, <1>5 DEF UpdateLevel
<1>7. t \in Seq(Levels) /\ it =< Len(t) + 1
  <2>1. CASE it > Len(s)
    <3>1. Append(s, c) \in Seq(Levels) /\ Len(Append(s, c)) = Len(s) + 1
        BY <1>1
    <3> QED BY <1>2, <1>4, <1>5, <2>1, <3>1
  <2>2. ASSUME it =< Len(s) PROVE t \in Seq(Levels) /\ it =< Len(t) + 1
    <3>1. it \in 1 .. Len(s) /\ ~(it > Len(s))
        BY <1>2, <1>4, <2>2
    <3>2. InsertAt(s, it, c) \in Seq(Levels) /\ Len(InsertAt(s, it, c)) = Len(s) + 1
        BY <1>1, <3>1, InsertedAt
    <3>3. RemoveAt(s, it) \in Seq(Levels) /\ Len(RemoveAt(s, it)) = Len(s) - 1
        BY <1>1, <3>1, RemovedAt
    <3>4. ReplaceAt(s, it, c) \in Seq(Levels) /\ Len(ReplaceAt(s, it, c)) = Len(s)
        BY <1>1, <3>1, ExceptSeq DEF ReplaceAt
    <3>5. t \in {InsertAt(s, it, c), RemoveAt(s, it), ReplaceAt(s, it, c)}
        BY <1>5, <3>1
    <3>6. t \in Seq(Levels) /\ Len(t) \in {Len(s) + 1, Len(s) - 1, Len(s)}
        BY <3>2, <3>3, <3>4, <3>5
    <3> QED BY <1>2, <2>2, <3>1, <3>6
  <2> QED BY <1>2, <1>4, <2>1, <2>2
<1>8. UpdateLevel(side, at, c) \in Places
    BY <1>4, <1>6, <1>7 DEF Places
<1>9. UpdateLevel(side, at, c).levels = t /\ UpdateLevel(side, at, c).it = it
    BY <1>6
<1> QED BY <1>7, <1>8, <1>9 DEF Within

\* update_side's loop, level by level.
Loops(at, side, levels, changes) ==
    /\ at[0] = [levels |-> levels, it |-> 1]
    /\ \A k \in 1 .. Len(changes) : at[k] = UpdateLevel(side, at[k - 1], changes[k])
    /\ UpdateSide(side, levels, changes) = at[Len(changes)].levels

FoldsLevels(iter, side, levels, changes) ==
    iter = [t \in SUBSET DOMAIN changes |->
               IF t = {} THEN [levels |-> levels, it |-> 1]
               ELSE UpdateLevel(side, iter[t \ {Max(t)}], changes[Max(t)])]

LEMMA UpdateSideLoops ==
    ASSUME NEW side, NEW levels \in Seq(Levels), NEW changes \in Seq(Levels)
    PROVE  \E at : Loops(at, side, levels, changes)
<1>1. /\ Len(changes) \in Nat /\ DOMAIN changes = 1 .. Len(changes)
      /\ \A i \in 1 .. Len(changes) : changes[i] \in Levels
    BY ElementOfSeq, LenProperties
<1> DEFINE n == Len(changes)
           base == [levels |-> levels, it |-> 1]
           step == [x \in (1 .. n) \X Within |-> UpdateLevel(side, x[2], changes[x[1]])]
<1>2. base \in Within
  <2>1. base \in Places /\ base.levels = levels /\ base.it = 1
      BY DEF Places
  <2>2. 1 =< Len(levels) + 1
      BY LenProperties
  <2> QED BY <2>1, <2>2 DEF Within
<1>3. ASSUME NEW i \in 1 .. n, NEW v \in Within
      PROVE  step[<<i, v>>] = UpdateLevel(side, v, changes[i]) /\ step[<<i, v>>] \in Within
  <2>1. step[<<i, v>>] = UpdateLevel(side, v, changes[i])
      OBVIOUS
  <2>2. changes[i] \in Levels
      BY <1>1
  <2> HIDE DEF step
  <2> QED BY <2>1, <2>2, UpdateLevelType
<1> HIDE DEF step, base
<1>4. \E iter \in [SUBSET (1 .. n) -> Within] : \A t \in SUBSET (1 .. n) :
         iter[t] = IF t = {} THEN base ELSE step[<<Max(t), iter[t \ {Max(t)}]>>]
  <2>1. Foldable(n, Within, base, step)
      BY <1>2, <1>3 DEF Foldable
  <2>2. PICK iter : Folded(iter, n, Within, base, step)
      BY <1>1, <2>1, FoldExists
  <2> QED BY <2>2 DEF Folded
<1>5. PICK iter \in [SUBSET (1 .. n) -> Within] : \A t \in SUBSET (1 .. n) :
         iter[t] = IF t = {} THEN base ELSE step[<<Max(t), iter[t \ {Max(t)}]>>]
    BY <1>4
<1>6. ASSUME NEW t \in SUBSET (1 .. n)
      PROVE  iter[t] = IF t = {} THEN base
                       ELSE UpdateLevel(side, iter[t \ {Max(t)}], changes[Max(t)])
  <2>1. CASE t = {}
      BY <1>5, <2>1
  <2>2. CASE t # {}
    <3>1. Max(t) \in 1 .. n
        BY <1>1, <2>2, MaxIsGreatest
    <3>2. iter[t \ {Max(t)}] \in Within
        BY <1>5
    <3> QED BY <1>3, <1>5, <2>2, <3>1, <3>2
  <2> QED BY <2>1, <2>2
<1>7. \E f : FoldsLevels(f, side, levels, changes)
  <2>1. iter = [t \in SUBSET DOMAIN changes |-> iter[t]]
      BY <1>1
  <2>2. \A t \in SUBSET DOMAIN changes :
           iter[t] = IF t = {} THEN [levels |-> levels, it |-> 1]
                     ELSE UpdateLevel(side, iter[t \ {Max(t)}], changes[Max(t)])
      BY <1>1, <1>6 DEF base
  <2>3. FoldsLevels(iter, side, levels, changes)
      BY <2>1, <2>2, Zenon DEF FoldsLevels
  <2> QED BY <2>3
<1> DEFINE fold == CHOOSE f : FoldsLevels(f, side, levels, changes)
<1>8. FoldsLevels(fold, side, levels, changes)
    BY <1>7
<1>9. UpdateSide(side, levels, changes) = fold[DOMAIN changes].levels
    BY DEF UpdateSide, FoldLeft, MapThenFoldSet, FoldsLevels
<1> HIDE DEF fold
<1>10. \A t \in SUBSET (1 .. n) :
          fold[t] = IF t = {} THEN [levels |-> levels, it |-> 1]
                    ELSE UpdateLevel(side, fold[t \ {Max(t)}], changes[Max(t)])
    BY <1>1, <1>8, Zenon DEF FoldsLevels
<1> DEFINE at == [k \in 0 .. n |-> fold[1 .. k]]
<1>11. at[0] = [levels |-> levels, it |-> 1]
  <2>1. 1 .. 0 = {} /\ 0 \in 0 .. n
      BY <1>1
  <2> QED BY <1>10, <2>1
<1>12. ASSUME NEW k \in 1 .. n PROVE at[k] = UpdateLevel(side, at[k - 1], changes[k])
  <2>1. Max(1 .. k) = k /\ (1 .. k) \ {Max(1 .. k)} = 1 .. (k - 1) /\ 1 .. k # {}
      BY <1>1, MaxOfUpTo
  <2>2. (1 .. k) \in SUBSET (1 .. n) /\ k \in 0 .. n /\ k - 1 \in 0 .. n
      BY <1>1
  <2>3. fold[1 .. k] = UpdateLevel(side, fold[1 .. (k - 1)], changes[k])
      BY <1>10, <2>1, <2>2
  <2> QED BY <2>2, <2>3
<1>13. UpdateSide(side, levels, changes) = at[n].levels
  <2>1. n \in 0 .. n
      BY <1>1
  <2> QED BY <1>1, <1>9, <2>1
<1> HIDE DEF at
<1> QED BY <1>11, <1>12, <1>13 DEF Loops

\* update_side makes of the levels of a side those of the side as the message changes it,
\* if the levels of the message go on from the best and every one changes its quantity.
LEMMA UpdateSideMerges ==
    ASSUME NEW side, NEW before \in [Prices -> Nat], NEW changes \in Seq(Levels),
           InPriceOrder(side, changes),
           \A i \in 1 .. Len(changes) :
              changes[i].price \in Prices /\ changes[i].quantity # before[changes[i].price],
           NEW after \in [Prices -> Nat],
           \A i \in 1 .. Len(changes) : after[changes[i].price] = changes[i].quantity,
           \A p \in Prices : (\A i \in 1 .. Len(changes) : changes[i].price # p) => after[p] = before[p]
    PROVE  UpdateSide(side, Sorted(side, before), changes) = Sorted(side, after)
<1>1. PICK n : n = Len(changes)
    OBVIOUS
<1>2. n \in Nat /\ \A i \in 1 .. n : changes[i] \in Levels /\ changes[i].price \in Nat
  <2>1. n \in Nat /\ \A i \in 1 .. n : changes[i] \in Levels
      BY <1>1, ElementOfSeq, LenProperties
  <2> QED BY <2>1 DEF Levels
<1>3. Ladder(side, Sorted(side, before), before)
    BY SortedIsLadder
<1>4. PICK at : Loops(at, side, Sorted(side, before), changes)
  <2>1. Sorted(side, before) \in Seq(Levels)
      BY <1>3 DEF Ladder
  <2> QED BY <2>1, UpdateSideLoops
<1> DEFINE Done(k, q) ==
              /\ q \in [Prices -> Nat]
              /\ \A i \in 1 .. k : q[changes[i].price] = changes[i].quantity
              /\ \A p \in Prices : (\A i \in 1 .. k : changes[i].price # p) => q[p] = before[p]
              /\ Ladder(side, at[k].levels, q)
              /\ \A p \in Nat : k = 0 \/ Better(side, changes[k].price, p) => Follows(at[k], side, q, p)
           Good == {k \in Nat : k =< n => \E q : Done(k, q)}
<1>5. Done(0, before)
  <2>1. at[0] = [levels |-> Sorted(side, before), it |-> 1]
      BY <1>4 DEF Loops
  <2>2. at[0].levels = Sorted(side, before) /\ at[0].it = 1
      BY <2>1
  <2>3. Len(Sorted(side, before)) \in Nat
      BY <1>3, LenProperties DEF Ladder
  <2>4. at[0].it \in 1 .. Len(at[0].levels) + 1 /\ 1 .. (at[0].it - 1) = {} /\ 1 .. 0 = {}
      BY <2>2, <2>3
  <2>5. \A p \in Nat : Follows(at[0], side, before, p)
      BY <1>3, <2>1, <2>2, <2>4 DEF Follows
  <2> QED BY <1>3, <2>2, <2>4, <2>5
<1>6. ASSUME NEW k \in Nat, k + 1 =< n, NEW q, Done(k, q)
      PROVE  \E b : Done(k + 1, b)
  <2>1. PICK c : c = changes[k + 1]
      OBVIOUS
  <2>2. k + 1 \in 1 .. n /\ (k + 1) - 1 = k /\ k + 1 # 0
      BY <1>2, <1>6
  <2>3. c \in Levels /\ c.price \in Prices /\ c.price \in Nat /\ c.quantity \in Nat
      BY <1>1, <1>2, <2>1, <2>2 DEF Levels
  <2>4. \A i \in 1 .. k : /\ i \in 1 .. n /\ Better(side, changes[i].price, c.price)
                          /\ changes[i].price # c.price
    <3>1. \A i \in 1 .. k : i \in 1 .. n /\ i < k + 1
        BY <1>2, <2>2
    <3>2. \A i \in 1 .. k : Better(side, changes[i].price, c.price)
        BY <1>1, <2>1, <2>2, <3>1 DEF InPriceOrder
    <3>3. ~Better(side, c.price, c.price)
        BY <2>3, BetterOrder
    <3> QED BY <3>1, <3>2, <3>3
  <2>5. c.quantity # q[c.price]
    <3>1. q[c.price] = before[c.price]
        BY <1>6, <2>3, <2>4
    <3> QED BY <1>1, <2>1, <2>2, <3>1
  <2>6. Follows(at[k], side, q, c.price)
    <3>1. k = 0 \/ k \in 1 .. k
        OBVIOUS
    <3>2. k = 0 \/ Better(side, changes[k].price, c.price)
        BY <2>4, <3>1
    <3> QED BY <1>6, <2>3, <3>2
  <2>7. PICK b : b = [q EXCEPT ![c.price] = c.quantity]
      OBVIOUS
  <2>8. Follows(at[k + 1], side, b, c.price)
    <3>1. at[k + 1] = UpdateLevel(side, at[k], c)
        BY <1>1, <1>4, <2>1, <2>2 DEF Loops
    <3>2. q \in [Prices -> Nat]
        BY <1>6
    <3>3. Follows(UpdateLevel(side, at[k], c), side, [q EXCEPT ![c.price] = c.quantity], c.price)
        BY <2>3, <2>5, <2>6, <3>2, UpdateLevelFollows
    <3> QED BY <2>7, <3>1, <3>3
  <2>9. /\ b \in [Prices -> Nat] /\ b[c.price] = c.quantity
        /\ \A p \in Prices \ {c.price} : b[p] = q[p]
      BY <1>6, <2>3, <2>7
  <2>10. 1 .. (k + 1) = (1 .. k) \cup {k + 1}
      OBVIOUS
  <2>11. \A i \in 1 .. (k + 1) : b[changes[i].price] = changes[i].quantity
    <3>1. ASSUME NEW i \in 1 .. k PROVE b[changes[i].price] = changes[i].quantity
      <4>1. changes[i].price \in Prices \ {c.price}
          BY <1>1, <2>4
      <4> QED BY <1>6, <2>9, <4>1
    <3> QED BY <2>1, <2>9, <2>10, <3>1
  <2>12. ASSUME NEW p \in Prices, \A i \in 1 .. (k + 1) : changes[i].price # p
         PROVE  b[p] = before[p]
    <3>1. p # c.price /\ \A i \in 1 .. k : changes[i].price # p
        BY <2>1, <2>10, <2>12
    <3> QED BY <1>6, <2>9, <3>1
  <2>13. \A p \in Nat : Better(side, c.price, p) => Follows(at[k + 1], side, b, p)
      BY <2>3, <2>8, FollowsOn
  <2>14. Ladder(side, at[k + 1].levels, b)
      BY <2>8 DEF Follows
  <2>15. Done(k + 1, b)
      BY <2>1, <2>2, <2>9, <2>11, <2>12, <2>13, <2>14
  <2> QED BY <2>15
<1> HIDE DEF Done
<1>7. \A k \in Nat : k \in Good
  <2>1. 0 \in Good
      BY <1>5
  <2>2. \A k \in Nat : k \in Good => k + 1 \in Good
      BY <1>2, <1>6
  <2> HIDE DEF Good
  <2> QED BY <2>1, <2>2, Induction
<1>8. PICK q : Done(n, q)
    BY <1>2, <1>7
<1> USE DEF Done
<1>9. q = after
  <2>1. ASSUME NEW p \in Prices PROVE q[p] = after[p]
    <3>1. CASE \E i \in 1 .. n : changes[i].price = p
        BY <1>1, <1>8, <3>1
    <3>2. CASE \A i \in 1 .. n : changes[i].price # p
        BY <1>1, <1>8, <3>2
    <3> QED BY <3>1, <3>2
  <2> QED BY <1>8, <2>1
<1>10. at[n].levels = Sorted(side, after)
    BY <1>8, <1>9, LadderIsSorted
<1> QED BY <1>1, <1>4, <1>10 DEF Loops

ChangedQuantities == {change.quantities : change \in Changes}

\* The merge of one side is exact, for any prices and quantities.
LEMMA MergesExactlyHolds ==
    MergesExactly(Nat, ChangedQuantities)
<1>1. ASSUME NEW side \in Sides, NEW before \in [Prices -> Nat]
      PROVE  UpdateSide(side, Sorted(side, before), <<>>) = Sorted(side, before)
  <2>1. <<>> \in Seq(Levels) /\ Len(<<>>) = 0 /\ 1 .. 0 = {} /\ InPriceOrder(side, <<>>)
      BY DEF InPriceOrder
  <2> QED BY <2>1, UpdateSideMerges
<1>2. ASSUME NEW side \in Sides, NEW before \in [Prices -> Nat],
             NEW change \in ChangedQuantities,
             \A p \in DOMAIN change : change[p] # before[p]
      PROVE  UpdateSide(side, Sorted(side, before), ChangedLevels(side, change, TRUE))
                = Sorted(side, Changed(before, change))
  <2>1. PICK changed \in SUBSET Prices : change \in [changed -> Nat]
      BY ExchangeAssumption DEF ChangedQuantities
  <2>2. IsFiniteSet(changed) /\ DOMAIN change = changed /\ \A p \in changed : p \in Prices /\ p \in Nat
      BY <2>1, PricesAssumption, FS_Subset
  <2> DEFINE levels == {Level(p, change[p]) : p \in DOMAIN change}
             changes == BestFirst(side, levels)
             after == Changed(before, change)
  <2>3. \A l \in levels : /\ l \in Levels /\ l.price \in DOMAIN change /\ l.quantity = change[l.price]
      BY <2>1, <2>2 DEF Levels, Level
  <2>4. \A k, l \in levels : k.price = l.price => k = l
      BY DEF Level
  <2>5. IsFiniteSet(levels)
    <3>1. [p \in changed |-> Level(p, change[p])] \in Surjection(changed, levels)
        BY <2>2 DEF Surjection
    <3> HIDE DEF levels
    <3> QED BY <2>2, <3>1, FS_Surjection
  <2>6. \A p \in DOMAIN change : \E l \in levels : l.price = p
    <3>1. \A p \in DOMAIN change : Level(p, change[p]) \in levels /\ Level(p, change[p]).price = p
        BY DEF Level
    <3> QED BY <3>1
  <2>7. ChangedLevels(side, change, TRUE) = changes
      BY DEF ChangedLevels
  <2> HIDE DEF levels
  <2>8. changes \in Seq(levels) /\ InPriceOrder(side, changes) /\ levels = {changes[i] : i \in 1 .. Len(changes)}
      BY <2>3, <2>4, <2>5, BestFirstOrders
  <2> HIDE DEF changes
  <2>9. changes \in Seq(Levels)
      BY <2>3, <2>8, SeqMonotonic
  <2>10. /\ after \in [Prices -> Nat]
         /\ \A p \in DOMAIN change : after[p] = change[p]
         /\ \A p \in Prices \ DOMAIN change : after[p] = before[p]
      BY <2>1, <2>2 DEF Changed
  <2> HIDE DEF after
  <2>11. \A i \in 1 .. Len(changes) : /\ changes[i].price \in DOMAIN change
                                      /\ changes[i].quantity = change[changes[i].price]
      BY <2>3, <2>8
  <2>12. \A i \in 1 .. Len(changes) :
            changes[i].price \in Prices /\ changes[i].quantity # before[changes[i].price]
      BY <1>2, <2>2, <2>11
  <2>13. \A i \in 1 .. Len(changes) : after[changes[i].price] = changes[i].quantity
      BY <2>10, <2>11
  <2>14. ASSUME NEW p \in Prices, \A i \in 1 .. Len(changes) : changes[i].price # p
         PROVE  after[p] = before[p]
    <3>1. p \notin DOMAIN change
      <4>1. \A l \in levels : \E i \in 1 .. Len(changes) : l = changes[i]
          BY <2>8
      <4> QED BY <2>6, <2>14, <4>1
    <3> QED BY <2>10, <3>1
  <2>15. UpdateSide(side, Sorted(side, before), changes) = Sorted(side, after)
      BY <2>8, <2>9, <2>10, <2>12, <2>13, <2>14, UpdateSideMerges
  <2> QED BY <2>7, <2>15 DEF after
<1>3. ASSUME NEW side \in Sides, NEW before \in [Prices -> Nat]
      PROVE  /\ UpdateSide(side, Sorted(side, before), <<>>) = Sorted(side, before)
             /\ \A change \in ChangedQuantities :
                   (\A p \in DOMAIN change : change[p] # before[p]) =>
                       UpdateSide(side, Sorted(side, before), ChangedLevels(side, change, TRUE))
                          = Sorted(side, Changed(before, change))
    BY <1>1, <1>2, Zenon
<1> QED BY <1>3, Zenon DEF MergesExactly

\* A side without quantities has no levels.
LEMMA NoLevelsOfNothingHolds == NoLevelsOfNothing
<1> SUFFICES ASSUME NEW side \in Sides PROVE Sorted(side, [p \in Prices |-> 0]) = <<>>
    BY DEF NoLevelsOfNothing
<1> DEFINE nothing == [p \in Prices |-> 0]
<1>1. nothing \in [Prices -> Nat] /\ \A p \in Prices : nothing[p] = 0
    OBVIOUS
<1>2. Ladder(side, <<>>, nothing)
  <2>1. <<>> \in Seq(Levels) /\ 1 .. Len(<<>>) = {}
      OBVIOUS
  <2> HIDE DEF nothing
  <2> QED BY <1>1, <2>1 DEF Ladder, InPriceOrder
<1> HIDE DEF nothing
<1>3. <<>> = Sorted(side, nothing)
    BY <1>1, <1>2, LadderIsSorted
<1> QED BY <1>3 DEF nothing

-----------------------------------------------------------------------------
\* The book a message makes of the one before it.
Leads(before, message) ==
    IF message.type = "partial" THEN message.levels
    ELSE [side \in Sides |-> UpdateSide(side, before[side], message.levels[side])]

\* No message of the market between two places of a strand.
NoneBetween(strand, m, i, j) ==
    \A k \in DOMAIN strand : i < k /\ k < j => strand[k].market # m

\* The messages of a market on a strand lead, one after the other, from one book of the
\* market to another.
LeadsFromTo(strand, m, first, last) ==
    /\ NoneBetween(strand, m, 0, Len(strand) + 1) => first = last
    /\ \A i \in DOMAIN strand : strand[i].market = m =>
          /\ NoneBetween(strand, m, 0, i) => strand[i].truth = Leads(first, strand[i])
          /\ \A j \in DOMAIN strand :
                j < i /\ strand[j].market = m /\ NoneBetween(strand, m, j, i) =>
                   strand[i].truth = Leads(strand[j].truth, strand[i])
          /\ NoneBetween(strand, m, i, Len(strand) + 1) => strand[i].truth = last

\* The messages of an unspoiled market lead from its book to the one of the exchange.
MergeIInv ==
    /\ mdStrand \in Seq({mdStrand[i] : i \in DOMAIN mdStrand})
    /\ \A i \in DOMAIN mdStrand :
          mdStrand[i].market \in Markets /\ mdStrand[i].type \in {"partial", "update"}
    /\ exchangeBook \in [Markets -> [Sides -> [Prices -> Nat]]]
    /\ books = [m \in Markets |-> books[m]]
    /\ \A m \in Markets \ spoiled :
          LeadsFromTo(mdStrand, m, books[m], BookOf(exchangeBook[m]))
LEMMA AppendLeads ==
    ASSUME NEW S, NEW s \in Seq(S), NEW x \in S, NEW m, NEW first, NEW last, NEW next,
           LeadsFromTo(s, m, first, last),
           x.market = m => x.truth = next /\ next = Leads(last, x),
           x.market # m => next = last
    PROVE  LeadsFromTo(Append(s, x), m, first, next)
<1> DEFINE t == Append(s, x)
<1>1. /\ Len(s) \in Nat /\ Len(t) = Len(s) + 1 /\ t[Len(t)] = x
      /\ DOMAIN s = 1 .. Len(s) /\ DOMAIN t = 1 .. Len(t)
      /\ \A i \in 1 .. Len(s) : t[i] = s[i]
    OBVIOUS
<1> HIDE DEF t
<1>2. \A i \in 0 .. Len(s), j \in 1 .. Len(t) :
         NoneBetween(t, m, i, j) <=> NoneBetween(s, m, i, j)
    BY <1>1 DEF NoneBetween
<1>3. \A i \in 0 .. Len(s) :
         NoneBetween(t, m, i, Len(t) + 1) <=> NoneBetween(s, m, i, Len(t)) /\ x.market # m
    BY <1>1 DEF NoneBetween
<1>4. NoneBetween(t, m, 0, Len(t) + 1) => first = next
    BY <1>1, <1>3 DEF LeadsFromTo
<1>5. ASSUME NEW i \in 1 .. Len(s), s[i].market = m
      PROVE  /\ NoneBetween(t, m, 0, i) => t[i].truth = Leads(first, t[i])
             /\ \A j \in 1 .. Len(t) :
                   j < i /\ t[j].market = m /\ NoneBetween(t, m, j, i) =>
                      t[i].truth = Leads(t[j].truth, t[i])
             /\ NoneBetween(t, m, i, Len(t) + 1) => t[i].truth = next
    BY <1>1, <1>2, <1>3, <1>5 DEF LeadsFromTo
<1>6. ASSUME x.market = m
      PROVE  /\ NoneBetween(t, m, 0, Len(t)) => x.truth = Leads(first, x)
             /\ \A j \in 1 .. Len(t) :
                   j < Len(t) /\ t[j].market = m /\ NoneBetween(t, m, j, Len(t)) =>
                      x.truth = Leads(t[j].truth, x)
             /\ x.truth = next
    <2>1. NoneBetween(t, m, 0, Len(t)) => first = last
        BY <1>1, <1>2 DEF LeadsFromTo
    <2>2. ASSUME NEW j \in 1 .. Len(t), j < Len(t), t[j].market = m, NoneBetween(t, m, j, Len(t))
          PROVE  t[j].truth = last
        <3>1. j \in 1 .. Len(s) /\ t[j] = s[j] /\ NoneBetween(s, m, j, Len(s) + 1)
            BY <1>1, <1>2, <2>2
        <3> QED BY <1>1, <2>2, <3>1 DEF LeadsFromTo
    <2> QED BY <1>6, <2>1, <2>2
<1>7. ASSUME NEW i \in 1 .. Len(t), t[i].market = m
      PROVE  (i \in 1 .. Len(s) /\ s[i].market = m) \/ (i = Len(t) /\ t[i] = x /\ x.market = m)
    BY <1>1, <1>7
<1>8. LeadsFromTo(t, m, first, next)
    BY <1>1, <1>4, <1>5, <1>6, <1>7 DEF LeadsFromTo
<1> QED BY <1>8 DEF t

LEMMA TailLeads ==
    ASSUME NEW S, NEW s \in Seq(S), s # <<>>, NEW m, NEW first, NEW last, NEW next,
           LeadsFromTo(s, m, first, last),
           Head(s).market = m => next = Leads(first, Head(s)),
           Head(s).market # m => next = first
    PROVE  LeadsFromTo(Tail(s), m, next, last)
<1> DEFINE t == Tail(s)
<1>1. /\ Len(t) \in Nat /\ Len(s) = Len(t) + 1 /\ s[1] = Head(s)
      /\ DOMAIN s = 1 .. Len(s) /\ DOMAIN t = 1 .. Len(t)
      /\ \A i \in 1 .. Len(t) : t[i] = s[i + 1]
    OBVIOUS
<1> HIDE DEF t
<1>2. ASSUME NEW i \in 0 .. Len(t), NEW j \in 1 .. Len(t) + 1
      PROVE  NoneBetween(t, m, i, j) <=> NoneBetween(s, m, i + 1, j + 1)
    <2>1. ASSUME NoneBetween(t, m, i, j), NEW k \in DOMAIN s, i + 1 < k, k < j + 1
          PROVE  s[k].market # m
        <3>1. k - 1 \in 1 .. Len(t) /\ t[k - 1] = s[k] /\ i < k - 1 /\ k - 1 < j
            BY <1>1, <2>1
        <3> QED BY <1>1, <2>1, <3>1 DEF NoneBetween
    <2>2. ASSUME NoneBetween(s, m, i + 1, j + 1), NEW k \in DOMAIN t, i < k, k < j
          PROVE  t[k].market # m
        <3>1. k + 1 \in 1 .. Len(s) /\ t[k] = s[k + 1] /\ i + 1 < k + 1 /\ k + 1 < j + 1
            BY <1>1, <2>2
        <3> QED BY <1>1, <2>2, <3>1 DEF NoneBetween
    <2> QED BY <2>1, <2>2 DEF NoneBetween
<1>3. ASSUME NEW j \in 1 .. Len(s) + 1, j > 1
      PROVE  NoneBetween(s, m, 0, j) <=> s[1].market # m /\ NoneBetween(s, m, 1, j)
    BY <1>1, <1>3 DEF NoneBetween
<1>4. s[1].market = m => s[1].truth = next
    <2>1. NoneBetween(s, m, 0, 1)
        BY <1>1 DEF NoneBetween
    <2> QED BY <1>1, <2>1 DEF LeadsFromTo
<1>5. NoneBetween(t, m, 0, Len(t) + 1) => next = last
    <2>1. SUFFICES ASSUME NoneBetween(t, m, 0, Len(t) + 1) PROVE next = last
        OBVIOUS
    <2>2. NoneBetween(s, m, 1, Len(s) + 1)
        BY <1>1, <1>2, <2>1
    <2>3. CASE s[1].market = m
        BY <1>1, <1>4, <2>2, <2>3 DEF LeadsFromTo
    <2>4. CASE s[1].market # m
        BY <1>1, <1>3, <2>2, <2>4 DEF LeadsFromTo
    <2> QED BY <2>3, <2>4
<1>6. ASSUME NEW i \in 1 .. Len(t), t[i].market = m
      PROVE  /\ NoneBetween(t, m, 0, i) => t[i].truth = Leads(next, t[i])
             /\ \A j \in 1 .. Len(t) :
                   j < i /\ t[j].market = m /\ NoneBetween(t, m, j, i) =>
                      t[i].truth = Leads(t[j].truth, t[i])
             /\ NoneBetween(t, m, i, Len(t) + 1) => t[i].truth = last
    <2>1. i + 1 \in 1 .. Len(s) /\ s[i + 1] = t[i] /\ 1 \in 1 .. Len(s)
        BY <1>1
    <2>2. ASSUME NoneBetween(t, m, 0, i) PROVE t[i].truth = Leads(next, t[i])
        <3>1. NoneBetween(s, m, 1, i + 1)
            BY <1>2, <2>2
        <3>2. CASE s[1].market = m
            BY <1>1, <1>4, <1>6, <2>1, <3>1, <3>2 DEF LeadsFromTo
        <3>3. CASE s[1].market # m
            BY <1>1, <1>3, <1>6, <2>1, <3>1, <3>3 DEF LeadsFromTo
        <3> QED BY <3>2, <3>3
    <2>3. ASSUME NEW j \in 1 .. Len(t), j < i, t[j].market = m, NoneBetween(t, m, j, i)
          PROVE  t[i].truth = Leads(t[j].truth, t[i])
        <3>1. /\ j + 1 \in 1 .. Len(s) /\ s[j + 1] = t[j] /\ j + 1 < i + 1
              /\ NoneBetween(s, m, j + 1, i + 1)
            BY <1>1, <1>2, <2>3
        <3> QED BY <1>1, <1>6, <2>1, <2>3, <3>1 DEF LeadsFromTo
    <2>4. ASSUME NoneBetween(t, m, i, Len(t) + 1) PROVE t[i].truth = last
        <3>1. NoneBetween(s, m, i + 1, Len(s) + 1)
            BY <1>1, <1>2, <2>4
        <3> QED BY <1>1, <1>6, <2>1, <3>1 DEF LeadsFromTo
    <2> QED BY <2>2, <2>3, <2>4
<1>7. LeadsFromTo(t, m, next, last)
    BY <1>1, <1>5, <1>6 DEF LeadsFromTo
<1> QED BY <1>7 DEF t
\* A sequence is one of its own elements.
LEMMA OwnRange ==
    ASSUME NEW S, NEW s \in Seq(S)
    PROVE  s \in Seq({s[i] : i \in DOMAIN s})
OBVIOUS

LEMMA MergedSide ==
    ASSUME NEW side \in Sides, NEW before \in [Prices -> Nat]
    PROVE  /\ UpdateSide(side, Sorted(side, before), <<>>) = Sorted(side, before)
           /\ \A change \in Changes :
                 (\A p \in DOMAIN change.quantities : change.quantities[p] # before[p]) =>
                    UpdateSide(side, Sorted(side, before),
                               ChangedLevels(side, change.quantities, TRUE))
                       = Sorted(side, Changed(before, change.quantities))
BY MergesExactlyHolds, Zenon DEF MergesExactly, ChangedQuantities

LEMMA ReceivedIInv ==
    ASSUME MergeIInv,
           NEW m \in Markets, NEW type \in {"partial", "update"}, NEW levels, NEW parsed \in BOOLEAN,
           Receive(m, type, levels, parsed),
           exchangeBook' \in [Markets -> [Sides -> [Prices -> Nat]]],
           \A k \in Markets \ {m} : exchangeBook'[k] = exchangeBook[k],
           spoiled \subseteq spoiled',
           ~parsed => m \in spoiled',
           m \notin spoiled' =>
              Leads(BookOf(exchangeBook[m]), [type |-> type, levels |-> levels]) = BookOf(exchangeBook'[m])
    PROVE  MergeIInv'
<1>1. PICK x : x = [market |-> m, type |-> type, levels |-> levels,
                    checksum |-> ChecksumString(BookOf(exchangeBook'[m])),
                    truth |-> BookOf(exchangeBook'[m])]
    OBVIOUS
<1>2. x.market = m /\ x.type = type /\ x.levels = levels /\ x.truth = BookOf(exchangeBook'[m])
    BY <1>1
<1>3. books' = books /\ mdStrand' = IF parsed THEN Append(mdStrand, x) ELSE mdStrand
    BY <1>1 DEF Receive
<1>4. PICK S : mdStrand \in Seq(S)
    BY DEF MergeIInv
<1>5. PICK T : T = S \cup {x}
    OBVIOUS
<1>6. mdStrand \in Seq(T) /\ x \in T
    BY <1>4, <1>5
<1>7. mdStrand' \in Seq(T)
    BY <1>3, <1>6
<1>8. mdStrand' \in Seq({mdStrand'[i] : i \in DOMAIN mdStrand'})
    BY <1>7, OwnRange
<1>9. \A i \in DOMAIN mdStrand' :
         mdStrand'[i].market \in Markets /\ mdStrand'[i].type \in {"partial", "update"}
    <2>1. CASE parsed
        <3>1. \A i \in DOMAIN mdStrand' :
                 (i \in DOMAIN mdStrand /\ mdStrand'[i] = mdStrand[i]) \/ mdStrand'[i] = x
            BY <1>3, <1>6, <2>1
        <3> QED BY <1>2, <3>1 DEF MergeIInv
    <2> QED BY <1>3, <2>1 DEF MergeIInv
<1>10. books' = [k \in Markets |-> books'[k]]
    BY <1>3 DEF MergeIInv
<1>11. ASSUME NEW k \in Markets \ spoiled'
       PROVE  LeadsFromTo(mdStrand', k, books'[k], BookOf(exchangeBook'[k]))
    <2>1. LeadsFromTo(mdStrand, k, books[k], BookOf(exchangeBook[k]))
        BY DEF MergeIInv
    <2>2. CASE k # m
        <3>1. BookOf(exchangeBook'[k]) = BookOf(exchangeBook[k])
            BY <2>2
        <3>2. CASE parsed
            BY <1>2, <1>3, <1>6, <2>1, <2>2, <3>1, <3>2, AppendLeads
        <3> QED BY <1>3, <2>1, <3>1, <3>2
    <2>3. CASE k = m
        <3>1. parsed
            BY <2>3
        <3>2. Leads(BookOf(exchangeBook[m]), x) = BookOf(exchangeBook'[m])
            BY <1>2, <2>3 DEF Leads
        <3> QED BY <1>2, <1>3, <1>6, <2>1, <2>3, <3>1, <3>2, AppendLeads
    <2> QED BY <2>2, <2>3
<1> QED BY <1>8, <1>9, <1>10, <1>11 DEF MergeIInv

LEMMA TakenIInv ==
    ASSUME MergeIInv, NEW type, Take(type),
           books' = [books EXCEPT ![Head(mdStrand).market] =
                        Leads(books[Head(mdStrand).market], Head(mdStrand))]
    PROVE  MergeIInv'
<1>1. PICK S : mdStrand \in Seq(S)
    BY DEF MergeIInv
<1>2. mdStrand # <<>> /\ mdStrand' = Tail(mdStrand) /\ UNCHANGED <<exchangeBook, spoiled>>
    BY DEF Take
<1>3. /\ mdStrand' \in Seq(S)
      /\ Head(mdStrand) = mdStrand[1] /\ 1 \in DOMAIN mdStrand
      /\ \A i \in DOMAIN mdStrand' : i + 1 \in DOMAIN mdStrand /\ mdStrand'[i] = mdStrand[i + 1]
    BY <1>1, <1>2, TailFacts
<1>4. mdStrand' \in Seq({mdStrand'[i] : i \in DOMAIN mdStrand'})
    BY <1>3, OwnRange
<1>5. \A i \in DOMAIN mdStrand' :
         mdStrand'[i].market \in Markets /\ mdStrand'[i].type \in {"partial", "update"}
    BY <1>3 DEF MergeIInv
<1>6. Head(mdStrand).market \in Markets
    BY <1>3 DEF MergeIInv
<1>7. books' = [k \in Markets |-> books'[k]]
    BY <1>6 DEF MergeIInv
<1>8. ASSUME NEW k \in Markets \ spoiled'
      PROVE  LeadsFromTo(mdStrand', k, books'[k], BookOf(exchangeBook'[k]))
    <2>1. LeadsFromTo(mdStrand, k, books[k], BookOf(exchangeBook[k]))
        BY <1>2 DEF MergeIInv
    <2>2. /\ Head(mdStrand).market = k => books'[k] = Leads(books[k], Head(mdStrand))
          /\ Head(mdStrand).market # k => books'[k] = books[k]
        BY <1>6 DEF MergeIInv
    <2> QED BY <1>1, <1>2, <2>1, <2>2, TailLeads
<1> QED BY <1>2, <1>4, <1>5, <1>7, <1>8 DEF MergeIInv
LEMMA InitMergeIInv == MdInit => MergeIInv
<1> SUFFICES ASSUME MdInit PROVE MergeIInv
    OBVIOUS
<1>1. mdStrand = <<>> /\ mdStrand \in Seq({})
    BY DEF MdInit
<1>2. DOMAIN mdStrand = {}
    BY <1>1
<1>3. /\ exchangeBook = [m \in Markets |-> [side \in Sides |-> [p \in Prices |-> 0]]]
      /\ books = [m \in Markets |-> NoBook]
    BY DEF MdInit
<1>4. \A m \in Markets : books[m] = BookOf(exchangeBook[m])
    BY <1>3, NoLevelsOfNothingHolds DEF BookOf, NoBook, NoLevelsOfNothing
<1>5. mdStrand \in Seq({mdStrand[i] : i \in DOMAIN mdStrand})
    BY <1>1, OwnRange
<1>6. exchangeBook \in [Markets -> [Sides -> [Prices -> Nat]]]
    BY <1>3
<1> QED BY <1>2, <1>3, <1>4, <1>5, <1>6 DEF MergeIInv, LeadsFromTo

LEMMA NextMergeIInv ==
    ASSUME MergeIInv, [MdNext]_allVars
    PROVE  MergeIInv'
<1>1. CASE UNCHANGED mdVars
    BY <1>1 DEF mdVars, MergeIInv
<1>2. ASSUME NEW m \in Markets, NEW book \in Snapshots, NEW parsed \in BOOLEAN,
             OnPartial(m, book, parsed)
      PROVE  MergeIInv'
    <2>1. book \in [Sides -> [Prices -> Nat]]
        BY ExchangeAssumption DEF Sides
    <2>2. exchangeBook' = [exchangeBook EXCEPT ![m] = book]
        BY <1>2 DEF OnPartial
    <2>3. /\ exchangeBook' \in [Markets -> [Sides -> [Prices -> Nat]]]
          /\ exchangeBook'[m] = book
          /\ \A k \in Markets \ {m} : exchangeBook'[k] = exchangeBook[k]
        BY <2>1, <2>2 DEF MergeIInv
    <2>4. /\ Receive(m, "partial", BookOf(book), parsed)
          /\ spoiled' = IF parsed THEN spoiled ELSE spoiled \cup {m}
        BY <1>2 DEF OnPartial
    <2>5. Leads(BookOf(exchangeBook[m]), [type |-> "partial", levels |-> BookOf(book)])
             = BookOf(exchangeBook'[m])
        BY <2>3 DEF Leads
    <2> QED BY <2>3, <2>4, <2>5, ReceivedIInv
<1>3. ASSUME NEW m \in Markets, NEW change \in Changes, NEW sorted \in BOOLEAN,
             NEW parsed \in BOOLEAN,
             OnUpdate(m, change.side, change.quantities, sorted, parsed)
      PROVE  MergeIInv'
    <2>1. PICK before : before = exchangeBook[m]
        OBVIOUS
    <2>2. before \in [Sides -> [Prices -> Nat]]
        BY <2>1 DEF MergeIInv
    <2>3. PICK levels :
             levels = [NoBook EXCEPT ![change.side] =
                          ChangedLevels(change.side, change.quantities, sorted)]
        OBVIOUS
    <2>4. PICK after :
             after = [before EXCEPT ![change.side] =
                         Changed(before[change.side], change.quantities)]
        OBVIOUS
    <2>5. change.side \in Sides
        BY ExchangeAssumption DEF Sides
    <2>6. Changed(before[change.side], change.quantities) \in [Prices -> Nat]
        <3>1. PICK changed \in SUBSET Prices : change.quantities \in [changed -> Nat]
            BY ExchangeAssumption
        <3> QED BY <2>2, <2>5, <3>1 DEF Changed
    <2>7. exchangeBook' = [exchangeBook EXCEPT ![m] = after]
        BY <1>3, <2>1, <2>4, <2>5 DEF OnUpdate, MergeIInv
    <2>8. after \in [Sides -> [Prices -> Nat]]
        BY <2>2, <2>4, <2>5, <2>6
    <2>9. /\ exchangeBook' \in [Markets -> [Sides -> [Prices -> Nat]]]
          /\ exchangeBook'[m] = after
          /\ \A k \in Markets \ {m} : exchangeBook'[k] = exchangeBook[k]
        BY <2>7, <2>8 DEF MergeIInv
    <2>10. /\ Receive(m, "update", levels, parsed)
           /\ spoiled' = IF parsed /\ sorted THEN spoiled ELSE spoiled \cup {m}
           /\ \A p \in DOMAIN change.quantities : change.quantities[p] # before[change.side][p]
        BY <1>3, <2>1, <2>3 DEF OnUpdate
    <2>11. ASSUME m \notin spoiled'
           PROVE  Leads(BookOf(before), [type |-> "update", levels |-> levels]) = BookOf(after)
        <3>1. sorted = TRUE
            BY <2>10, <2>11
        <3>2. ASSUME NEW side \in Sides
              PROVE  UpdateSide(side, BookOf(before)[side], levels[side]) = BookOf(after)[side]
            <4>1. /\ before[side] \in [Prices -> Nat]
                  /\ BookOf(before)[side] = Sorted(side, before[side])
                  /\ BookOf(after)[side] = Sorted(side, after[side])
                BY <2>2 DEF BookOf
            <4>2. CASE side = change.side
                <5>1. /\ levels[side] = ChangedLevels(side, change.quantities, TRUE)
                      /\ after[side] = Changed(before[side], change.quantities)
                    BY <2>2, <2>3, <2>4, <2>5, <3>1, <4>2 DEF NoBook
                <5>2. \A p \in DOMAIN change.quantities : change.quantities[p] # before[side][p]
                    BY <2>10, <4>2
                <5> QED BY <4>1, <5>1, <5>2, MergedSide, Zenon
            <4>3. CASE side # change.side
                <5>1. levels[side] = <<>> /\ after[side] = before[side]
                    BY <2>2, <2>3, <2>4, <2>5, <4>3 DEF NoBook
                <5> QED BY <4>1, <5>1, MergedSide, Zenon
            <4> QED BY <4>2, <4>3
        <3>3. [side \in Sides |-> UpdateSide(side, BookOf(before)[side], levels[side])] = BookOf(after)
            BY <3>2 DEF BookOf
        <3> QED BY <3>3 DEF Leads
    <2> QED BY <2>1, <2>9, <2>10, <2>11, ReceivedIInv
<1>4. ASSUME DoOnOrderbookSnapshot PROVE MergeIInv'
    <2>1. Head(mdStrand).type = "partial" /\ Take("partial")
        BY <1>4 DEF DoOnOrderbookSnapshot, Take
    <2>2. books' = [books EXCEPT ![Head(mdStrand).market] = Head(mdStrand).levels]
        BY <1>4 DEF DoOnOrderbookSnapshot, Merged
    <2>3. Leads(books[Head(mdStrand).market], Head(mdStrand)) = Head(mdStrand).levels
        BY <2>1 DEF Leads
    <2> QED BY <2>1, <2>2, <2>3, TakenIInv
<1>5. ASSUME DoOnOrderbookUpdate PROVE MergeIInv'
    <2>1. Head(mdStrand).type = "update" /\ Take("update")
        BY <1>5 DEF DoOnOrderbookUpdate, Take
    <2>2. books' = [books EXCEPT ![Head(mdStrand).market] =
                       [side \in Sides |-> UpdateSide(side, books[Head(mdStrand).market][side],
                                                      Head(mdStrand).levels[side])]]
        BY <1>5 DEF DoOnOrderbookUpdate, Merged
    <2>3. Leads(books[Head(mdStrand).market], Head(mdStrand))
             = [side \in Sides |-> UpdateSide(side, books[Head(mdStrand).market][side],
                                              Head(mdStrand).levels[side])]
        BY <2>1 DEF Leads
    <2> QED BY <2>1, <2>2, <2>3, TakenIInv
<1>6. ASSUME NEW m \in Markets, SubscribePair(m) PROVE UNCHANGED mdVars
    BY <1>6 DEF SubscribePair
<1>7. CASE UNCHANGED allVars
    BY <1>1, <1>7 DEF allVars
<1>8. CASE MdNext
    BY <1>1, <1>2, <1>3, <1>4, <1>5, <1>6, <1>8, Zenon DEF MdNext
<1> QED BY <1>7, <1>8

\* As long as every message of a market was parsed and had its levels in the order of
\* their side, its book is the one of the exchange whenever the strand has nothing more
\* to merge: for any number of updates and of pairs, and any prices and quantities.
THEOREM MergeExactHolds == MdSpec => []MergeExact
<1>1. MergeIInv => MergeExact
    BY DEF MergeIInv, MergeExact, LeadsFromTo, NoneBetween
<1>2. MergeIInv /\ [MdNext]_allVars => MergeIInv'
    BY NextMergeIInv
<1> QED BY <1>1, <1>2, InitMergeIInv, PTL DEF MdSpec
=============================================================================
