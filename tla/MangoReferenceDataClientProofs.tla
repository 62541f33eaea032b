-------------------- MODULE MangoReferenceDataClientProofs --------------------
(***************************************************************************)
(* Proofs about AccountBatcher, ReferenceDataClient and the clients of     *)
(* Serum and Mango that live on both, for any calls, sizes of batch and    *)
(* numbers of keys, any clients and callers, and any configuration and     *)
(* accounts, whatever each of them holds when it is read.                  *)
(***************************************************************************)
EXTENDS MangoReferenceDataClient, FiniteSetTheorems, DataLemmas, TLAPS

\* Where a call without a wrong answer stands: every slot whose request is handled
\* has the account of its key, unless an error is kept.
FilledSoFar ==
    \A c \in DOMAIN batches :
       batches[c].error \/ oddAnswer[c] \/
          \A k \in 0 .. keys[c] - 1 :
             batches[c].response[k] = k \/
             \E i \in outstanding[c] : k \in i .. i + BatchSize - 1

BatcherIInv == TypeOK /\ PendingCounted /\ FilledSoFar /\ ReturnedComplete

-----------------------------------------------------------------------------
\* Arithmetic of the loop.

\* Multiplying by the size of a batch keeps the order.
LEMMA TimesMonotonic ==
    ASSUME NEW i \in Nat, NEW j \in Nat, i < j
    PROVE  /\ i * BatchSize \in Nat /\ j * BatchSize \in Nat
           /\ (i * BatchSize) + BatchSize =< j * BatchSize
BY BatchSizeAssumption, Z3

LEMMA DivMod ==
    ASSUME NEW n \in Nat
    PROVE  /\ n \div BatchSize \in Nat
           /\ n % BatchSize \in 0 .. BatchSize - 1
           /\ n = (n \div BatchSize) * BatchSize + (n % BatchSize)
BY BatchSizeAssumption, Z3

LEMMA ModOfMultiple ==
    ASSUME NEW j \in Nat
    PROVE  (j * BatchSize) % BatchSize = 0 /\ (j * BatchSize) \div BatchSize = j
BY BatchSizeAssumption, Z3

\* lldiv counts the requests the loop makes.
LEMMA RequestsCounted ==
    ASSUME NEW n \in Nat
    PROVE  IsFiniteSet(BatchIndexes(n)) /\ Cardinality(BatchIndexes(n)) = RequestCount(n)
<1> DEFINE J == 0 .. RequestCount(n) - 1
           f == [j \in J |-> j * BatchSize]
           q == n \div BatchSize
           r == n % BatchSize
<1> HIDE DEF J, f, q, r
<1>1. /\ q \in Nat /\ r \in 0 .. BatchSize - 1 /\ n = q * BatchSize + r
      /\ q * BatchSize \in Nat
      /\ RequestCount(n) = q + (IF r > 0 THEN 1 ELSE 0)
      /\ RequestCount(n) \in Nat
    BY DivMod, BatchSizeAssumption DEF q, r, RequestCount
<1>2. \A j \in J : f[j] \in BatchIndexes(n)
  <2> SUFFICES ASSUME NEW j \in J PROVE f[j] \in BatchIndexes(n)
      OBVIOUS
  <2>1. j \in Nat /\ (j < q \/ (j = q /\ r > 0)) /\ f[j] = j * BatchSize
      BY <1>1 DEF J, f
  <2>2. j * BatchSize \in Nat /\ (j * BatchSize) % BatchSize = 0
      BY <2>1, ModOfMultiple, BatchSizeAssumption
  <2>3. j * BatchSize < n
    <3>1. CASE j < q
        BY <3>1, <1>1, <2>1, <2>2, TimesMonotonic, BatchSizeAssumption
    <3>2. CASE j = q /\ r > 0
        BY <3>2, <1>1
    <3> QED BY <2>1, <3>1, <3>2
  <2> QED BY <2>1, <2>2, <2>3 DEF BatchIndexes
<1>3. \A i, j \in J : f[i] = f[j] => i = j
  <2> SUFFICES ASSUME NEW i \in J, NEW j \in J, f[i] = f[j] PROVE i = j
      OBVIOUS
  <2>1. i \in Nat /\ j \in Nat /\ i * BatchSize = j * BatchSize
      BY DEF J, f
  <2> QED BY <2>1, ModOfMultiple
<1>4. \A i \in BatchIndexes(n) : \E j \in J : f[j] = i
  <2> SUFFICES ASSUME NEW i \in BatchIndexes(n) PROVE \E j \in J : f[j] = i
      OBVIOUS
  <2> DEFINE j == i \div BatchSize
  <2>1. i \in Nat /\ i < n /\ i % BatchSize = 0
      BY BatchSizeAssumption DEF BatchIndexes
  <2>2. j \in Nat /\ i = j * BatchSize
      BY <2>1, DivMod, BatchSizeAssumption
  <2> HIDE DEF j
  <2>3. j < q \/ (j = q /\ r > 0)
    <3>1. CASE j > q
      <4>1. q * BatchSize + BatchSize =< j * BatchSize
          BY <3>1, <1>1, <2>2, TimesMonotonic
      <4> QED BY <4>1, <1>1, <2>1, <2>2, BatchSizeAssumption
    <3>2. CASE j = q
        BY <3>2, <1>1, <2>1, <2>2
    <3> QED BY <3>1, <3>2, <1>1, <2>2
  <2>4. j \in J
      BY <1>1, <2>2, <2>3 DEF J
  <2> QED BY <2>2, <2>4 DEF f
<1>5. f \in Bijection(J, BatchIndexes(n))
  <2>1. f \in [J -> BatchIndexes(n)]
      BY <1>2 DEF f
  <2> QED BY <2>1, <1>3, <1>4 DEF Bijection, Injection, Surjection, IsInjective
<1>6. IsFiniteSet(J) /\ Cardinality(J) = RequestCount(n)
  <2> DEFINE m == RequestCount(n) - 1
  <2>1. m \in Int /\ (IF 0 > m THEN 0 ELSE m - 0 + 1) = RequestCount(n)
      BY <1>1
  <2> HIDE DEF m
  <2>2. IsFiniteSet(0 .. m) /\ Cardinality(0 .. m) = IF 0 > m THEN 0 ELSE m - 0 + 1
      BY <2>1, FS_Interval
  <2> QED BY <2>1, <2>2 DEF J, m
<1> QED BY <1>5, <1>6, FS_Bijection DEF ExistsBijection

\* Every key is in the slice of a request.
LEMMA EveryKeyAsked ==
    ASSUME NEW n \in Nat, NEW k \in 0 .. n - 1
    PROVE  \E i \in BatchIndexes(n) : k \in i .. i + BatchSize - 1
<1>1. k \in Nat /\ k \div BatchSize \in Nat /\ k % BatchSize \in 0 .. BatchSize - 1
      /\ k = (k \div BatchSize) * BatchSize + (k % BatchSize)
    BY DivMod
<1> DEFINE i == (k \div BatchSize) * BatchSize
<1>2. i \in Nat /\ i % BatchSize = 0
    BY <1>1, ModOfMultiple, BatchSizeAssumption
<1>3. k = i + (k % BatchSize)
    BY <1>1
<1> HIDE DEF i
<1>4. i \in BatchIndexes(n) /\ k \in i .. i + BatchSize - 1
    BY <1>1, <1>2, <1>3, BatchSizeAssumption DEF BatchIndexes
<1> QED BY <1>4

-----------------------------------------------------------------------------
\* The type invariant, over the range of keys of each call.
LEMMA FiniteOutstanding ==
    ASSUME TypeOK, NEW c \in Calls
    PROVE  IsFiniteSet(outstanding[c]) /\ Cardinality(outstanding[c]) \in Nat
<1>1. keys[c] \in Nat /\ outstanding[c] \in SUBSET BatchIndexes(keys[c])
    BY MaxKeysAssumption DEF TypeOK
<1>2. IsFiniteSet(BatchIndexes(keys[c]))
    BY <1>1, RequestsCounted
<1>3. IsFiniteSet(outstanding[c])
    BY <1>1, <1>2, FS_Subset
<1> QED BY <1>3, FS_CardinalityType

LEMMA InitBatcherIInv == Init => BatcherIInv
<1> SUFFICES ASSUME Init PROVE BatcherIInv
    OBVIOUS
<1>1. TypeOK
    BY MaxKeysAssumption DEF Init, TypeOK, Response, EmptyResponse
<1>2. PendingCounted /\ FilledSoFar /\ ReturnedComplete
    BY DEF Init, PendingCounted, FilledSoFar, ReturnedComplete
<1> QED BY <1>1, <1>2 DEF BatcherIInv

LEMMA GetMultipleAccountsStep ==
    ASSUME BatcherIInv, NEW c \in Calls, NEW n \in 0 .. MaxKeys, GetMultipleAccounts(c, n)
    PROVE  BatcherIInv'
<1> USE DEF BatcherIInv
<1>0. n \in Nat
    BY MaxKeysAssumption
<1>1. /\ c \notin DOMAIN batches /\ outstanding[c] = {} /\ outcome[c] = "none"
      /\ keys' = [keys EXCEPT ![c] = n]
      /\ UNCHANGED <<result, oddAnswer>>
    BY DEF GetMultipleAccounts, PendingCounted
<1>2. CASE n = 0
  <2>1. /\ UNCHANGED <<batches, outstanding>>
        /\ outcome' = [outcome EXCEPT ![c] = "ok"]
      BY <1>2 DEF GetMultipleAccounts
  <2>2. TypeOK'
      BY <1>0, <1>1, <1>2, <2>1 DEF TypeOK
  <2>3. PendingCounted' /\ FilledSoFar'
      BY <1>1, <2>1 DEF PendingCounted, FilledSoFar, TypeOK
  <2>4. ReturnedComplete'
      BY <1>1, <1>2, <2>1 DEF ReturnedComplete, TypeOK
  <2> QED BY <2>2, <2>3, <2>4
<1>3. CASE n # 0
  <2>1. /\ outcome' = [outcome EXCEPT ![c] = "waiting"]
        /\ outstanding' = [outstanding EXCEPT ![c] = BatchIndexes(n)]
        /\ DOMAIN batches' = DOMAIN batches \cup {c}
        /\ batches'[c] = NewBatch(n)
        /\ \A d \in DOMAIN batches : batches'[d] = batches[d]
      BY <1>1, <1>3 DEF GetMultipleAccounts
  <2>2. /\ IsFiniteSet(BatchIndexes(n)) /\ Cardinality(BatchIndexes(n)) = RequestCount(n)
        /\ RequestCount(n) \in Nat
    <3>1. IsFiniteSet(BatchIndexes(n)) /\ Cardinality(BatchIndexes(n)) = RequestCount(n)
        BY <1>0, RequestsCounted
    <3> QED BY <3>1, FS_CardinalityType
  <2>3. \A k \in 0 .. n - 1 : \E i \in BatchIndexes(n) : k \in i .. i + BatchSize - 1
      BY <1>0, EveryKeyAsked
  <2>4. BatchIndexes(n) # {}
    <3>1. 0 \in 0 .. n - 1
        BY <1>0, <1>3
    <3> QED BY <2>3, <3>1
  <2>5. EmptyResponse(n) \in Response(n)
      BY DEF EmptyResponse, Response
  <2>6. TypeOK'
    <3>1. NewBatch(n) \in Batch(n)
        BY <2>2, <2>5 DEF NewBatch, Batch
    <3>2. /\ keys'[c] = n
          /\ \A d \in DOMAIN batches : keys'[d] = keys[d]
        BY <1>1 DEF TypeOK
    <3>3. \A d \in DOMAIN batches' : batches'[d] \in Batch(keys'[d])
        BY <2>1, <3>1, <3>2, Zenon DEF TypeOK
    <3>4. \A d \in Calls : outstanding'[d] \subseteq BatchIndexes(keys'[d])
        BY <1>1, <2>1 DEF TypeOK
    <3>5. \A d \in Calls : result'[d] \in Response(IF outcome'[d] = "ok" THEN keys'[d] ELSE 0)
        BY <1>1, <2>1 DEF TypeOK
    <3> QED BY <1>1, <2>1, <3>3, <3>4, <3>5 DEF TypeOK
  <2>7. PendingCounted'
      BY <1>1, <2>1, <2>2, <2>4 DEF PendingCounted, NewBatch, TypeOK
  <2>8. FilledSoFar'
    <3>1. \A d \in DOMAIN batches :
             /\ d # c /\ batches'[d] = batches[d] /\ keys'[d] = keys[d]
             /\ outstanding'[d] = outstanding[d] /\ oddAnswer'[d] = oddAnswer[d]
        BY <1>1, <2>1 DEF TypeOK
    <3>2. keys'[c] = n /\ outstanding'[c] = BatchIndexes(n)
        BY <1>1, <2>1 DEF TypeOK
    <3> QED BY <2>1, <2>3, <3>1, <3>2 DEF FilledSoFar
  <2>9. ReturnedComplete'
      BY <1>1, <2>1 DEF ReturnedComplete, TypeOK
  <2> QED BY <2>6, <2>7, <2>8, <2>9
<1> QED BY <1>2, <1>3

LEMMA CountedFacts ==
    ASSUME NEW n, NEW b \in Batch(n), b.pendingBatches > 0
    PROVE  /\ Counted(b) \in Batch(n)
           /\ Counted(b).pendingBatches = b.pendingBatches - 1
           /\ Counted(b).wait = IF b.pendingBatches = 1 /\ b.wait = "waiting"
                                THEN "aborted" ELSE b.wait
           /\ Counted(b).error = b.error
           /\ Counted(b).response = b.response
BY DEF Counted, Batch

\* Handling one request: b is its batch before the handler counts the request off.
LEMMA HandledStep ==
    ASSUME BatcherIInv, NEW c \in Calls, NEW i \in outstanding[c],
           outstanding' = [outstanding EXCEPT ![c] = @ \ {i}],
           UNCHANGED <<keys, outcome, result>>,
           oddAnswer' \in [Calls -> BOOLEAN],
           \A d \in Calls \ {c} : oddAnswer'[d] = oddAnswer[d],
           oddAnswer[c] => oddAnswer'[c],
           NEW b \in Batch(keys[c]),
           b.pendingBatches = batches[c].pendingBatches, b.wait = batches[c].wait,
           batches' = [batches EXCEPT ![c] = Counted(b)],
           \/ b.error \/ oddAnswer'[c]
           \/ \A k \in 0 .. keys[c] - 1 :
                 b.response[k] = k \/ \E j \in outstanding[c] \ {i} : k \in j .. j + BatchSize - 1
    PROVE  BatcherIInv'
<1> USE DEF BatcherIInv
<1>1. /\ c \in DOMAIN batches
      /\ DOMAIN batches' = DOMAIN batches
      /\ batches'[c] = Counted(b)
      /\ \A d \in DOMAIN batches \ {c} : batches'[d] = batches[d]
      /\ outstanding'[c] = outstanding[c] \ {i}
      /\ \A d \in Calls \ {c} : outstanding'[d] = outstanding[d]
    BY DEF PendingCounted, TypeOK
<1>2. /\ IsFiniteSet(outstanding[c]) /\ Cardinality(outstanding[c]) \in Nat
      /\ b.pendingBatches = Cardinality(outstanding[c])
      /\ Cardinality(outstanding'[c]) = b.pendingBatches - 1
      /\ Cardinality(outstanding'[c]) \in Nat
      /\ outstanding'[c] = {} <=> Cardinality(outstanding'[c]) = 0
      /\ b.wait # "aborted"
  <2>1. IsFiniteSet(outstanding[c]) /\ Cardinality(outstanding[c]) \in Nat
      BY FiniteOutstanding
  <2>2. IsFiniteSet(outstanding'[c]) /\ Cardinality(outstanding'[c]) = Cardinality(outstanding[c]) - 1
      BY <1>1, <2>1, FS_RemoveElement
  <2>3. /\ b.pendingBatches = Cardinality(outstanding[c])
        /\ b.wait # "aborted"
      BY <1>1 DEF PendingCounted
  <2>4. Cardinality(outstanding'[c]) \in Nat
      BY <2>2, FS_CardinalityType
  <2>5. outstanding'[c] = {} <=> Cardinality(outstanding'[c]) = 0
      BY <2>2, FS_EmptySet
  <2> QED BY <2>1, <2>2, <2>3, <2>4, <2>5
<1>3. /\ Counted(b) \in Batch(keys[c])
      /\ Counted(b).pendingBatches = b.pendingBatches - 1
      /\ Counted(b).wait = IF b.pendingBatches = 1 /\ b.wait = "waiting"
                           THEN "aborted" ELSE b.wait
      /\ Counted(b).error = b.error
      /\ Counted(b).response = b.response
  <2>1. b.pendingBatches > 0
      BY <1>2
  <2> QED BY <2>1, CountedFacts
<1>4. TypeOK'
  <2>1. \A d \in DOMAIN batches' : batches'[d] \in Batch(keys'[d])
      BY <1>1, <1>3, Zenon DEF TypeOK
  <2>2. \A d \in Calls : outstanding'[d] \subseteq BatchIndexes(keys'[d])
      BY <1>1 DEF TypeOK
  <2> QED BY <1>1, <2>1, <2>2 DEF TypeOK
<1>5. PendingCounted'
  <2>1. /\ batches'[c].pendingBatches = Cardinality(outstanding'[c])
        /\ batches'[c].wait = "aborted" => outstanding'[c] = {}
        /\ batches'[c].wait = "waiting" => outstanding'[c] # {}
      BY <1>1, <1>2, <1>3
  <2> QED BY <1>1, <2>1 DEF PendingCounted, TypeOK
<1>6. FilledSoFar'
  <2>1. ASSUME NEW d \in DOMAIN batches \ {c}
        PROVE  batches'[d].error \/ oddAnswer'[d] \/
                  \A k \in 0 .. keys'[d] - 1 :
                     batches'[d].response[k] = k \/
                     \E j \in outstanding'[d] : k \in j .. j + BatchSize - 1
    <3>1. /\ batches'[d] = batches[d] /\ oddAnswer'[d] = oddAnswer[d] /\ keys'[d] = keys[d]
          /\ outstanding'[d] = outstanding[d]
        BY <1>1 DEF TypeOK
    <3> QED BY <3>1, Zenon DEF FilledSoFar
  <2>2. batches'[c].error \/ oddAnswer'[c] \/
           \A k \in 0 .. keys'[c] - 1 :
              batches'[c].response[k] = k \/
              \E j \in outstanding'[c] : k \in j .. j + BatchSize - 1
      BY <1>1, <1>3, Zenon
  <2> QED BY <1>1, <2>1, <2>2, Zenon DEF FilledSoFar
<1>7. ReturnedComplete'
  <2>1. outcome[c] # "ok"
      BY <1>1 DEF PendingCounted
  <2> QED BY <2>1 DEF ReturnedComplete
<1> QED BY <1>4, <1>5, <1>6, <1>7

LEMMA HandleErrorStep ==
    ASSUME BatcherIInv, NEW c \in Calls, NEW i \in outstanding[c], HandleError(c, i)
    PROVE  BatcherIInv'
<1> DEFINE b == WithError(batches[c])
<1>1. c \in DOMAIN batches /\ batches[c] \in Batch(keys[c])
    BY DEF BatcherIInv, PendingCounted, TypeOK
<1>2. /\ b \in Batch(keys[c]) /\ b.error
      /\ b.pendingBatches = batches[c].pendingBatches /\ b.wait = batches[c].wait
    BY <1>1 DEF Batch, WithError
<1>3. /\ outstanding' = [outstanding EXCEPT ![c] = @ \ {i}]
      /\ UNCHANGED <<keys, outcome, result, oddAnswer>>
      /\ batches' = [batches EXCEPT ![c] = Counted(b)]
    BY <1>1 DEF HandleError
<1>4. oddAnswer' \in [Calls -> BOOLEAN]
    BY <1>3 DEF BatcherIInv, TypeOK
<1> HIDE DEF b
<1> QED BY <1>2, <1>3, <1>4, HandledStep, Zenon

\* An answer of the size asked for fills its slice and no other slot.
LEMMA CopiedFacts ==
    ASSUME NEW n \in 0 .. MaxKeys, NEW i \in BatchIndexes(n), NEW r \in Response(n),
           NEW size \in Nat, size + i =< n
    PROVE  /\ Copied(r, n, i, size) \in Response(n)
           /\ size = BatchRequestSize(n, i) =>
                 \A k \in 0 .. n - 1 :
                    Copied(r, n, i, size)[k] = IF k \in i .. i + BatchSize - 1 THEN k ELSE r[k]
<1>1. /\ n \in Nat /\ i \in Nat /\ i < n
      /\ DOMAIN r = 0 .. n - 1
      /\ i .. i + size - 1 \subseteq 0 .. n - 1
      /\ n =< MaxKeys
    BY MaxKeysAssumption DEF BatchIndexes, Response
<1>2. Copied(r, n, i, size) \in Response(n)
    BY <1>1, MaxKeysAssumption DEF Copied, Response
<1>3. ASSUME size = BatchRequestSize(n, i), NEW k \in 0 .. n - 1
      PROVE  Copied(r, n, i, size)[k] = IF k \in i .. i + BatchSize - 1 THEN k ELSE r[k]
    BY <1>1, <1>3, BatchSizeAssumption DEF Copied, BatchRequestSize
<1> QED BY <1>2, <1>3

LEMMA HandleAnswerStep ==
    ASSUME BatcherIInv, NEW c \in Calls, NEW i \in outstanding[c], NEW size \in 0 .. MaxKeys,
           HandleAnswer(c, i, size)
    PROVE  BatcherIInv'
<1> DEFINE n == keys[c]
           r == batches[c].response
           e == WithError(batches[c])
           f == WithAnswer(batches[c], n, i, size)
<1>1. /\ c \in DOMAIN batches /\ batches[c] \in Batch(n)
      /\ n \in 0 .. MaxKeys /\ n \in Nat /\ i \in BatchIndexes(n) /\ size \in Nat
    BY MaxKeysAssumption DEF BatcherIInv, PendingCounted, TypeOK
<1>2. /\ outstanding' = [outstanding EXCEPT ![c] = @ \ {i}]
      /\ UNCHANGED <<keys, outcome, result>>
      /\ oddAnswer' = [oddAnswer EXCEPT ![c] = @ \/ size # BatchRequestSize(n, i)]
    BY DEF HandleAnswer
<1>3. /\ oddAnswer' \in [Calls -> BOOLEAN]
      /\ \A d \in Calls \ {c} : oddAnswer'[d] = oddAnswer[d]
      /\ oddAnswer[c] => oddAnswer'[c]
      /\ ~oddAnswer'[c] => ~oddAnswer[c] /\ size = BatchRequestSize(n, i)
    BY <1>2, Zenon DEF BatcherIInv, TypeOK
<1>4. r \in Response(n) /\ DOMAIN r = 0 .. n - 1
    BY <1>1 DEF Batch, Response
<1>5. Cardinality(DOMAIN r) = n
  <2>1. n - 1 \in Int /\ 0 \in Int /\ (IF 0 > n - 1 THEN 0 ELSE n - 1 - 0 + 1) = n
      BY <1>1
  <2>2. Cardinality(0 .. n - 1) = IF 0 > n - 1 THEN 0 ELSE n - 1 - 0 + 1
      BY <2>1, FS_Interval
  <2> QED BY <1>4, <2>1, <2>2
<1>6. CASE size + i > n
  <2>1. /\ e \in Batch(n) /\ e.error
        /\ e.pendingBatches = batches[c].pendingBatches /\ e.wait = batches[c].wait
      BY <1>1 DEF Batch, WithError
  <2>2. batches' = [batches EXCEPT ![c] = Counted(e)]
      BY <1>1, <1>5, <1>6 DEF HandleAnswer
  <2> HIDE DEF e
  <2> QED BY <1>2, <1>3, <2>1, <2>2, HandledStep, Zenon
<1>7. CASE ~(size + i > n)
  <2>1. size + i =< n
      BY <1>1, <1>7 DEF BatchIndexes
  <2>2. /\ Copied(r, n, i, size) \in Response(n)
        /\ size = BatchRequestSize(n, i) =>
              \A k \in 0 .. n - 1 :
                 Copied(r, n, i, size)[k] = IF k \in i .. i + BatchSize - 1 THEN k ELSE r[k]
      BY <1>1, <1>4, <2>1, CopiedFacts
  <2>3. /\ f \in Batch(n) /\ f.response = Copied(r, n, i, size)
        /\ f.pendingBatches = batches[c].pendingBatches /\ f.wait = batches[c].wait
      BY <1>1, <2>2 DEF Batch, WithAnswer
  <2>4. f.error = batches[c].error
      BY <1>1, Zenon DEF Batch, WithAnswer
  <2>5. batches' = [batches EXCEPT ![c] = Counted(f)]
      BY <1>1, <1>5, <1>7 DEF HandleAnswer
  <2>6. \/ f.error \/ oddAnswer'[c]
        \/ \A k \in 0 .. n - 1 :
              f.response[k] = k \/ \E j \in outstanding[c] \ {i} : k \in j .. j + BatchSize - 1
    <3> SUFFICES ASSUME ~f.error, ~oddAnswer'[c], NEW k \in 0 .. n - 1
                 PROVE  f.response[k] = k \/
                        \E j \in outstanding[c] \ {i} : k \in j .. j + BatchSize - 1
        BY Zenon
    <3>1. r[k] = k \/ \E j \in outstanding[c] : k \in j .. j + BatchSize - 1
      <4>1. ~batches[c].error /\ ~oddAnswer[c]
          BY <1>3, <2>4, Zenon
      <4> QED BY <1>1, <4>1, Zenon DEF BatcherIInv, FilledSoFar
    <3>2. f.response[k] = IF k \in i .. i + BatchSize - 1 THEN k ELSE r[k]
        BY <1>3, <2>2, <2>3, Zenon
    <3> QED BY <3>1, <3>2, Zenon
  <2> HIDE DEF f
  <2> QED BY <1>2, <1>3, <2>3, <2>5, <2>6, HandledStep, Zenon
<1> QED BY <1>6, <1>7

LEMMA ExpireStep ==
    ASSUME BatcherIInv, NEW c \in Calls, Expire(c)
    PROVE  BatcherIInv'
<1> USE DEF BatcherIInv
<1>1. /\ c \in DOMAIN batches
      /\ DOMAIN batches' = DOMAIN batches
      /\ batches'[c] = [batches[c] EXCEPT !.wait = "timedOut"]
      /\ \A d \in DOMAIN batches \ {c} : batches'[d] = batches[d]
      /\ UNCHANGED <<keys, outstanding, outcome, result, oddAnswer>>
    BY DEF Expire
<1>2. /\ batches'[c] \in Batch(keys[c])
      /\ batches'[c].pendingBatches = batches[c].pendingBatches
      /\ batches'[c].wait = "timedOut"
      /\ batches'[c].response = batches[c].response
  <2>1. batches[c] \in Batch(keys[c])
      BY <1>1 DEF TypeOK
  <2> QED BY <1>1, <2>1 DEF Batch
<1>3. batches'[c].error = batches[c].error
  <2>1. batches[c] \in Batch(keys[c])
      BY <1>1 DEF TypeOK
  <2> QED BY <1>1, <2>1, Zenon DEF Batch
<1>4. TypeOK'
    BY <1>1, <1>2 DEF TypeOK
<1>5. PendingCounted'
    BY <1>1, <1>2 DEF PendingCounted
<1>6. FilledSoFar'
    BY <1>1, <1>2, <1>3, Zenon DEF FilledSoFar
<1>7. ReturnedComplete'
    BY <1>1 DEF ReturnedComplete
<1> QED BY <1>4, <1>5, <1>6, <1>7

LEMMA ResumeStep ==
    ASSUME BatcherIInv, NEW c \in Calls, Resume(c)
    PROVE  BatcherIInv'
<1> USE DEF BatcherIInv
<1>1. /\ c \in DOMAIN batches
      /\ outstanding[c] = {}
      /\ outcome[c] = "waiting" \/ outcome[c] = "timedOut"
      /\ DOMAIN batches' = DOMAIN batches \ {c}
      /\ \A d \in DOMAIN batches \ {c} : batches'[d] = batches[d]
      /\ UNCHANGED <<keys, outstanding, oddAnswer>>
      /\ batches[c].response \in Response(keys[c])
    BY DEF Resume, Without, PendingCounted, TypeOK, Batch
<1>2. \/ /\ outcome' = [outcome EXCEPT ![c] = "error"]
         /\ UNCHANGED result
      \/ /\ outcome' = [outcome EXCEPT ![c] = "ok"]
         /\ result' = [result EXCEPT ![c] = batches[c].response]
         /\ ~batches[c].error
    BY Zenon DEF Resume
<1>3. TypeOK'
    BY <1>1, <1>2 DEF TypeOK
<1>4. PendingCounted'
    BY <1>1, <1>2 DEF PendingCounted, TypeOK
<1>5. FilledSoFar'
    BY <1>1 DEF FilledSoFar
<1>6. ReturnedComplete'
  <2>1. ASSUME NEW d \in Calls \ {c}
        PROVE  outcome'[d] = outcome[d] /\ result'[d] = result[d]
      BY <1>2 DEF TypeOK
  <2>2. outcome'[c] = "ok" /\ ~oddAnswer[c] => \A k \in 0 .. keys[c] - 1 : result'[c][k] = k
    <3> SUFFICES ASSUME outcome'[c] = "ok", ~oddAnswer[c], NEW k \in 0 .. keys[c] - 1
                 PROVE  result'[c][k] = k
        OBVIOUS
    <3>1. result'[c] = batches[c].response /\ ~batches[c].error
        BY <1>2 DEF TypeOK
    <3>2. batches[c].response[k] = k
        BY <1>1, <3>1, Zenon DEF FilledSoFar
    <3> QED BY <3>1, <3>2
  <2> QED BY <1>1, <2>1, <2>2 DEF ReturnedComplete
<1> QED BY <1>3, <1>4, <1>5, <1>6

LEMMA ResumeTimedOutStep ==
    ASSUME BatcherIInv, NEW c \in Calls, ResumeTimedOut(c)
    PROVE  BatcherIInv'
<1>1. /\ outcome[c] = "waiting" /\ outcome' = [outcome EXCEPT ![c] = "timedOut"]
      /\ UNCHANGED <<batches, keys, outstanding, result, oddAnswer>>
    BY DEF ResumeTimedOut
<1> QED BY <1>1 DEF BatcherIInv, TypeOK, PendingCounted, FilledSoFar, ReturnedComplete

LEMMA NextBatcherIInv == BatcherIInv /\ [Next]_vars => BatcherIInv'
<1> SUFFICES ASSUME BatcherIInv, [Next]_vars PROVE BatcherIInv'
    OBVIOUS
<1>1. CASE UNCHANGED vars
    BY <1>1 DEF vars, BatcherIInv, TypeOK, PendingCounted, FilledSoFar, ReturnedComplete
<1>2. ASSUME NEW c \in Calls, NEW n \in 0 .. MaxKeys, GetMultipleAccounts(c, n) PROVE BatcherIInv'
    BY <1>2, GetMultipleAccountsStep
<1>3. ASSUME NEW c \in Calls, NEW i \in outstanding[c],
             HandleError(c, i) \/ \E size \in 0 .. MaxKeys : HandleAnswer(c, i, size)
      PROVE  BatcherIInv'
    BY <1>3, HandleErrorStep, HandleAnswerStep
<1>4. ASSUME NEW c \in Calls, Expire(c) \/ Resume(c) \/ ResumeTimedOut(c) PROVE BatcherIInv'
    BY <1>4, ExpireStep, ResumeStep, ResumeTimedOutStep
<1> QED BY <1>1, <1>2, <1>3, <1>4 DEF Next

\* The inductive invariant holds for any calls, keys and size of batch.
THEOREM Invariance == Spec => []BatcherIInv
BY InitBatcherIInv, NextBatcherIInv, PTL DEF Spec

\* The type invariant: no answer is copied past the end of a response.
THEOREM TypeCorrect == Spec => []TypeOK
BY Invariance, PTL DEF BatcherIInv

\* The counter that lldiv starts, and that the handlers count down, is at any time
\* the number of requests not handled yet.
THEOREM CounterExact == Spec => []PendingCounted
BY Invariance, PTL DEF BatcherIInv

\* The slices a call returns are complete and in place, in any order of the answers.
THEOREM ResponsesComplete == Spec => []ReturnedComplete
BY Invariance, PTL DEF BatcherIInv

-----------------------------------------------------------------------------
\* Callers that wait for the data.

CallStates == {"none", "checked", "waiting", "aborted", "expired", "data", "timedOut", "unable"}

\* Every step keeps the types.
LEMMA RefStepTypes == RefTypeOK /\ [RefNext]_refVars => RefTypeOK'
<1> SUFFICES ASSUME RefTypeOK, [RefNext]_refVars PROVE RefTypeOK'
    OBVIOUS
<1>1. \A k \in RefClients : call[k] \in [Callers[k] -> CallStates]
    BY DEF RefTypeOK, CallStates
<1>2. ASSUME NEW k \in RefClients, NEW how \in CallStates
      PROVE  EndWaits(k, how) \in [Callers[k] -> CallStates]
    BY <1>1 DEF EndWaits
<1>3. ASSUME NEW k \in RefClients, NEW calls \in [Callers[k] -> CallStates],
             call' = [call EXCEPT ![k] = calls],
             isInitialized' \in [RefClients -> BOOLEAN],
             expiryTimer' \in [RefClients -> {"armed", "expired"}]
      PROVE  RefTypeOK'
    BY <1>1, <1>3 DEF RefTypeOK, CallStates
<1>4. ASSUME NEW k \in RefClients, NEW a \in Callers[k], NEW new \in CallStates,
             call' = [call EXCEPT ![k][a] = new], UNCHANGED <<isInitialized, expiryTimer>>
      PROVE  RefTypeOK'
  <2>1. [call[k] EXCEPT ![a] = new] \in [Callers[k] -> CallStates]
      BY <1>1
  <2>2. call' = [call EXCEPT ![k] = [call[k] EXCEPT ![a] = new]]
      BY <1>4
  <2> QED BY <2>1, <2>2, <1>3, <1>4 DEF RefTypeOK
<1>5. CASE UNCHANGED refVars
    BY <1>5 DEF refVars, RefTypeOK
<1>6. ASSUME NEW k \in RefClients, DeadlinePasses(k) PROVE RefTypeOK'
    BY <1>2, <1>3, <1>6 DEF DeadlinePasses, RefTypeOK, CallStates
<1>7. ASSUME NEW k \in RefClients, Loaded(k) PROVE RefTypeOK'
    BY <1>2, <1>3, <1>7 DEF Loaded, RefTypeOK, CallStates
<1>8. ASSUME NEW k \in RefClients, LoadFails(k) PROVE RefTypeOK'
    BY <1>8, <1>5 DEF LoadFails
<1>9. ASSUME NEW k \in RefClients, NEW a \in Callers[k], GetReferenceData(k, a) PROVE RefTypeOK'
    BY <1>4, <1>9 DEF GetReferenceData, CallStates
<1>10. ASSUME NEW k \in RefClients, NEW a \in Callers[k], WaitForData(k, a) PROVE RefTypeOK'
    BY <1>4, <1>10 DEF WaitForData, CallStates
<1>11. ASSUME NEW k \in RefClients, NEW a \in Callers[k], CallerResumes(k, a) PROVE RefTypeOK'
  <2>1. PICK new \in CallStates : call' = [call EXCEPT ![k][a] = new]
      BY <1>11 DEF CallerResumes, CallStates
  <2>2. UNCHANGED <<isInitialized, expiryTimer>>
      BY <1>11 DEF CallerResumes
  <2> QED BY <1>4, <2>1, <2>2
<1> QED BY <1>5, <1>6, <1>7, <1>8, <1>9, <1>10, <1>11 DEF RefNext, CallerGoesOn

-----------------------------------------------------------------------------
\* The loads of both clients.

\* Who has data has them of a client that has loaded them.
DataIsLoaded ==
    \A k \in RefClients : \A a \in Callers[k] : call[k][a] = "data" => isInitialized[k] = TRUE

SerumPlaces == {"markets", "mints", "done", "failed"}
GroupPlaces == {"rootBanks", "openOrders", "nodeBanks", "done"}
MangoPlaces == {"serum", "account", "group", "cache", "failed"} \cup GroupPlaces

\* The Mango client goes on when the Serum client is done.
LoadsOrdered ==
    /\ DOMAIN loading = RefClients
    /\ loading["serum"] \in SerumPlaces /\ loading["mango"] \in MangoPlaces
    /\ isInitialized["serum"] = TRUE => loading["serum"] = "done"
    /\ loading["mango"] \notin {"serum", "failed"} => loading["serum"] = "done"

\* What was found in the configuration and in the group, and when.
LookedUp ==
    /\ loading["serum"] \in {"mints", "done"} =>
          \A p \in DOMAIN Markets :
             /\ serum[p].base \in DOMAIN Mints /\ Mints[serum[p].base] = serum[p].account.base
             /\ serum[p].quote \in DOMAIN Mints /\ Mints[serum[p].quote] = serum[p].account.quote
    /\ loading["mango"] \in {"cache"} \cup GroupPlaces => mangoGroup \in MangoGroups
    /\ loading["mango"] \in GroupPlaces =>
          currencyIndex = [i \in DOMAIN Mints |-> Find(mangoGroup.tokens, Mints[i])]
    /\ loading["mango"] = "done" =>
          \A p \in DOMAIN Markets :
             /\ 0 \notin {GroupIndexes(p).pair, GroupIndexes(p).base, GroupIndexes(p).quote}
             /\ mango[p].indexes = GroupIndexes(p)

MangoIInv == DataIsLoaded /\ LoadsOrdered /\ LookedUp /\ IndexesAgree

\* The clients use the batcher as it is specified.
LEMMA StepOfBatcher ==
    TypeOK /\ [MangoNext]_allVars => [Next]_vars
<1> SUFFICES ASSUME TypeOK, [MangoNext]_allVars PROVE [Next]_vars
    OBVIOUS
<1>1. Len(Markets) \in 0 .. MaxKeys /\ Len(Mints) \in 0 .. MaxKeys
    BY ConfigurationAssumption, MaxKeysAssumption
<1>2. ASSUME NEW c \in Calls, NEW i, HandleAnswer(c, i, BatchRequestSize(keys[c], i))
      PROVE  i \in outstanding[c] /\ BatchRequestSize(keys[c], i) \in 0 .. MaxKeys
  <2>1. i \in outstanding[c] /\ keys[c] \in 0 .. MaxKeys /\ outstanding[c] \subseteq BatchIndexes(keys[c])
      BY <1>2 DEF HandleAnswer, TypeOK
  <2>2. i \in 0 .. keys[c] - 1
      BY <2>1 DEF BatchIndexes
  <2> QED BY <2>1, <2>2, MaxKeysAssumption, BatchSizeAssumption DEF BatchRequestSize
<1>3. \A c, i, size : HandleError(c, i) \/ HandleAnswer(c, i, size) => i \in outstanding[c]
    BY DEF HandleError, HandleAnswer
<1>4. ASSUME RpcAnswers PROVE Next
  <2>1. CASE \E c \in Calls, i \in 0 .. MaxKeys - 1 :
                HandleError(c, i) \/ HandleAnswer(c, i, BatchRequestSize(keys[c], i))
      BY <1>2, <1>3, <2>1 DEF Next
  <2>2. CASE \E i \in 0 .. MaxKeys - 1, size \in 0 .. MaxKeys : HandleAnswer(OtherCall, i, size)
      BY <1>3, <2>2, LoadersAssumption DEF Next
  <2> QED BY <1>4, <2>1, <2>2 DEF RpcAnswers
<1>5. ASSUME Environment PROVE [Next]_vars
    BY <1>4, <1>5, LoadersAssumption DEF Environment, OtherClientCalls, OthersKept, Next
<1>6. CASE SerumLoads
    BY <1>1, <1>6, LoadersAssumption
       DEF SerumLoads, RequestAccounts, SerumMarketsLoaded, SerumMintsLoaded, AccountsFail, AccountsArrive, Next
<1>7. CASE MangoLoads
    BY <1>1, <1>7, LoadersAssumption
       DEF MangoLoads, AskForSerumData, SerumDataArrives, AccountLoaded, GroupLoaded, GetAccountThrows, CacheLoaded,
           RequestAccounts, AccountsFail, RootBanksLoaded, OpenOrdersLoaded, NodeBanksLoaded,
           AccountsArrive, Next
<1>8. CASE ProgramStep
    BY <1>6, <1>7, <1>8, LoadersAssumption
       DEF ProgramStep, OtherClientResumes, BatchExpires, OthersKept, Next
<1> QED BY <1>5, <1>8 DEF MangoNext, allVars

\* and wait for each other as it is specified too.
LEMMA StepOfCallers == [MangoNext]_allVars => [RefNext]_refVars
<1> SUFFICES ASSUME [MangoNext]_allVars PROVE [RefNext]_refVars
    OBVIOUS
<1>1. "serum" \in RefClients /\ "mango" \in RefClients /\ MangoCaller \in Callers["serum"]
    BY LoadersAssumption
<1>2. CASE Environment
    BY <1>2 DEF Environment, RpcAnswers, OtherClientCalls, RefNext
<1>3. CASE SerumLoads
    BY <1>1, <1>3
       DEF SerumLoads, RequestAccounts, SerumMarketsLoaded, SerumMintsLoaded, AccountsFail, Stops, GoesOn,
           Finishes, RefNext
<1>4. CASE MangoLoads
    BY <1>1, <1>4
       DEF MangoLoads, AskForSerumData, SerumDataArrives, AccountLoaded, GroupLoaded, GetAccountThrows, CacheLoaded,
           RequestAccounts, AccountsFail, RootBanksLoaded, OpenOrdersLoaded, NodeBanksLoaded, Stops, GoesOn,
           Finishes, RefNext
<1>5. CASE ProgramStep
    BY <1>3, <1>4, <1>5
       DEF ProgramStep, OtherClientResumes, BatchExpires, RefNext
<1> QED BY <1>2, <1>5 DEF MangoNext, allVars

\* The batcher serves both clients and another as it serves any: each of its properties
\* holds of the whole.
THEOREM BatcherAsSpecified == MangoSpec => Init /\ [][Next]_vars /\ []BatcherIInv
<1>1. MangoInit => Init
    BY DEF MangoInit, SerumInit
<1>2. BatcherIInv /\ [MangoNext]_allVars => [Next]_vars
    BY StepOfBatcher DEF BatcherIInv
<1> QED BY <1>1, <1>2, InitBatcherIInv, NextBatcherIInv, PTL DEF MangoSpec

THEOREM MangoCounterExact == MangoSpec => []PendingCounted
BY BatcherAsSpecified, PTL DEF BatcherIInv

THEOREM MangoResponsesComplete == MangoSpec => []ReturnedComplete
BY BatcherAsSpecified, PTL DEF BatcherIInv

\* The loads of both clients implement the waiting for data that all clients share.
THEOREM CallersAsSpecified == MangoSpec => RefSpec
<1>1. MangoInit => RefInit
    BY DEF MangoInit, SerumInit
<1> QED BY <1>1, StepOfCallers, PTL DEF MangoSpec, RefSpec

-----------------------------------------------------------------------------
\* What find_if finds in the configuration or in the group.
LEMMA FindFacts ==
    ASSUME NEW S, NEW s \in Seq(S), NEW x, Find(s, x) # 0
    PROVE  Find(s, x) \in DOMAIN s /\ s[Find(s, x)] = x
<1> DEFINE I == {i \in 1 .. Len(s) : s[i] = x}
<1>1. Find(s, x) = IF I # {} THEN Min(I) ELSE 0
    BY DEF Find, SelectInSeq
<1>2. I \in SUBSET Nat
    OBVIOUS
<1>3. I # {} => Min(I) \in I
  <2> HIDE DEF I
  <2> QED BY <1>2, MinIsLeast
<1> QED BY <1>1, <1>3

LEMMA ListsTyped ==
    ASSUME mangoGroup \in MangoGroups
    PROVE  /\ Markets \in Seq(STRING) /\ Mints \in Seq(STRING)
           /\ mangoGroup.tokens \in Seq(STRING) /\ mangoGroup.spotMarkets \in Seq(STRING)
BY LoadersAssumption

\* What the steps of the clients together do to the loads.
SerumFails ==
    /\ loading["serum"] \in {"markets", "mints"} /\ loading' = [loading EXCEPT !["serum"] = "failed"]
    /\ UNCHANGED <<serum, mangoVars, isInitialized>>
MangoFails ==
    /\ loading' = [loading EXCEPT !["mango"] = "failed"]
    /\ UNCHANGED <<serum, mangoVars, isInitialized>>
MangoGoesOn ==
    /\ \/ /\ loading["mango"] = "serum" /\ call["serum"][MangoCaller] = "data"
          /\ loading' = [loading EXCEPT !["mango"] = "account"]
       \/ /\ loading["mango"] = "rootBanks" /\ loading' = [loading EXCEPT !["mango"] = "openOrders"]
       \/ /\ loading["mango"] = "openOrders" /\ loading' = [loading EXCEPT !["mango"] = "nodeBanks"]
    /\ UNCHANGED <<serum, mangoVars, isInitialized>>

LEMMA StepOfLoads ==
    [MangoNext]_allVars =>
       \/ UNCHANGED <<serumVars, mangoVars, isInitialized>>
       \/ SerumFails
       \/ SerumMarketsLoaded /\ UNCHANGED mangoVars
       \/ SerumMintsLoaded /\ UNCHANGED mangoVars
       \/ MangoFails \/ MangoGoesOn \/ AccountLoaded \/ GroupLoaded \/ CacheLoaded \/ NodeBanksLoaded
<1> DEFINE Goal ==
       \/ UNCHANGED <<serumVars, mangoVars, isInitialized>>
       \/ SerumFails
       \/ SerumMarketsLoaded /\ UNCHANGED mangoVars
       \/ SerumMintsLoaded /\ UNCHANGED mangoVars
       \/ MangoFails \/ MangoGoesOn \/ AccountLoaded \/ GroupLoaded \/ CacheLoaded \/ NodeBanksLoaded
<1> SUFFICES ASSUME [MangoNext]_allVars PROVE Goal
    OBVIOUS
<1>1. CASE Environment
    BY <1>1 DEF Environment, RpcAnswers, OtherClientCalls, OthersKept, MangoKept, refVars, GetReferenceData
<1>2. CASE SerumLoads /\ MangoKept
    BY <1>2 DEF SerumLoads, RequestAccounts, AccountsFail, LoadFails, MangoKept, SerumFails, refVars
<1>3. CASE MangoLoads
  <2>1. AskForSerumData => Goal
      BY DEF AskForSerumData, GetReferenceData
  <2>2. SerumDataArrives => Goal
      BY DEF SerumDataArrives, GoesOn, Stops, LoadFails, MangoGoesOn, MangoFails, refVars
  <2>4. GetAccountThrows => Goal
      BY DEF GetAccountThrows, Stops, LoadFails, MangoFails, refVars
  <2>5. \A c, n : RequestAccounts("mango", c, n) /\ UNCHANGED mangoVars => Goal
      BY DEF RequestAccounts, refVars
  <2>6. \A c : AccountsFail("mango", c) /\ UNCHANGED mangoVars => Goal
      BY DEF AccountsFail, LoadFails, MangoFails, refVars
  <2>7. RootBanksLoaded => Goal
      BY DEF RootBanksLoaded, AccountsArrive, GoesOn, Stops, LoadFails, MangoGoesOn, MangoFails, refVars
  <2>8. OpenOrdersLoaded => Goal
      BY DEF OpenOrdersLoaded, AccountsArrive, GoesOn, MangoGoesOn, refVars
  <2> HIDE DEF Goal
  <2>9. AccountLoaded \/ GroupLoaded \/ CacheLoaded \/ NodeBanksLoaded => Goal
      BY DEF Goal
  <2> QED BY <1>3, <2>1, <2>2, <2>4, <2>5, <2>6, <2>7, <2>8, <2>9 DEF MangoLoads
<1>4. CASE ProgramStep
  <2>1. CASE (OtherClientResumes \/ (\E c \in Calls : BatchExpires(c))) /\ MangoKept
      BY <2>1 DEF OtherClientResumes, BatchExpires, MangoKept, refVars
  <2>2. CASE /\ \E k \in RefClients : DeadlinePasses(k) \/ \E a \in Callers[k] : CallerGoesOn(k, a)
             /\ OthersKept
      BY <2>2 DEF OthersKept, DeadlinePasses, CallerGoesOn, WaitForData, CallerResumes
  <2> HIDE DEF Goal
  <2> QED BY <1>2, <1>3, <1>4, <2>1, <2>2 DEF ProgramStep
<1>5. CASE UNCHANGED allVars
    BY <1>5 DEF allVars, refVars
<1> QED BY <1>1, <1>4, <1>5 DEF MangoNext

\* Data are given to callers only when they are loaded, and never taken back.
LEMMA DataIsLoadedStep ==
    ASSUME RefTypeOK, DataIsLoaded, [RefNext]_refVars
    PROVE  DataIsLoaded' /\ \A k \in RefClients : isInitialized[k] = TRUE => isInitialized'[k] = TRUE
<1>1. /\ isInitialized \in [RefClients -> BOOLEAN] /\ DOMAIN call = RefClients
      /\ \A k \in RefClients : DOMAIN call[k] = Callers[k]
    BY DEF RefTypeOK
<1>2. \A k \in RefClients : isInitialized[k] = TRUE => isInitialized'[k] = TRUE
    BY <1>1 DEF RefNext, refVars, DeadlinePasses, Loaded, LoadFails, GetReferenceData, CallerGoesOn,
                WaitForData, CallerResumes
<1>3. ASSUME NEW k \in RefClients, NEW a \in Callers[k], call'[k][a] = "data"
      PROVE  call[k][a] = "data" \/ isInitialized[k]
  <2>1. ASSUME NEW l \in RefClients, DeadlinePasses(l) \/ Loaded(l) PROVE call[k][a] = "data"
      BY <1>1, <1>3, <2>1 DEF DeadlinePasses, Loaded, EndWaits
  <2>2. ASSUME NEW l \in RefClients, NEW b \in Callers[l],
               GetReferenceData(l, b) \/ WaitForData(l, b) \/ CallerResumes(l, b)
        PROVE  call[k][a] = "data" \/ isInitialized[k]
    <3>1. CASE k = l /\ a = b
      <4>1. CASE GetReferenceData(l, b)
          BY <1>1, <1>3, <3>1, <4>1 DEF GetReferenceData
      <4>2. CASE WaitForData(l, b)
          BY <1>1, <1>3, <3>1, <4>2 DEF WaitForData
      <4>3. CASE CallerResumes(l, b)
          BY <1>1, <1>3, <3>1, <4>3 DEF CallerResumes
      <4> QED BY <2>2, <4>1, <4>2, <4>3
    <3>2. CASE ~(k = l /\ a = b)
      <4>1. \E new : call' = [call EXCEPT ![l] = [call[l] EXCEPT ![b] = new]]
          BY <2>2 DEF GetReferenceData, WaitForData, CallerResumes
      <4> QED BY <1>1, <1>3, <3>2, <4>1
    <3> QED BY <3>1, <3>2
  <2>3. CASE UNCHANGED call
      BY <1>3, <2>3
  <2> QED BY <2>1, <2>2, <2>3 DEF RefNext, refVars, LoadFails, CallerGoesOn
<1>4. \A k \in RefClients : isInitialized[k] => isInitialized[k] = TRUE
    BY <1>1
<1> QED BY <1>2, <1>3, <1>4 DEF DataIsLoaded

LEMMA MangoInitially == MangoInit => MangoIInv
<1> SUFFICES ASSUME MangoInit PROVE MangoIInv
    OBVIOUS
<1>1. /\ isInitialized = [k \in RefClients |-> FALSE]
      /\ call = [k \in RefClients |-> [a \in Callers[k] |-> "none"]]
      /\ loading = [k \in RefClients |-> IF k = "serum" THEN "markets" ELSE "serum"]
    BY DEF MangoInit, SerumInit, RefInit
<1>2. "serum" \in RefClients /\ "mango" \in RefClients
    BY LoadersAssumption
<1>3. loading["serum"] = "markets" /\ loading["mango"] = "serum" /\ DOMAIN loading = RefClients
    BY <1>1, <1>2
<1>4. DataIsLoaded
    BY <1>1 DEF DataIsLoaded
<1>5. isInitialized["serum"] = FALSE
    BY <1>1, <1>2
<1>6. LoadsOrdered
    BY <1>3, <1>5 DEF LoadsOrdered, SerumPlaces, MangoPlaces
<1>7. LookedUp /\ IndexesAgree
    BY <1>1, <1>3 DEF LookedUp, IndexesAgree, GroupPlaces
<1> QED BY <1>4, <1>6, <1>7 DEF MangoIInv

LEMMA LoadsStep ==
    ASSUME RefTypeOK, DataIsLoaded, LoadsOrdered, LookedUp, [MangoNext]_allVars
    PROVE  LoadsOrdered' /\ LookedUp'
<1>1. /\ "serum" \in RefClients /\ "mango" \in RefClients /\ MangoCaller \in Callers["serum"]
      /\ DOMAIN loading = RefClients
      /\ isInitialized \in [RefClients -> BOOLEAN]
    BY LoadersAssumption DEF LoadsOrdered, RefTypeOK
<1>2. \A p \in DOMAIN Markets :
         mangoGroup' = mangoGroup /\ serum' = serum => GroupIndexes(p)' = GroupIndexes(p)
    BY DEF GroupIndexes
<1> USE DEF SerumPlaces, MangoPlaces, GroupPlaces
<1>3. CASE UNCHANGED <<serumVars, mangoVars, isInitialized>>
    BY <1>2, <1>3 DEF serumVars, mangoVars, LoadsOrdered, LookedUp
<1>4. CASE SerumFails
  <2>1. /\ loading'["serum"] = "failed" /\ loading'["mango"] = loading["mango"]
        /\ loading["mango"] \in {"serum", "failed"} /\ isInitialized["serum"] # TRUE
        /\ DOMAIN loading' = RefClients /\ isInitialized' = isInitialized
      BY <1>1, <1>4 DEF SerumFails, LoadsOrdered
  <2> QED BY <2>1 DEF LoadsOrdered, LookedUp
<1>5. CASE MangoFails
  <2>1. /\ loading'["mango"] = "failed" /\ loading'["serum"] = loading["serum"]
        /\ DOMAIN loading' = RefClients
        /\ serum' = serum /\ isInitialized' = isInitialized
      BY <1>1, <1>5 DEF MangoFails
  <2> QED BY <2>1 DEF LoadsOrdered, LookedUp
<1>6. CASE MangoGoesOn
  <2>1. /\ loading'["serum"] = loading["serum"] /\ DOMAIN loading' = RefClients
        /\ loading'["mango"] \in {"account", "openOrders", "nodeBanks"}
        /\ loading'["mango"] # "account" => loading["mango"] \in GroupPlaces
        /\ serum' = serum /\ mangoGroup' = mangoGroup /\ currencyIndex' = currencyIndex
        /\ isInitialized' = isInitialized
      BY <1>1, <1>6 DEF MangoGoesOn, mangoVars
  <2>2. loading["serum"] = "done"
      BY <1>1, <1>6 DEF MangoGoesOn, LoadsOrdered, DataIsLoaded
  <2> QED BY <2>1, <2>2 DEF LoadsOrdered, LookedUp
<1>7. CASE SerumMarketsLoaded /\ UNCHANGED mangoVars
  <2>1. loading["serum"] = "markets" /\ isInitialized["serum"] # TRUE
        /\ loading["mango"] \in {"serum", "failed"}
      BY <1>7 DEF SerumMarketsLoaded, AccountsArrive, LoadsOrdered
  <2>2. isInitialized' = isInitialized
      BY <1>7 DEF SerumMarketsLoaded, Stops, LoadFails, GoesOn, refVars
  <2>3. PICK account \in MarketAccounts :
          \/ loading' = [loading EXCEPT !["serum"] = "failed"]
          \/ /\ loading' = [loading EXCEPT !["serum"] = "mints"]
             /\ serum' = [p \in DOMAIN Markets |->
                            [account |-> account[Markets[p]],
                             base |-> Find(Mints, account[Markets[p]].base),
                             quote |-> Find(Mints, account[Markets[p]].quote)]]
             /\ \A p \in DOMAIN Markets : /\ Find(Mints, account[Markets[p]].base) # 0
                                          /\ Find(Mints, account[Markets[p]].quote) # 0
      BY <1>7 DEF SerumMarketsLoaded, Stops, GoesOn
  <2>4. CASE loading' = [loading EXCEPT !["serum"] = "failed"]
      BY <1>1, <2>1, <2>2, <2>4 DEF LoadsOrdered, LookedUp
  <2>5. CASE loading' = [loading EXCEPT !["serum"] = "mints"]
    <3>1. loading'["serum"] = "mints" /\ loading'["mango"] = loading["mango"] /\ DOMAIN loading' = RefClients
        BY <1>1, <2>5
    <3>2. ASSUME NEW p \in DOMAIN Markets
          PROVE  /\ serum'[p].base \in DOMAIN Mints /\ Mints[serum'[p].base] = serum'[p].account.base
                 /\ serum'[p].quote \in DOMAIN Mints /\ Mints[serum'[p].quote] = serum'[p].account.quote
      <4>1. /\ serum'[p].account = account[Markets[p]]
            /\ serum'[p].base = Find(Mints, account[Markets[p]].base) /\ serum'[p].base # 0
            /\ serum'[p].quote = Find(Mints, account[Markets[p]].quote) /\ serum'[p].quote # 0
          BY <1>1, <2>3, <3>1
      <4> QED BY <4>1, FindFacts, LoadersAssumption
    <3> QED BY <2>1, <2>2, <3>1, <3>2 DEF LoadsOrdered, LookedUp
  <2> QED BY <2>3, <2>4, <2>5
<1>8. CASE SerumMintsLoaded /\ UNCHANGED mangoVars
  <2>1. /\ loading["serum"] = "mints" /\ loading' = [loading EXCEPT !["serum"] = "done"]
        /\ serum' = serum
        /\ loading["mango"] \in {"serum", "failed"}
      BY <1>8 DEF SerumMintsLoaded, AccountsArrive, Finishes, LoadsOrdered
  <2> QED BY <1>1, <2>1 DEF LoadsOrdered, LookedUp
<1>9. CASE AccountLoaded \/ GroupLoaded
  <2>1. /\ loading["mango"] \in {"account", "group"} /\ serum' = serum /\ isInitialized' = isInitialized
        /\ \/ loading' = [loading EXCEPT !["mango"] = "group"]
           \/ loading' = [loading EXCEPT !["mango"] = "cache"] /\ mangoGroup' \in MangoGroups
      BY <1>9 DEF AccountLoaded, GroupLoaded, GoesOn, refVars
  <2> QED BY <1>1, <2>1 DEF LoadsOrdered, LookedUp
<1>10. CASE CacheLoaded
  <2>1. /\ loading["mango"] = "cache" /\ serum' = serum /\ isInitialized' = isInitialized
        /\ mangoGroup' = mangoGroup
        /\ \/ loading' = [loading EXCEPT !["mango"] = "failed"]
           \/ /\ loading' = [loading EXCEPT !["mango"] = "rootBanks"]
              /\ currencyIndex' = [i \in DOMAIN Mints |-> Find(mangoGroup.tokens, Mints[i])]
      BY <1>10 DEF CacheLoaded, Stops, LoadFails, GoesOn, refVars
  <2> QED BY <1>1, <2>1 DEF LoadsOrdered, LookedUp
<1>11. CASE NodeBanksLoaded
  <2>1. /\ loading["mango"] = "nodeBanks" /\ serum' = serum
        /\ mangoGroup' = mangoGroup /\ currencyIndex' = currencyIndex
      BY <1>11 DEF NodeBanksLoaded, AccountsArrive
  <2>2. CASE loading' = [loading EXCEPT !["mango"] = "failed"] /\ LoadFails("mango")
      BY <1>1, <2>1, <2>2 DEF LoadsOrdered, LookedUp, LoadFails, refVars
  <2>3. CASE /\ \A p \in DOMAIN Markets : 0 \notin {GroupIndexes(p).pair, GroupIndexes(p).base, GroupIndexes(p).quote}
             /\ Finishes("mango")
             /\ mango' = [p \in DOMAIN Markets |->
                             [indexes |-> GroupIndexes(p), openOrders |-> OpenOrdersIndex(p)]]
    <3>1. /\ loading'["mango"] = "done" /\ loading'["serum"] = loading["serum"] /\ DOMAIN loading' = RefClients
          /\ isInitialized'["serum"] = isInitialized["serum"]
        BY <1>1, <2>3 DEF Finishes, Loaded
    <3>2. \A p \in DOMAIN Markets :
             /\ 0 \notin {GroupIndexes(p)'.pair, GroupIndexes(p)'.base, GroupIndexes(p)'.quote}
             /\ mango'[p].indexes = GroupIndexes(p)'
        BY <1>2, <2>1, <2>3
    <3>3. loading["serum"] = "done"
        BY <2>1 DEF LoadsOrdered
    <3> QED BY <2>1, <3>1, <3>2, <3>3 DEF LoadsOrdered, LookedUp
  <2> QED BY <1>11, <2>2, <2>3 DEF NodeBanksLoaded, Stops
<1> QED BY <1>3, <1>4, <1>5, <1>6, <1>7, <1>8, <1>9, <1>10, <1>11, StepOfLoads

\* The tables of the two services, once all is loaded, lead to the same places.
LEMMA TablesAgree == LoadsOrdered /\ LookedUp => IndexesAgree
<1> SUFFICES ASSUME LoadsOrdered, LookedUp, loading["mango"] = "done", NEW p \in DOMAIN Markets
             PROVE  /\ mangoGroup.spotMarkets[mango[p].indexes.pair] = Markets[p]
                    /\ mangoGroup.tokens[mango[p].indexes.base] = serum[p].account.base
                    /\ mangoGroup.tokens[mango[p].indexes.quote] = serum[p].account.quote
                    /\ mango[p].indexes.base = currencyIndex[serum[p].base]
                    /\ mango[p].indexes.quote = currencyIndex[serum[p].quote]
    BY DEF IndexesAgree
<1>1. loading["serum"] = "done" /\ mangoGroup \in MangoGroups
    BY DEF LoadsOrdered, LookedUp, GroupPlaces
<1>2. /\ mango[p].indexes = GroupIndexes(p)
      /\ 0 \notin {GroupIndexes(p).pair, GroupIndexes(p).base, GroupIndexes(p).quote}
      /\ currencyIndex = [i \in DOMAIN Mints |-> Find(mangoGroup.tokens, Mints[i])]
      /\ serum[p].base \in DOMAIN Mints /\ Mints[serum[p].base] = serum[p].account.base
      /\ serum[p].quote \in DOMAIN Mints /\ Mints[serum[p].quote] = serum[p].account.quote
    BY <1>1 DEF LookedUp, GroupPlaces
<1>3. /\ GroupIndexes(p).pair = Find(mangoGroup.spotMarkets, Markets[p])
      /\ GroupIndexes(p).base = Find(mangoGroup.tokens, serum[p].account.base)
      /\ GroupIndexes(p).quote = Find(mangoGroup.tokens, serum[p].account.quote)
    BY DEF GroupIndexes
<1>4. /\ mangoGroup.spotMarkets[mango[p].indexes.pair] = Markets[p]
      /\ mangoGroup.tokens[mango[p].indexes.base] = serum[p].account.base
      /\ mangoGroup.tokens[mango[p].indexes.quote] = serum[p].account.quote
    BY <1>1, <1>2, <1>3, FindFacts, ListsTyped
<1> QED BY <1>2, <1>3, <1>4

\* The indexes of a pair, found by two services in what each of them read when it did,
\* lead to its market and its mints, whatever the chain held between the reads.
THEOREM IndexesAgreeHolds == MangoSpec => []IndexesAgree
<1>1. RefTypeOK /\ MangoIInv /\ [MangoNext]_allVars => RefTypeOK' /\ MangoIInv'
  <2> SUFFICES ASSUME RefTypeOK, MangoIInv, [MangoNext]_allVars PROVE RefTypeOK' /\ MangoIInv'
      OBVIOUS
  <2>1. RefTypeOK'
      BY StepOfCallers, RefStepTypes
  <2>2. RefTypeOK /\ DataIsLoaded /\ LoadsOrdered /\ LookedUp
      BY DEF MangoIInv
  <2>3. DataIsLoaded' /\ LoadsOrdered' /\ LookedUp'
      BY <2>2, StepOfCallers, DataIsLoadedStep, LoadsStep
  <2>4. LoadsOrdered' /\ LookedUp' => IndexesAgree'
      BY TablesAgree, PTL
  <2> QED BY <2>1, <2>3, <2>4 DEF MangoIInv
<1>2. MangoInit => RefTypeOK
    BY DEF MangoInit, SerumInit, RefInit, RefTypeOK
<1>3. MangoIInv => IndexesAgree
    BY DEF MangoIInv
<1> QED BY <1>1, <1>2, <1>3, MangoInitially, PTL DEF MangoSpec
===============================================================================
