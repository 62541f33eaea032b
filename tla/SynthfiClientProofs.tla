--------------------------- MODULE SynthfiClientProofs ---------------------------
(***************************************************************************)
(* Proofs about the command line program, for any processes, tags, slots,  *)
(* books and wallets: its key store, the blockhashes its order client      *)
(* signs with, the orders it lays out, the books its strategies decide on, *)
(* the statistics publisher all its services share, and the on-chain       *)
(* program.                                                                *)
(***************************************************************************)
EXTENDS SynthfiClient, StatisticsPublisher, Synthesizer, SequenceTheorems, DataLemmas, TLAPS

-----------------------------------------------------------------------------
Places ==
    {"idle", "restrict", "openToWrite", "write", "read", "returned", "thrown", "killed"}

\* A call that has a step to go is about a tag.
KeyTypeOK ==
    /\ files \in [Tags -> {"none", "empty", Earlier} \cup Processes]
    /\ keyPairs \in [Processes -> [Tags -> {NoKey, Earlier} \cup Processes]]
    /\ keyCall \in [Processes -> [at : Places, tag : Tags \cup {NoKey}]]
    /\ \A p \in Processes :
        keyCall[p].at \in {"openToWrite", "write", "read"} => keyCall[p].tag \in Tags

\* No one holds a key pair whose file was never made.
NoneHeldWithoutFile ==
    \A t \in Tags : files[t] = "none" => \A p \in Processes : keyPairs[p][t] = NoKey

\* The file that is written is empty, no one holds its key pair, and one process writes it.
WriterAlone ==
    \A p \in Processes : In(p, "write") =>
        /\ files[keyCall[p].tag] = "empty"
        /\ \A q \in Processes : keyPairs[q][keyCall[p].tag] = NoKey
        /\ \A q \in Processes : In(q, "write") /\ keyCall[q].tag = keyCall[p].tag => q = p

\* The file that is read was opened, so that it is there.
ReaderHasFile ==
    \A p \in Processes : In(p, "read") => files[keyCall[p].tag] # "none"

KeyInv == KeyTypeOK /\ NoneHeldWithoutFile /\ WriterAlone /\ ReaderHasFile /\ KeysAgree

LEMMA KeyInvInit == KeyInit => KeyInv
<1> SUFFICES ASSUME KeyInit PROVE KeyInv
  OBVIOUS
<1>1. \A t \in Tags : files[t] \in {"none", "empty", Earlier}
  <2>1. CASE IsDirectory
    BY <2>1 DEF KeyInit
  <2>2. CASE ~IsDirectory
    BY <2>2 DEF KeyInit
  <2> QED BY <2>1, <2>2
<1>2. files \in [Tags -> {"none", "empty", Earlier} \cup Processes]
  <2>1. CASE IsDirectory
    BY <2>1 DEF KeyInit
  <2>2. CASE ~IsDirectory
    BY <2>2 DEF KeyInit
  <2> QED BY <2>1, <2>2
<1>3. /\ keyPairs = [p \in Processes |-> [t \in Tags |-> NoKey]]
      /\ keyCall = [p \in Processes |-> [at |-> "idle", tag |-> NoKey]]
  BY DEF KeyInit, Idle
<1>4. KeyTypeOK
  BY <1>2, <1>3 DEF KeyTypeOK, Places
<1>5. NoneHeldWithoutFile /\ WriterAlone /\ ReaderHasFile /\ KeysAgree
  BY <1>3 DEF NoneHeldWithoutFile, WriterAlone, ReaderHasFile, KeysAgree, In
<1> QED BY <1>4, <1>5 DEF KeyInv

\* What leaves the files and the memory alone, and starts no write and no read of a file
\* that is not there, keeps the invariant.
LEMMA CallMoves ==
  ASSUME KeyInv, NEW p \in Processes, NEW a \in Places, NEW t \in Tags \cup {NoKey},
         At(p, a, t), files' = files, keyPairs' = keyPairs, unwritten' = unwritten, a # "write",
         a \in {"openToWrite", "read"} => t \in Tags,
         a = "read" => files[t] # "none"
  PROVE  KeyInv'
<1>1. /\ keyCall' = [keyCall EXCEPT ![p] = [at |-> a, tag |-> t]]
      /\ keyCall' \in [Processes -> [at : Places, tag : Tags \cup {NoKey}]]
      /\ keyCall'[p] = [at |-> a, tag |-> t]
      /\ \A q \in Processes \ {p} : keyCall'[q] = keyCall[q]
  BY DEF KeyInv, KeyTypeOK, At, Places
<1>2. KeyTypeOK'
  BY <1>1 DEF KeyInv, KeyTypeOK
<1>3. NoneHeldWithoutFile' /\ KeysAgree'
  BY DEF KeyInv, NoneHeldWithoutFile, KeysAgree
<1>4. WriterAlone'
  <2>1. \A q \in Processes : In(q, "write")' => In(q, "write") /\ keyCall'[q] = keyCall[q]
    BY <1>1 DEF In
  <2>2. ASSUME NEW q \in Processes, In(q, "write")'
        PROVE  /\ files'[keyCall'[q].tag] = "empty"
               /\ \A r \in Processes : keyPairs'[r][keyCall'[q].tag] = NoKey
               /\ \A r \in Processes : In(r, "write")' /\ keyCall'[r].tag = keyCall'[q].tag => r = q
    BY <2>1, <2>2 DEF KeyInv, WriterAlone
  <2> QED BY <2>2 DEF WriterAlone, In
<1>5. ReaderHasFile'
  BY <1>1 DEF KeyInv, ReaderHasFile, In
<1> QED BY <1>2, <1>3, <1>4, <1>5 DEF KeyInv

\* The tag of a call.
LEMMA CallTag ==
  ASSUME KeyInv, NEW p \in Processes
  PROVE  /\ keyCall[p].tag \in Tags \cup {NoKey}
         /\ keyCall[p].at \in {"openToWrite", "write", "read"} => keyCall[p].tag \in Tags
  BY DEF KeyInv, KeyTypeOK

\* A call that returns or throws keeps the invariant if it changes neither files nor memory.
LEMMA EndKeeps ==
  ASSUME KeyInv, NEW p \in Processes, Returns(p) \/ Throws(p),
         files' = files, keyPairs' = keyPairs, unwritten' = unwritten
  PROVE  KeyInv'
<1>1. PICK a \in {"returned", "thrown"} : At(p, a, keyCall[p].tag)
  BY DEF Returns, Throws
<1> QED BY <1>1, CallTag, CallMoves DEF Places

\* Opening the file to write makes it, empty, for one process.
LEMMA OpenKeeps == ASSUME KeyInv, NEW p \in Processes, OpenToWrite(p) PROVE KeyInv'
<1> DEFINE t == keyCall[p].tag
<1>1. t \in Tags /\ UNCHANGED <<keyPairs, unwritten>>
  BY DEF OpenToWrite, In, KeyInv, KeyTypeOK
<1>2. CASE UNCHANGED files /\ Throws(p)
  BY <1>1, <1>2, EndKeeps
<1>3. CASE files[t] = "none" /\ files' = [files EXCEPT ![t] = "empty"] /\ At(p, "write", t)
  <2>1. KeyTypeOK'
    BY <1>1, <1>3 DEF KeyInv, KeyTypeOK, At, Places
  <2>2. NoneHeldWithoutFile' /\ ReaderHasFile' /\ KeysAgree'
    BY <1>1, <1>3 DEF KeyInv, KeyTypeOK, NoneHeldWithoutFile, ReaderHasFile, KeysAgree, At, In
  <2>3. \A q \in Processes : In(q, "write") => keyCall[q].tag # t
    BY <1>3 DEF KeyInv, WriterAlone
  <2>4. WriterAlone'
    BY <1>1, <1>3, <2>3 DEF KeyInv, KeyTypeOK, NoneHeldWithoutFile, WriterAlone, At, In
  <2> QED BY <2>1, <2>2, <2>4 DEF KeyInv
<1> QED BY <1>2, <1>3 DEF OpenToWrite

\* What is written is the key pair that the writer keeps; when nothing is, the file stays empty.
LEMMA WriteKeeps == ASSUME KeyInv, NEW p \in Processes, WriteKeyPair(p) PROVE KeyInv'
<1> DEFINE t == keyCall[p].tag
<1>1. t \in Tags /\ files[t] = "empty" /\ At(p, "returned", t)
  BY DEF WriteKeyPair, In, KeyInv, KeyTypeOK, WriterAlone, Returns
<1>2. keyPairs' = [keyPairs EXCEPT ![p][t] = p]
  BY <1>1 DEF WriteKeyPair, In, KeyInv, WriterAlone
<1>3. /\ files' = [files EXCEPT ![t] = p] \/ UNCHANGED files
      /\ unwritten \subseteq unwritten'
      /\ UNCHANGED files => <<p, t>> \in unwritten' \/ files' = [files EXCEPT ![t] = p]
  BY DEF WriteKeyPair
<1>4. KeyTypeOK'
  BY <1>1, <1>2, <1>3 DEF KeyInv, KeyTypeOK, At, Places
<1>5. NoneHeldWithoutFile' /\ ReaderHasFile'
  BY <1>1, <1>2, <1>3, ProcessesNamed
  DEF KeyInv, KeyTypeOK, NoneHeldWithoutFile, ReaderHasFile, At, In
<1>6. \A q \in Processes, u \in Tags :
        keyPairs'[q][u] = IF q = p /\ u = t THEN p ELSE keyPairs[q][u]
  BY <1>1, <1>2 DEF KeyInv, KeyTypeOK
<1>7. \A q \in Processes : In(q, "write")' =>
        q # p /\ In(q, "write") /\ keyCall'[q] = keyCall[q] /\ keyCall[q].tag \in Tags \ {t}
  BY <1>1 DEF WriteKeyPair, KeyInv, KeyTypeOK, WriterAlone, At, In
<1>8. \A u \in Tags \ {t} : files'[u] = files[u]
  BY <1>3 DEF KeyInv, KeyTypeOK
<1>9. WriterAlone'
  BY <1>6, <1>7, <1>8 DEF KeyInv, WriterAlone, In
<1>10. KeysAgree'
  <2>1. \A q \in Processes : keyPairs[q][t] = NoKey
    BY DEF WriteKeyPair, KeyInv, WriterAlone
  <2>2. files'[t] = p \/ (files'[t] = "empty" /\ <<p, t>> \in unwritten')
    BY <1>1, <1>3 DEF KeyInv, KeyTypeOK
  <2>3. \A q \in Processes \ {p} : keyPairs'[q][t] = NoKey
    BY <1>1, <1>6, <2>1
  <2>4. \A q \in Processes, u \in Tags \ {t} : keyPairs'[q][u] = keyPairs[q][u]
    BY <1>6
  <2>5. keyPairs'[p][t] = p
    BY <1>1, <1>6
  <2>6. ASSUME NEW q \in Processes, NEW u \in Tags, keyPairs'[q][u] # NoKey
        PROVE  \/ files'[u] = keyPairs'[q][u]
               \/ /\ <<q, u>> \in unwritten' /\ files'[u] = "empty"
                  /\ \A x \in Processes \ {q} : keyPairs'[x][u] = NoKey
    <3>1. CASE u = t
      BY <2>2, <2>3, <2>5, <2>6, <3>1
    <3>2. CASE u # t
      <4>1. u \in Tags \ {t} /\ keyPairs[q][u] # NoKey
        BY <2>4, <2>6, <3>2
      <4> QED BY <1>3, <1>8, <2>4, <4>1 DEF KeyInv, KeysAgree
    <3> QED BY <3>1, <3>2
  <2> QED BY <2>6 DEF KeysAgree
<1> QED BY <1>4, <1>5, <1>9, <1>10 DEF KeyInv

\* What is read is what the file holds, unless it is empty.
LEMMA ReadKeeps == ASSUME KeyInv, NEW p \in Processes, ReadKeyPair(p) PROVE KeyInv'
<1> DEFINE t == keyCall[p].tag
<1>1. t \in Tags /\ files[t] # "none" /\ UNCHANGED <<files, unwritten>>
  BY DEF ReadKeyPair, In, KeyInv, KeyTypeOK, ReaderHasFile
<1>2. CASE UNCHANGED keyPairs /\ Throws(p)
  BY <1>1, <1>2, EndKeeps
<1>3. CASE /\ files[t] # "empty" /\ At(p, "returned", t)
           /\ keyPairs' = [keyPairs EXCEPT ![p][t] = files[t]]
  <2>1. KeyTypeOK'
    BY <1>1, <1>3 DEF KeyInv, KeyTypeOK, At, Places
  <2>2. NoneHeldWithoutFile' /\ ReaderHasFile' /\ KeysAgree'
    BY <1>1, <1>3 DEF KeyInv, KeyTypeOK, NoneHeldWithoutFile, ReaderHasFile, KeysAgree, At, In
  <2>3. WriterAlone'
    BY <1>1, <1>3 DEF KeyInv, KeyTypeOK, WriterAlone, At, In
  <2> QED BY <2>1, <2>2, <2>3 DEF KeyInv
<1> QED BY <1>2, <1>3 DEF ReadKeyPair, Returns

\* A process that is killed forgets its key pairs; the file it was writing stays empty.
LEMMA KillKeeps == ASSUME KeyInv, NEW p \in Processes, Killed(p) PROVE KeyInv'
<1>1. KeyTypeOK'
  BY DEF Killed, KeyInv, KeyTypeOK, At, Places
<1>2. /\ files' = files
      /\ \A q \in Processes, t \in Tags : keyPairs'[q][t] = IF q = p THEN NoKey ELSE keyPairs[q][t]
      /\ \A q \in Processes \ {p}, t \in Tags : <<q, t>> \in unwritten => <<q, t>> \in unwritten'
      /\ \A q \in Processes, a \in {"write", "read"} :
            In(q, a)' => In(q, a) /\ keyCall'[q] = keyCall[q]
  BY DEF Killed, KeyInv, KeyTypeOK, At, In
<1>3. NoneHeldWithoutFile'
  BY <1>2 DEF KeyInv, NoneHeldWithoutFile
<1>4. ReaderHasFile'
  BY <1>2 DEF KeyInv, ReaderHasFile
<1>5. KeysAgree'
  BY <1>2 DEF KeyInv, KeysAgree
<1>6. ASSUME NEW q \in Processes, In(q, "write")'
      PROVE  /\ files'[keyCall'[q].tag] = "empty"
             /\ \A r \in Processes : keyPairs'[r][keyCall'[q].tag] = NoKey
             /\ \A r \in Processes : In(r, "write")' /\ keyCall'[r].tag = keyCall'[q].tag => r = q
  <2>1. In(q, "write") /\ keyCall'[q] = keyCall[q] /\ keyCall[q].tag \in Tags
    BY <1>2, <1>6 DEF KeyInv, KeyTypeOK, In
  <2> QED BY <1>2, <2>1 DEF KeyInv, WriterAlone
<1>7. WriterAlone'
  BY <1>6 DEF WriterAlone
<1> QED BY <1>1, <1>3, <1>4, <1>5, <1>7 DEF KeyInv

\* KeysAgree (the key store of Core/KeyStore) holds for any processes and tags.
THEOREM KeysAgreeAlways == KeySpec => []KeysAgree
<1>1. KeyInv /\ [KeyNext]_keyVars => KeyInv'
  <2> SUFFICES ASSUME KeyInv, [KeyNext]_keyVars PROVE KeyInv'
    OBVIOUS
  <2>1. CASE UNCHANGED keyVars
    BY <2>1 DEF keyVars, KeyInv, KeyTypeOK, NoneHeldWithoutFile, WriterAlone, ReaderHasFile, KeysAgree, In
  <2>2. ASSUME NEW p \in Processes, CreateKeyStoreDirectory(p) PROVE KeyInv'
    <3>1. CASE At(p, "restrict", NoKey)
      BY <2>2, <3>1, CallMoves DEF CreateKeyStoreDirectory, Places
    <3> QED BY <2>2, <3>1, EndKeeps DEF CreateKeyStoreDirectory
  <2>3. ASSUME NEW p \in Processes, RestrictDirectory(p) PROVE KeyInv'
    BY <2>3, EndKeeps DEF RestrictDirectory
  <2>4. ASSUME NEW p \in Processes, VerifyKeyStoreDirectory(p) PROVE KeyInv'
    BY <2>4, EndKeeps DEF VerifyKeyStoreDirectory
  <2>5. ASSUME NEW p \in Processes, NEW t \in Tags, CreateKeyPair(p, t) PROVE KeyInv'
    BY <2>5, CallMoves DEF CreateKeyPair, Places
  <2>6. ASSUME NEW p \in Processes, NEW t \in Tags, LoadKeyPair(p, t) PROVE KeyInv'
    <3>1. /\ files' = files /\ keyPairs' = keyPairs /\ unwritten' = unwritten
          /\ \/ At(p, "returned", t) \/ At(p, "thrown", t)
             \/ files[t] # "none" /\ At(p, "read", t)
      BY <2>6 DEF LoadKeyPair
    <3> QED BY <3>1, CallMoves DEF Places
  <2>7. ASSUME NEW p \in Processes, NEW t \in Tags, GetKey(p, t) PROVE KeyInv'
    <3>1. /\ files' = files /\ keyPairs' = keyPairs /\ unwritten' = unwritten
          /\ \E a \in {"returned", "thrown"} : At(p, a, t)
      BY <2>7 DEF GetKey
    <3> QED BY <3>1, CallMoves DEF Places
  <2> QED
    BY <2>1, <2>2, <2>3, <2>4, <2>5, <2>6, <2>7, OpenKeeps, WriteKeeps, ReadKeeps, KillKeeps
    DEF KeyNext, KeyStoreStep
<1>2. KeyInv => KeysAgree
  BY DEF KeyInv
<1> QED BY KeyInvInit, <1>1, <1>2, PTL DEF KeySpec

-----------------------------------------------------------------------------
\* Commands are given, and whatever is not a call of the key store leaves its state alone.
LEMMA CommandGiven ==
  ASSUME ClientNext
  PROVE  command' = command /\ tag' = tag
<1>1. ASSUME NEW p \in Processes, Main(p) \/ CallKeyStore(p) \/ CommandReturns(p) \/ Kill(p)
      PROVE  UNCHANGED <<command, tag>>
  BY <1>1 DEF Main, CallKeyStore, CommandReturns, Kill, CommandKept
<1> QED BY <1>1 DEF ClientNext, ConfigFails, CommandKept, clientVars

LEMMA OrderStepCalls ==
  ASSUME OrderStep
  PROVE  \/ UNCHANGED keyVars
         \/ LoadKeyPair(Trader, OwnerTag)
         \/ GetKey(Trader, OwnerTag)
<1>1. CASE ClientLoads
  BY <1>1 DEF ClientLoads, BlockhashSubscribed, ReferenceDataReturns, LoadOwner, OwnerReturns,
              OwnerTaken, AccountSubscribed
<1>2. CASE DoOnRecentBlockhash
  BY <1>2 DEF DoOnRecentBlockhash
<1>3. ASSUME NEW i \in DOMAIN orders, SignOrder(i) \/ OrderGoesOn(i) \/ OrderFails(i)
      PROVE  UNCHANGED keyVars
  BY <1>3 DEF SignOrder, OrderGoesOn, OrderFails
<1> QED BY <1>1, <1>2, <1>3 DEF OrderStep

LEMMA StrategyCalls ==
  ASSUME StrategyStep
  PROVE  \/ UNCHANGED keyVars
         \/ LoadKeyPair(Trader, OwnerTag)
         \/ GetKey(Trader, OwnerTag)
         \/ KeyStoreStep(Trader)
<1>1. CASE RunGoesOn \/ LoadOrderClients \/ OrderClientsLoaded \/ Crash
  BY <1>1 DEF RunGoesOn, LoadOrderClients, LoadMangoAccount, OrderClientsLoaded, Crash
<1>2. ASSUME NEW basket \in Baskets, OnMangoAccount(basket)
      PROVE  UNCHANGED keyVars
  BY <1>2 DEF OnMangoAccount
<1>3. ASSUME NEW p \in DOMAIN Pairs, NEW book \in Books, OnSerumBook(p, book) \/ OnFtxBook(p, book)
      PROVE  UNCHANGED keyVars
  BY <1>3 DEF OnSerumBook, OnFtxBook
<1>4. ASSUME NEW wallet \in Wallets, OnMangoWallet(wallet) \/ OnFtxWallet(wallet)
      PROVE  UNCHANGED keyVars
  BY <1>4 DEF OnMangoWallet, OnFtxWallet
<1> QED BY <1>1, <1>2, <1>3, <1>4, OrderStepCalls DEF StrategyStep

LEMMA TestCallsNone == ASSUME TestStep PROVE UNCHANGED keyVars
BY DEF TestStep, TestRun, TestSerumBook, TestFtxBook, OthersKept

\* What the program does to the key store are calls of the key store, of the tag its command is about.
LEMMA KeyStepOfClient ==
  ASSUME tag \in [Processes -> Tags], [ClientNext]_allVars
  PROVE  [KeyNext]_keyVars
<1>1. ASSUME NEW p \in Processes, Main(p) \/ CommandReturns(p)
      PROVE  UNCHANGED keyVars
  BY <1>1 DEF Main, CommandReturns
<1>2. ASSUME NEW p \in Processes, CallKeyStore(p)
      PROVE  KeyNext
  <2>1. tag[p] \in Tags
    OBVIOUS
  <2> QED BY <1>2, <2>1 DEF CallKeyStore, KeyNext
<1>3. ASSUME NEW p \in Processes, Kill(p) \/ KeyStoreStep(p)
      PROVE  KeyNext
  BY <1>3 DEF Kill, KeyNext
<1>4. CASE ConfigFails
  BY <1>4 DEF ConfigFails
<1>5. CASE StrategyStep
  BY <1>5, StrategyCalls, ClientAssumption DEF KeyNext
<1>6. CASE UNCHANGED allVars
  BY <1>6 DEF allVars, vars, keyVars
<1> QED BY <1>1, <1>2, <1>3, <1>4, <1>5, <1>6, TestCallsNone DEF ClientNext

\* The program uses the key store as KeySpec says: every command, the strategies' too, takes
\* its steps alone and in their order.
THEOREM KeyStoreAsSpecified == ClientSpec => KeySpec
<1>1. ClientInit => KeyInit /\ tag \in [Processes -> Tags]
  BY DEF ClientInit
<1>2. tag \in [Processes -> Tags] /\ [ClientNext]_allVars => (tag \in [Processes -> Tags])'
  BY CommandGiven DEF allVars, clientVars
<1>3. tag \in [Processes -> Tags] /\ [ClientNext]_allVars => [KeyNext]_keyVars
  BY KeyStepOfClient
<1> QED BY <1>1, <1>2, <1>3, PTL DEF ClientSpec, KeySpec

\* KeysAgree (the key store under the commands of synthfi-client) holds for any processes,
\* tags and commands: a key pair in memory is the one in its file, or one that this process
\* generated and could not write, and no other process has.
THEOREM ClientKeysAgree == ClientSpec => []KeysAgree
BY KeyStoreAsSpecified, KeysAgreeAlways, PTL

-----------------------------------------------------------------------------
\* The blockhash that the client holds once what is posted is handled.
Latest == IF posted = <<>> THEN clientBlockhash ELSE posted[Len(posted)]

\* What is posted is in the order of the heights, none below the blockhash held.
PostedInOrder(held, s) ==
    /\ \A i \in 1 .. Len(s) : held =< s[i]
    /\ \A i, j \in 1 .. Len(s) : i =< j => s[i] =< s[j]

BlockhashTypeOK ==
    /\ recentBlockhash \in Nat /\ lastValidBlockHeight = recentBlockhash
    /\ told \in [Subscribers -> Nat]
    /\ posted \in Seq(Nat) /\ clientBlockhash \in Nat

\* What the client was told last is what it holds or has yet to handle, and is the recent
\* blockhash from its subscription on, unless a refresh overtook that.
ClientTold ==
    /\ Latest = told[Client]
    /\ told[Client] =< recentBlockhash
    /\ Client \in (subscribing \cup onBlockhashCallbacks) \ overtaken => told[Client] = recentBlockhash

BlockhashIInv == BlockhashTypeOK /\ PostedInOrder(clientBlockhash, posted) /\ ClientTold

\* The steps that touch a blockhash.
BlockhashStep ==
    \/ UNCHANGED <<recentBlockhash, lastValidBlockHeight, callbacks, posted, clientBlockhash>>
    \/ /\ \/ \E n \in Notifications, height \in BlockHeights : BlockhashResponds(n, height)
          \/ SubscribeRecentBlockhash(Client)
       /\ OnRecentBlockhash /\ UNCHANGED clientBlockhash
    \/ PushCallback(Client) /\ UNCHANGED <<posted, clientBlockhash>>
    \/ DoOnRecentBlockhash

LEMMA BlockhashStepOfOrders == ASSUME OrderStep PROVE BlockhashStep
<1>1. CASE ClientLoads
  BY <1>1 DEF ClientLoads, BlockhashSubscribed, ReferenceDataReturns, LoadOwner, OwnerReturns,
              OwnerTaken, AccountSubscribed, ClientKept, slotVars, recentVars, BlockhashStep
<1>2. ASSUME NEW i \in DOMAIN orders, SignOrder(i) \/ OrderGoesOn(i) \/ OrderFails(i)
      PROVE  BlockhashStep
  BY <1>2 DEF SignOrder, OrderGoesOn, OrderFails, slotVars, recentVars, BlockhashStep
<1> QED BY <1>1, <1>2 DEF OrderStep, BlockhashStep

LEMMA BlockhashStepOfSlots ==
  ASSUME SlotStep, OnRecentBlockhash, UNCHANGED clientBlockhash
  PROVE  BlockhashStep
<1>1. CASE \E n \in Notifications, height \in BlockHeights : BlockhashResponds(n, height)
  BY <1>1 DEF BlockhashStep
<1>2. ASSUME LoadSubscription \/ \E n \in Notifications : SlotPublished(n) \/ BlockhashThrows(n)
      PROVE  BlockhashStep
  <2>1. UNCHANGED <<recentBlockhash, lastValidBlockHeight, callbacks>>
    BY <1>2 DEF LoadSubscription, SlotPublished, BlockhashThrows, recentVars
  <2>2. UNCHANGED posted
    BY <2>1 DEF callbacks, OnRecentBlockhash
  <2> QED BY <2>1, <2>2 DEF BlockhashStep
<1> QED BY <1>1, <1>2 DEF SlotStep

LEMMA BlockhashStepOfStrategy == ASSUME StrategyStep PROVE BlockhashStep
<1>1. CASE RunGoesOn \/ OrderClientsLoaded \/ Crash
  BY <1>1 DEF RunGoesOn, OrderClientsLoaded, Crash, slotVars, recentVars, orderVars, BlockhashStep
<1>2. CASE LoadOrderClients
  BY <1>2 DEF LoadOrderClients, LoadMangoAccount, BlockhashStep
<1>3. ASSUME NEW n \in Notifications, NEW s \in Slots, OnSlotNotification(n, s), UNCHANGED orderVars
      PROVE  BlockhashStep
  BY <1>3 DEF OnSlotNotification, recentVars, orderVars, BlockhashStep
<1>4. ASSUME NEW basket \in Baskets, OnMangoAccount(basket)
      PROVE  BlockhashStep
  BY <1>4 DEF OnMangoAccount, ClientKept, slotVars, recentVars, BlockhashStep
<1>5. ASSUME NEW p \in DOMAIN Pairs, NEW book \in Books, OnSerumBook(p, book) \/ OnFtxBook(p, book)
      PROVE  BlockhashStep
  BY <1>5 DEF OnSerumBook, OnFtxBook, slotVars, recentVars, BlockhashStep
<1>6. ASSUME NEW wallet \in Wallets, OnMangoWallet(wallet) \/ OnFtxWallet(wallet)
      PROVE  BlockhashStep
  BY <1>6 DEF OnMangoWallet, OnFtxWallet, slotVars, recentVars, orderVars, BlockhashStep
<1>7. CASE KeyStoreStep(Trader) /\ UNCHANGED <<slotVars, orderVars, strategyVars>>
  BY <1>7 DEF slotVars, recentVars, orderVars, BlockhashStep
<1> QED
  BY <1>1, <1>2, <1>3, <1>4, <1>5, <1>6, <1>7, BlockhashStepOfSlots, BlockhashStepOfOrders
  DEF StrategyStep

LEMMA BlockhashStepOfClient == ASSUME [ClientNext]_allVars PROVE BlockhashStep
<1>1. CASE UNCHANGED <<slotVars, orderVars>>
  BY <1>1 DEF slotVars, recentVars, orderVars, BlockhashStep
<1>2. ASSUME NEW p \in Processes, Main(p) \/ CallKeyStore(p) \/ CommandReturns(p) \/ Kill(p)
      PROVE  UNCHANGED <<slotVars, orderVars>>
  BY <1>2 DEF Main, CallKeyStore, CommandReturns, Kill, StrategyKept
<1>3. CASE ConfigFails
  BY <1>1, <1>3 DEF ConfigFails, StrategyKept
<1>4. CASE TestStep
  BY <1>1, <1>4 DEF TestStep, TestRun, TestSerumBook, TestFtxBook, OthersKept
<1>5. CASE UNCHANGED allVars
  BY <1>1, <1>5 DEF allVars, vars
<1> QED BY <1>1, <1>2, <1>3, <1>4, <1>5, BlockhashStepOfStrategy DEF ClientNext, StrategyKept

\* A height that is not below what is held or posted goes behind it.
LEMMA PostKeepsOrder ==
  ASSUME NEW s \in Seq(Nat), NEW held \in Nat, NEW height \in Nat, PostedInOrder(held, s),
         height >= IF s = <<>> THEN held ELSE s[Len(s)]
  PROVE  PostedInOrder(held, Append(s, height))
<1>1. \A i \in 1 .. Len(s) : held =< s[i] /\ s[i] =< height
  BY DEF PostedInOrder
<1>2. held =< height
  BY <1>1
<1>3. /\ Len(Append(s, height)) = Len(s) + 1
      /\ \A i \in 1 .. Len(s) + 1 : Append(s, height)[i] = IF i = Len(s) + 1 THEN height ELSE s[i]
  OBVIOUS
<1> QED BY <1>1, <1>2, <1>3 DEF PostedInOrder

\* The front is the lowest.
LEMMA HandleKeepsOrder ==
  ASSUME NEW s \in Seq(Nat), NEW held \in Nat, s # <<>>, PostedInOrder(held, s)
  PROVE  /\ Head(s) \in Nat /\ Head(s) >= held
         /\ Tail(s) \in Seq(Nat) /\ PostedInOrder(Head(s), Tail(s))
         /\ (IF Tail(s) = <<>> THEN Head(s) ELSE Tail(s)[Len(Tail(s))]) = s[Len(s)]
<1>1. /\ Len(s) \in Nat \ {0} /\ Head(s) = s[1] /\ Tail(s) \in Seq(Nat)
      /\ Len(Tail(s)) = Len(s) - 1
      /\ \A i \in 1 .. Len(s) - 1 : Tail(s)[i] = s[i + 1]
  OBVIOUS
<1>2. PostedInOrder(Head(s), Tail(s))
  BY <1>1 DEF PostedInOrder
<1>3. (IF Tail(s) = <<>> THEN Head(s) ELSE Tail(s)[Len(Tail(s))]) = s[Len(s)]
  <2> \A t \in Seq(Nat) : t = <<>> <=> Len(t) = 0
    OBVIOUS
  <2>1. CASE Len(s) = 1
    <3>1. Len(Tail(s)) = 0
      BY <1>1, <2>1
    <3>2. Tail(s) = <<>>
      BY <1>1, <3>1
    <3> QED BY <1>1, <2>1, <3>2
  <2>2. CASE Len(s) # 1
    <3>1. Len(Tail(s)) \in 1 .. Len(s) - 1
      BY <1>1, <2>2
    <3>2. Len(Tail(s)) # 0
      BY <1>1, <3>1
    <3>3. Tail(s) # <<>>
      BY <1>1, <3>2
    <3>4. Tail(s)[Len(Tail(s))] = s[Len(Tail(s)) + 1]
      BY <1>1, <3>1
    <3> QED BY <1>1, <3>3, <3>4
  <2> QED BY <2>1, <2>2
<1> QED BY <1>1, <1>2, <1>3 DEF PostedInOrder

\* What is posted when the client is told, in every case.
LEMMA TellKeeps ==
  ASSUME BlockhashIInv, OnRecentBlockhash, UNCHANGED clientBlockhash,
         recentBlockhash' \in Nat, lastValidBlockHeight' = recentBlockhash',
         recentBlockhash' >= recentBlockhash, told' \in [Subscribers -> Nat],
         told'[Client] >= told[Client], told'[Client] =< recentBlockhash',
         Client \in (subscribing' \cup onBlockhashCallbacks') \ overtaken' => told'[Client] = recentBlockhash'
  PROVE  BlockhashIInv'
<1>1. Client \in Subscribers
  BY ClientAssumption
<1>2. /\ posted \in Seq(Nat) /\ clientBlockhash \in Nat /\ clientBlockhash' = clientBlockhash
      /\ PostedInOrder(clientBlockhash, posted)
      /\ told[Client] = IF posted = <<>> THEN clientBlockhash ELSE posted[Len(posted)]
  BY DEF BlockhashIInv, BlockhashTypeOK, ClientTold, Latest
<1>3. told'[Client] \in Nat
  BY <1>1
<1>4. CASE told'[Client] = told[Client]
  <2>1. posted' = posted
    BY <1>4 DEF OnRecentBlockhash
  <2>2. BlockhashTypeOK' /\ ClientTold'
    BY <1>2, <1>4, <2>1 DEF BlockhashTypeOK, ClientTold, Latest
  <2> QED BY <1>2, <2>1, <2>2 DEF BlockhashIInv
<1>5. CASE told'[Client] # told[Client]
  <2>1. posted' = Append(posted, told'[Client])
    BY <1>5 DEF OnRecentBlockhash
  <2>2. PICK height \in Nat : height = told'[Client]
    BY <1>3
  <2>3. PostedInOrder(clientBlockhash, Append(posted, height))
    BY <1>2, <2>2, PostKeepsOrder
  <2>4. posted' \in Seq(Nat) /\ posted' # <<>> /\ posted'[Len(posted')] = height
    BY <1>2, <2>1, <2>2
  <2>5. BlockhashTypeOK'
    BY <1>2, <2>4 DEF BlockhashTypeOK
  <2>6. ClientTold'
    BY <2>2, <2>4 DEF ClientTold, Latest
  <2>7. PostedInOrder(clientBlockhash, posted)'
    BY <1>2, <2>1, <2>2, <2>3
  <2> QED BY <2>5, <2>6, <2>7 DEF BlockhashIInv
<1> QED BY <1>4, <1>5

LEMMA BlockhashStepKeeps ==
  ASSUME BlockhashIInv, BlockhashStep
  PROVE  BlockhashIInv' /\ clientBlockhash' >= clientBlockhash
<1>1. /\ Client \in Subscribers
      /\ recentBlockhash \in Nat /\ lastValidBlockHeight = recentBlockhash
      /\ told \in [Subscribers -> Nat] /\ told[Client] \in Nat
      /\ posted \in Seq(Nat) /\ clientBlockhash \in Nat
      /\ PostedInOrder(clientBlockhash, posted)
      /\ told[Client] =< recentBlockhash
      /\ Client \in (subscribing \cup onBlockhashCallbacks) \ overtaken => told[Client] = recentBlockhash
  BY ClientAssumption DEF BlockhashIInv, BlockhashTypeOK, ClientTold
<1>2. CASE UNCHANGED <<recentBlockhash, lastValidBlockHeight, callbacks, posted, clientBlockhash>>
  <2>1. BlockhashTypeOK' /\ ClientTold'
    BY <1>2 DEF callbacks, BlockhashIInv, BlockhashTypeOK, ClientTold, Latest
  <2> QED BY <1>1, <1>2, <2>1 DEF BlockhashIInv
<1>3. ASSUME OnRecentBlockhash, UNCHANGED clientBlockhash,
             NEW n \in Notifications, NEW height \in BlockHeights, BlockhashResponds(n, height)
      PROVE  BlockhashIInv'
  <2>1. height \in Nat
    BY BoundsAssumption DEF BlockHeights
  <2>2. CASE UNCHANGED <<recentBlockhash, lastValidBlockHeight, callbacks>>
    BY <1>1, <1>3, <2>2, TellKeeps DEF callbacks
  <2>3. CASE height > lastValidBlockHeight /\ recentBlockhash' = height /\ lastValidBlockHeight' = height /\ Tell(height)
    <3>1. told' = [s \in Subscribers |-> IF s \in onBlockhashCallbacks THEN height ELSE told[s]]
      BY <2>3 DEF Tell
    <3>2. /\ told' \in [Subscribers -> Nat]
          /\ told'[Client] = IF Client \in onBlockhashCallbacks THEN height ELSE told[Client]
      BY <1>1, <2>1, <3>1
    <3>3. Client \in (subscribing' \cup onBlockhashCallbacks') \ overtaken' => Client \in onBlockhashCallbacks
      BY <2>3 DEF Tell
    <3>4. told'[Client] >= told[Client] /\ told'[Client] =< height /\ height >= recentBlockhash
      BY <1>1, <2>1, <2>3, <3>2
    <3> QED BY <1>3, <2>1, <2>3, <3>2, <3>3, <3>4, TellKeeps
  <2> QED BY <1>1, <1>3, <2>1, <2>2, <2>3 DEF BlockhashResponds
<1>4. ASSUME OnRecentBlockhash, UNCHANGED clientBlockhash, SubscribeRecentBlockhash(Client)
      PROVE  BlockhashIInv'
  <2>1. UNCHANGED <<recentBlockhash, lastValidBlockHeight>>
    BY <1>4 DEF SubscribeRecentBlockhash, recentVars
  <2>2. told' = IF recentBlockhash # 0 THEN [told EXCEPT ![Client] = recentBlockhash] ELSE told
    BY <1>4 DEF SubscribeRecentBlockhash
  <2>3. told' \in [Subscribers -> Nat] /\ told'[Client] = recentBlockhash
    BY <1>1, <2>2
  <2> QED BY <1>1, <1>4, <2>1, <2>3, TellKeeps
<1>5. CASE PushCallback(Client) /\ UNCHANGED <<posted, clientBlockhash>>
  <2>1. /\ UNCHANGED <<recentBlockhash, lastValidBlockHeight, told, overtaken, posted, clientBlockhash>>
        /\ subscribing' \cup onBlockhashCallbacks' = subscribing \cup onBlockhashCallbacks
    BY <1>5 DEF PushCallback, recentVars
  <2>2. BlockhashTypeOK' /\ ClientTold'
    BY <2>1 DEF BlockhashIInv, BlockhashTypeOK, ClientTold, Latest
  <2> QED BY <1>1, <2>1, <2>2 DEF BlockhashIInv
<1>6. CASE DoOnRecentBlockhash
  <2>1. /\ UNCHANGED <<recentBlockhash, lastValidBlockHeight, subscribing, onBlockhashCallbacks, told, overtaken>>
        /\ posted # <<>> /\ clientBlockhash' = Head(posted) /\ posted' = Tail(posted)
    BY <1>6 DEF DoOnRecentBlockhash, slotVars, recentVars, callbacks
  <2>2. /\ clientBlockhash' \in Nat /\ clientBlockhash' >= clientBlockhash
        /\ posted' \in Seq(Nat) /\ PostedInOrder(clientBlockhash', posted')
        /\ (IF posted' = <<>> THEN clientBlockhash' ELSE posted'[Len(posted')]) = posted[Len(posted)]
    BY <1>1, <2>1, HandleKeepsOrder
  <2>3. BlockhashTypeOK' /\ ClientTold'
    BY <2>1, <2>2 DEF BlockhashIInv, BlockhashTypeOK, ClientTold, Latest
  <2> QED BY <2>2, <2>3 DEF BlockhashIInv
<1>7. BlockhashIInv'
  BY <1>2, <1>3, <1>4, <1>5, <1>6 DEF BlockhashStep
<1>8. clientBlockhash' = clientBlockhash \/ DoOnRecentBlockhash
  BY DEF BlockhashStep
<1>9. ASSUME DoOnRecentBlockhash
      PROVE  clientBlockhash' >= clientBlockhash
  BY <1>1, <1>9, HandleKeepsOrder DEF DoOnRecentBlockhash
<1> QED BY <1>1, <1>7, <1>8, <1>9

LEMMA BlockhashInit == ClientInit => BlockhashIInv
<1> SUFFICES ASSUME ClientInit PROVE BlockhashIInv
  OBVIOUS
<1>1. /\ recentBlockhash = 0 /\ lastValidBlockHeight = 0 /\ subscribing = {} /\ onBlockhashCallbacks = {}
      /\ told = [s \in Subscribers |-> 0] /\ posted = <<>> /\ clientBlockhash = 0
  BY DEF ClientInit, SlotInit, OrderInit
<1>2. posted \in Seq(Nat) /\ told[Client] = 0 /\ told \in [Subscribers -> Nat]
  BY <1>1, ClientAssumption
<1> QED BY <1>1, <1>2 DEF BlockhashIInv, BlockhashTypeOK, PostedInOrder, ClientTold, Latest

THEOREM BlockhashInvariance == ClientSpec => []BlockhashIInv
<1>1. BlockhashIInv /\ [ClientNext]_allVars => BlockhashIInv'
  BY BlockhashStepOfClient, BlockhashStepKeeps
<1> QED BY BlockhashInit, <1>1, PTL DEF ClientSpec

\* HoldsRecent (SlotSubscriber and MangoOrderClient): for any notifications, whose answers
\* come in any order, and wherever a refresh comes between the steps of the subscription.
THEOREM HoldsRecentHolds == ClientSpec => []HoldsRecent
<1>1. BlockhashIInv => HoldsRecent
  BY DEF BlockhashIInv, ClientTold, Latest, HoldsRecent, Last
<1> QED BY BlockhashInvariance, <1>1, PTL

\* BlockhashNotOlder (MangoOrderClient): the blockhash orders are signed with never goes back.
THEOREM BlockhashNotOlderHolds == ClientSpec => BlockhashNotOlder
<1>1. BlockhashIInv /\ [ClientNext]_allVars => [clientBlockhash' >= clientBlockhash]_clientBlockhash
  BY BlockhashStepOfClient, BlockhashStepKeeps
<1> QED BY BlockhashInvariance, <1>1, PTL DEF ClientSpec, BlockhashNotOlder

-----------------------------------------------------------------------------
\* The two sides a strategy compares, and the profit it finds in them.
Sides == {"bid", "ask"}
BothThere(p, side) == serumBooks[p][side] # <<>> /\ ftxBooks[p][SideFlip(side)] # <<>>
FoundProfit(p, side) == Arbitrage(side, serumBooks[p][side], ftxBooks[p][SideFlip(side)]).profit

BooksTypeOK ==
    /\ serumBooks \in [DOMAIN Pairs -> Books \cup {NoBook}]
    /\ ftxBooks \in [DOMAIN Pairs -> Books \cup {NoBook}]
    /\ measured = [p \in DOMAIN Pairs |-> measured[p]]

\* A process runs one strategy or the other.
OneStrategy ==
    /\ command[Trader] # "take_strategy" => phase = "none"
    /\ command[Trader] # "backtest_strategy" => testPhase = "none"

\* While nothing is traded no pair is worth it, on the books as they are.
DecidedOnBooks ==
    command[Trader] = "take_strategy" /\ ~isTrading =>
        \A p \in DOMAIN Pairs, side \in Sides :
            ~(BothThere(p, side) /\ FoundProfit(p, side) >= MinUsdTradeProfit)

\* What is measured of a pair is the profit found in the books as they are.
MeasuredOfBooks ==
    command[Trader] = "backtest_strategy" =>
        \A p \in DOMAIN Pairs, side \in Sides :
            BothThere(p, side) => measured[p][side] = FoundProfit(p, side)

DecisionIInv == BooksTypeOK /\ OneStrategy /\ DecidedOnBooks /\ MeasuredOfBooks

\* The steps that touch the books of a strategy.
BookTold(p, book) ==
    \/ serumBooks' = [serumBooks EXCEPT ![p] = book] /\ UNCHANGED ftxBooks
    \/ ftxBooks' = [ftxBooks EXCEPT ![p] = book] /\ UNCHANGED serumBooks
Decides(p, book) ==
    \/ serumBooks' = [serumBooks EXCEPT ![p] = book] /\ UNCHANGED ftxBooks /\ DoBookUpdate(p, book, ftxBooks[p])
    \/ ftxBooks' = [ftxBooks EXCEPT ![p] = book] /\ UNCHANGED serumBooks /\ DoBookUpdate(p, serumBooks[p], book)
BookStep ==
    /\ UNCHANGED command
    /\ command[Trader] # "take_strategy" => UNCHANGED phase
    /\ command[Trader] # "backtest_strategy" => UNCHANGED testPhase
    /\ \/ UNCHANGED <<serumBooks, ftxBooks, isTrading, measured>>
       \/ /\ command[Trader] = "take_strategy" /\ UNCHANGED measured
          /\ \E p \in DOMAIN Pairs, book \in Books : Decides(p, book)
       \/ /\ command[Trader] = "backtest_strategy" /\ UNCHANGED isTrading
          /\ \E p \in DOMAIN Pairs, book \in Books : BookTold(p, book) /\ Measure(p)

LEMMA BookStepOfStrategy ==
  ASSUME StrategyStep
  PROVE  \/ UNCHANGED <<serumBooks, ftxBooks, isTrading>>
         \/ \E p \in DOMAIN Pairs, book \in Books : Decides(p, book)
<1>1. CASE RunGoesOn \/ OrderClientsLoaded \/ Crash \/ LoadOrderClients
  BY <1>1 DEF RunGoesOn, OrderClientsLoaded, Crash, LoadOrderClients
<1>2. ASSUME UNCHANGED strategyVars
      PROVE  UNCHANGED <<serumBooks, ftxBooks, isTrading>>
  BY <1>2 DEF strategyVars
<1>3. ASSUME NEW p \in DOMAIN Pairs, NEW book \in Books, OnSerumBook(p, book) \/ OnFtxBook(p, book)
      PROVE  Decides(p, book)
  BY <1>3 DEF OnSerumBook, OnFtxBook, Decides
<1>4. ASSUME NEW wallet \in Wallets, OnMangoWallet(wallet) \/ OnFtxWallet(wallet)
      PROVE  UNCHANGED <<serumBooks, ftxBooks, isTrading>>
  BY <1>4 DEF OnMangoWallet, OnFtxWallet
<1> QED BY <1>1, <1>2, <1>3, <1>4 DEF StrategyStep

LEMMA BookStepOfTest ==
  ASSUME TestStep
  PROVE  /\ UNCHANGED <<phase, isTrading>>
         /\ \/ UNCHANGED <<serumBooks, ftxBooks, measured>>
            \/ \E p \in DOMAIN Pairs, book \in Books : BookTold(p, book) /\ Measure(p)
<1>1. CASE TestRun
  BY <1>1 DEF TestRun, OthersKept
<1>2. ASSUME NEW p \in DOMAIN Pairs, NEW book \in Books, TestSerumBook(p, book) \/ TestFtxBook(p, book)
      PROVE  UNCHANGED <<phase, isTrading>> /\ BookTold(p, book) /\ Measure(p)
  BY <1>2 DEF TestSerumBook, TestFtxBook, OthersKept, BookTold
<1> QED BY <1>1, <1>2 DEF TestStep

LEMMA BookStepOfClient == ASSUME [ClientNext]_allVars PROVE BookStep
<1>1. UNCHANGED command
  BY CommandGiven DEF allVars, clientVars
<1>2. CASE UNCHANGED <<strategyVars, testVars>>
  BY <1>1, <1>2 DEF strategyVars, testVars, BookStep
<1>3. ASSUME NEW p \in Processes, Main(p) \/ CallKeyStore(p) \/ CommandReturns(p) \/ Kill(p)
      PROVE  UNCHANGED <<strategyVars, testVars>>
  BY <1>3 DEF Main, CallKeyStore, CommandReturns, Kill, StrategyKept, CommandKept
<1>4. CASE ConfigFails
  BY <1>2, <1>4 DEF ConfigFails, StrategyKept, CommandKept
<1>5. CASE UNCHANGED allVars
  BY <1>2, <1>5 DEF allVars, vars
<1>6. CASE command[Trader] = "take_strategy" /\ StrategyStep /\ UNCHANGED testVars
  BY <1>1, <1>6, BookStepOfStrategy DEF testVars, BookStep
<1>7. CASE command[Trader] = "backtest_strategy" /\ TestStep
  BY <1>1, <1>7, BookStepOfTest DEF BookStep
<1> QED BY <1>2, <1>3, <1>4, <1>5, <1>6, <1>7 DEF ClientNext, StrategyKept

\* A book that is told is one of Books, in its place, and the other books stay.
LEMMA ToldBooks ==
  ASSUME DecisionIInv, NEW p \in DOMAIN Pairs, NEW book \in Books, BookTold(p, book)
  PROVE  /\ (serumBooks \in [DOMAIN Pairs -> Books \cup {NoBook}])'
         /\ (ftxBooks \in [DOMAIN Pairs -> Books \cup {NoBook}])'
         /\ \A q \in DOMAIN Pairs : q # p => serumBooks'[q] = serumBooks[q] /\ ftxBooks'[q] = ftxBooks[q]
BY DEF DecisionIInv, BooksTypeOK, BookTold

\* do_book_update of the take strategy decides on the two books of the pair as they are now.
LEMMA UpdateDecides ==
  ASSUME DecisionIInv, NEW p \in DOMAIN Pairs, NEW book \in Books, Decides(p, book),
         command[Trader] = "take_strategy", UNCHANGED command
  PROVE  DecidedOnBooks'
<1> SUFFICES ASSUME ~isTrading', NEW q \in DOMAIN Pairs, NEW side \in Sides
             PROVE  ~(BothThere(q, side)' /\ FoundProfit(q, side)' >= MinUsdTradeProfit)
  BY DEF DecidedOnBooks
<1>1. BookTold(p, book)
  BY DEF Decides, BookTold
<1>2. DoBookUpdate(p, serumBooks'[p], ftxBooks'[p])
  <2>1. \/ serumBooks'[p] = book /\ ftxBooks'[p] = ftxBooks[p] /\ DoBookUpdate(p, book, ftxBooks[p])
        \/ ftxBooks'[p] = book /\ serumBooks'[p] = serumBooks[p] /\ DoBookUpdate(p, serumBooks[p], book)
    BY DEF Decides, DecisionIInv, BooksTypeOK
  <2> QED BY <2>1
<1>3. ~isTrading /\ ~Worth("bid", serumBooks'[p], ftxBooks'[p]) /\ ~Worth("ask", serumBooks'[p], ftxBooks'[p])
  BY <1>2 DEF DoBookUpdate
<1>4. CASE q = p
  BY <1>3, <1>4 DEF Sides, Worth, BothThere, FoundProfit
<1>5. CASE q # p
  <2>1. serumBooks'[q] = serumBooks[q] /\ ftxBooks'[q] = ftxBooks[q]
    BY <1>5, <1>1, ToldBooks
  <2>2. ~(BothThere(q, side) /\ FoundProfit(q, side) >= MinUsdTradeProfit)
    BY <1>3 DEF DecisionIInv, DecidedOnBooks
  <2> QED BY <2>1, <2>2 DEF BothThere, FoundProfit
<1> QED BY <1>4, <1>5

\* do_book_update of the backtest measures the two books of the pair as they are now.
LEMMA MeasureFollows ==
  ASSUME DecisionIInv, NEW p \in DOMAIN Pairs, NEW book \in Books, BookTold(p, book), Measure(p),
         command[Trader] = "backtest_strategy"
  PROVE  MeasuredOfBooks' /\ (measured = [r \in DOMAIN Pairs |-> measured[r]])'
<1>1. measured = [r \in DOMAIN Pairs |-> measured[r]]
  BY DEF DecisionIInv, BooksTypeOK
<1>2. PICK m : m = [side \in Sides |->
        LET serum == serumBooks'[p][side]
            ftx == ftxBooks'[p][SideFlip(side)]
        IN  IF serum = <<>> \/ ftx = <<>> THEN measured[p][side] ELSE Arbitrage(side, serum, ftx).profit]
  OBVIOUS
<1>3. measured' = [measured EXCEPT ![p] = m]
  BY <1>1, <1>2 DEF Measure, Sides
<1>4. /\ measured' = [r \in DOMAIN Pairs |-> measured'[r]]
      /\ measured'[p] = m
      /\ \A q \in DOMAIN Pairs : q # p => measured'[q] = measured[q]
  BY <1>1, <1>3
<1>5. ASSUME NEW q \in DOMAIN Pairs, NEW side \in Sides, BothThere(q, side)'
      PROVE  measured'[q][side] = FoundProfit(q, side)'
  <2>1. CASE q = p
    BY <1>2, <1>4, <1>5, <2>1 DEF BothThere, FoundProfit
  <2>2. CASE q # p
    <3>1. serumBooks'[q] = serumBooks[q] /\ ftxBooks'[q] = ftxBooks[q] /\ measured'[q] = measured[q]
      BY <1>4, <2>2, ToldBooks
    <3>2. BothThere(q, side) => measured[q][side] = FoundProfit(q, side)
      BY DEF DecisionIInv, MeasuredOfBooks
    <3> QED BY <1>5, <3>1, <3>2 DEF BothThere, FoundProfit
  <2> QED BY <2>1, <2>2
<1> QED BY <1>4, <1>5 DEF MeasuredOfBooks

LEMMA DecisionStepKeeps == ASSUME DecisionIInv, BookStep PROVE DecisionIInv'
<1>1. UNCHANGED command /\ OneStrategy'
  BY DEF DecisionIInv, OneStrategy, BookStep
<1>2. CASE UNCHANGED <<serumBooks, ftxBooks, isTrading, measured>>
  BY <1>1, <1>2
  DEF DecisionIInv, BooksTypeOK, DecidedOnBooks, MeasuredOfBooks, BothThere, FoundProfit
<1>3. ASSUME command[Trader] = "take_strategy", UNCHANGED measured,
             NEW p \in DOMAIN Pairs, NEW book \in Books, Decides(p, book)
      PROVE  DecisionIInv'
  <2>1. BooksTypeOK'
    BY <1>3, ToldBooks DEF Decides, BookTold, DecisionIInv, BooksTypeOK
  <2>2. MeasuredOfBooks'
    BY <1>1, <1>3 DEF MeasuredOfBooks
  <2> QED BY <1>1, <1>3, <2>1, <2>2, UpdateDecides DEF DecisionIInv
<1>4. ASSUME command[Trader] = "backtest_strategy",
             NEW p \in DOMAIN Pairs, NEW book \in Books, BookTold(p, book), Measure(p)
      PROVE  DecisionIInv'
  <2>1. BooksTypeOK'
    BY <1>4, ToldBooks, MeasureFollows DEF BooksTypeOK
  <2>2. DecidedOnBooks'
    BY <1>1, <1>4 DEF DecidedOnBooks
  <2> QED BY <1>1, <1>4, <2>1, <2>2, MeasureFollows DEF DecisionIInv
<1> QED BY <1>2, <1>3, <1>4 DEF BookStep

LEMMA DecisionInit == ClientInit => DecisionIInv
<1> SUFFICES ASSUME ClientInit PROVE DecisionIInv
  OBVIOUS
<1>1. /\ phase = "none" /\ testPhase = "none"
      /\ serumBooks = [p \in DOMAIN Pairs |-> NoBook] /\ ftxBooks = serumBooks
      /\ measured = [p \in DOMAIN Pairs |-> [side \in {"bid", "ask"} |-> 0]]
  BY DEF ClientInit, StrategyInit, TestInit
<1>2. BooksTypeOK
  BY <1>1 DEF BooksTypeOK
<1>3. \A p \in DOMAIN Pairs, side \in Sides : ~BothThere(p, side)
  BY <1>1 DEF BothThere, NoBook, Sides
<1> QED BY <1>1, <1>2, <1>3 DEF DecisionIInv, OneStrategy, DecidedOnBooks, MeasuredOfBooks

THEOREM DecisionInvariance == ClientSpec => []DecisionIInv
<1>1. DecisionIInv /\ [ClientNext]_allVars => DecisionIInv'
  BY BookStepOfClient, DecisionStepKeeps
<1> QED BY DecisionInit, <1>1, PTL DEF ClientSpec

\* Whichever exchange told its book last, the take strategy has looked at the books of every
\* pair as they are: while it does not trade, the profit it finds in none is enough.
THEOREM DecidedOnCurrentBooks == ClientSpec => []DecidedOnBooks
BY DecisionInvariance, PTL DEF DecisionIInv

\* ... and the backtest has published what it finds in them.
THEOREM MeasuredOnCurrentBooks == ClientSpec => []MeasuredOfBooks
BY DecisionInvariance, PTL DEF DecisionIInv

-----------------------------------------------------------------------------
\* The walk of two sides of a book, for any sorted sides: what Arbitrage finds in them covers
\* the profit of matching each unit once.
Level == [price : Nat, quantity : Nat]

LEMMA QuantitiesOf ==
  ASSUME NEW levels \in Seq(Level)
  PROVE  /\ Len(levels) \in Nat /\ DOMAIN levels = 1 .. Len(levels)
         /\ \A i \in DOMAIN levels : levels[i].price \in Nat /\ levels[i].quantity \in Nat
         /\ \A k \in Nat : QuantityAt(levels, k) \in Nat
<1>1. Len(levels) \in Nat /\ DOMAIN levels = 1 .. Len(levels)
  BY LenProperties
<1>2. ASSUME NEW i \in DOMAIN levels PROVE levels[i].price \in Nat /\ levels[i].quantity \in Nat
  <2>1. levels[i] \in Level
    BY <1>1, ElementOfSeq
  <2> QED BY <2>1 DEF Level
<1>3. ASSUME NEW k \in Nat PROVE QuantityAt(levels, k) \in Nat
  BY <1>2 DEF QuantityAt
<1> QED BY <1>1, <1>2, <1>3

\* The units of the first levels of a side, level by level.
LEMMA UnitsSum ==
  ASSUME NEW levels \in Seq(Level)
  PROVE  /\ UnitsTo(levels, 0) = 0
         /\ \A i \in Nat : UnitsTo(levels, i) \in Nat
         /\ \A i \in Nat : UnitsTo(levels, i + 1) = UnitsTo(levels, i) + QuantityAt(levels, i + 1)
<1> DEFINE goesOn == [x \in Nat \X Nat |-> x[2] + QuantityAt(levels, x[1])]
           Sums(f) == f = [k \in Nat |-> IF k = 0 THEN 0 ELSE f[k - 1] + QuantityAt(levels, k)]
           sum == CHOOSE f : Sums(f)
<1>1. \A k \in Nat : QuantityAt(levels, k) \in Nat
  BY QuantitiesOf
<1>2. \A k, v \in Nat : goesOn[<<k, v>>] = v + QuantityAt(levels, k)
  OBVIOUS
<1> HIDE DEF goesOn
<1>3. Steps(Nat, Nat, 0, goesOn)
  <2>1. ASSUME NEW k \in Nat, NEW v \in Nat PROVE goesOn[<<k, v>>] \in Nat
    <3>1. goesOn[<<k, v>>] = v + QuantityAt(levels, k) /\ QuantityAt(levels, k) \in Nat
      BY <1>1, <1>2
    <3> QED BY <3>1
  <2> QED BY <2>1 DEF Steps
<1>4. PICK f : Iterates(f, Nat, Nat, 0, goesOn)
  BY <1>3, IterationExists
<1>5. f \in [Nat -> Nat] /\ \A k \in Nat : f[k] = IF k = 0 THEN 0 ELSE f[k - 1] + QuantityAt(levels, k)
  <2>1. f \in [Nat -> Nat] /\ \A k \in Nat : f[k] = IF k = 0 THEN 0 ELSE goesOn[<<k, f[k - 1]>>]
    BY <1>4 DEF Iterates
  <2>2. ASSUME NEW k \in Nat, k # 0
        PROVE  f[k] = f[k - 1] + QuantityAt(levels, k)
    <3>1. k - 1 \in Nat
      BY <2>2
    <3>2. f[k - 1] \in Nat
      BY <2>1, <3>1
    <3>3. f[k] = goesOn[<<k, f[k - 1]>>]
      BY <2>1, <2>2
    <3> QED BY <1>2, <3>2, <3>3
  <2> QED BY <2>1, <2>2
<1>6. Sums(f)
  BY <1>5
<1>7. Sums(sum)
  BY <1>6
<1>8. \A i : UnitsTo(levels, i) = sum[i]
  BY DEF UnitsTo
<1>9. \A k \in Nat : sum[k] = IF k = 0 THEN 0 ELSE sum[k - 1] + QuantityAt(levels, k)
  BY <1>7
<1> HIDE DEF sum, Sums
<1>10. sum[0] = 0 /\ \A k \in Nat : sum[k + 1] = sum[k] + QuantityAt(levels, k + 1)
  BY <1>9
<1> DEFINE Good == {k \in Nat : sum[k] \in Nat}
<1>11. 0 \in Good
  BY <1>10
<1>13. ASSUME NEW k \in Nat, k \in Good PROVE k + 1 \in Good
  <2>1. k + 1 \in Nat
    OBVIOUS
  <2>2. sum[k + 1] = sum[k] + QuantityAt(levels, k + 1) /\ QuantityAt(levels, k + 1) \in Nat
    BY <1>1, <1>10, <2>1
  <2> QED BY <1>13, <2>1, <2>2
<1> HIDE DEF Good
<1>12. \A k \in Nat : k \in Good
  BY <1>11, <1>13, Induction
<1> QED BY <1>8, <1>10, <1>12 DEF Good

LEMMA UnitsGrow ==
  ASSUME NEW levels \in Seq(Level), NEW i \in Nat, NEW j \in Nat, i =< j
  PROVE  UnitsTo(levels, i) =< UnitsTo(levels, j)
<1> DEFINE units == [k \in Nat |-> UnitsTo(levels, k)]
           Good == {n \in Nat : units[i] =< units[i + n]}
<1>1. ASSUME NEW k \in Nat PROVE units[k] \in Nat /\ units[k] =< units[k + 1]
  <2>1. k + 1 \in Nat /\ QuantityAt(levels, k + 1) \in Nat
    BY QuantitiesOf
  <2>2. /\ UnitsTo(levels, k) \in Nat /\ UnitsTo(levels, k + 1) \in Nat
        /\ UnitsTo(levels, k + 1) = UnitsTo(levels, k) + QuantityAt(levels, k + 1)
    BY <2>1, UnitsSum
  <2> QED BY <2>1, <2>2
<1> HIDE DEF units
<1>2. 0 \in Good
  <2>1. i + 0 = i /\ units[i] \in Nat
    BY <1>1
  <2> QED BY <2>1
<1>3. ASSUME NEW n \in Nat, n \in Good PROVE n + 1 \in Good
  <2>1. i + n \in Nat /\ (i + n) + 1 = i + (n + 1) /\ i + (n + 1) \in Nat
    OBVIOUS
  <2>2. /\ units[i + n] =< units[i + (n + 1)]
        /\ units[i] \in Nat /\ units[i + n] \in Nat /\ units[i + (n + 1)] \in Nat
    BY <1>1, <2>1
  <2>3. units[i] =< units[i + n]
    BY <1>3
  <2> QED BY <2>2, <2>3
<1> HIDE DEF Good
<1>4. \A n \in Nat : n \in Good
  BY <1>2, <1>3, Induction
<1>5. j - i \in Nat /\ i + (j - i) = j
  OBVIOUS
<1>6. units[i] =< units[j]
  BY <1>4, <1>5 DEF Good
<1> QED BY <1>6 DEF units

\* The level of a unit is the one whose units it is among,
LEMMA LevelOfUnit ==
  ASSUME NEW levels \in Seq(Level), NEW i \in DOMAIN levels, NEW n \in Nat,
         UnitsTo(levels, i - 1) < n, n =< UnitsTo(levels, i)
  PROVE  LevelOf(levels, n) = levels[i]
<1> DEFINE Has(k) == UnitsTo(levels, k - 1) < n /\ n =< UnitsTo(levels, k)
<1>1. DOMAIN levels \subseteq Nat \ {0}
  BY LenProperties
<1>2. ASSUME NEW j \in DOMAIN levels, Has(j) PROVE j = i
  <2>1. i \in Nat /\ j \in Nat /\ i - 1 \in Nat /\ j - 1 \in Nat
    BY <1>1
  <2>2. /\ UnitsTo(levels, i) \in Nat /\ UnitsTo(levels, j) \in Nat
        /\ UnitsTo(levels, i - 1) \in Nat /\ UnitsTo(levels, j - 1) \in Nat
    BY <2>1, UnitsSum
  <2>3. CASE j < i
    <3>1. UnitsTo(levels, j) =< UnitsTo(levels, i - 1)
      BY <2>1, <2>3, UnitsGrow
    <3> QED BY <1>2, <2>2, <3>1
  <2>4. CASE i < j
    <3>1. UnitsTo(levels, i) =< UnitsTo(levels, j - 1)
      BY <2>1, <2>4, UnitsGrow
    <3> QED BY <1>2, <2>2, <3>1
  <2> QED BY <2>1, <2>3, <2>4
<1>3. Has(i)
  OBVIOUS
<1>4. LevelOf(levels, n) = levels[CHOOSE k \in DOMAIN levels : Has(k)]
  BY DEF LevelOf
<1>5. (CHOOSE k \in DOMAIN levels : Has(k)) = i
  BY <1>2, <1>3
<1> QED BY <1>4, <1>5

\* and each unit that the side has beyond those of the levels before s is of s or a later level.
LEMMA LevelOfLater ==
  ASSUME NEW levels \in Seq(Level), NEW s \in Nat \ {0}, NEW n \in Nat,
         UnitsTo(levels, s - 1) < n, n =< UnitsTo(levels, Len(levels))
  PROVE  \E i \in DOMAIN levels : s =< i /\ LevelOf(levels, n) = levels[i]
<1> DEFINE Enough == {k \in Nat : n =< UnitsTo(levels, k)}
<1>1. Len(levels) \in Nat /\ DOMAIN levels = 1 .. Len(levels) /\ s - 1 \in Nat
  BY LenProperties
<1>2. PICK i \in Enough : \A k \in Enough : i =< k
  BY <1>1, LeastExists
<1>3. \A k \in Nat : UnitsTo(levels, k) \in Nat
  BY UnitsSum
<1>4. s =< i
  <2>1. ASSUME i =< s - 1 PROVE FALSE
    <3>1. UnitsTo(levels, i) =< UnitsTo(levels, s - 1)
      BY <1>1, <2>1, UnitsGrow
    <3> QED BY <1>1, <1>3, <3>1
  <2> QED BY <1>1, <2>1
<1>5. i =< Len(levels)
  BY <1>1, <1>2
<1>6. i \in DOMAIN levels /\ i - 1 \in Nat
  BY <1>1, <1>4, <1>5
<1>7. UnitsTo(levels, i - 1) < n
  <2>1. i - 1 \notin Enough
    BY <1>2, <1>6
  <2>2. ~(n =< UnitsTo(levels, i - 1))
    BY <1>6, <2>1
  <2>3. UnitsTo(levels, i - 1) \in Nat
    BY <1>3, <1>6
  <2> QED BY <2>2, <2>3
<1>8. LevelOf(levels, n) = levels[i]
  BY <1>6, <1>7, LevelOfUnit
<1> QED BY <1>4, <1>6, <1>8

-----------------------------------------------------------------------------
\* Levels that cross make a profit; once two levels do not cross, no later ones do.
LEMMA CrossingPays ==
  ASSUME NEW side, NEW s \in Level, NEW f \in Level
  PROVE  /\ UnitProfit(side, s, f) \in Int
         /\ Crosses(side, s, f) => UnitProfit(side, s, f) > 0
<1>1. s.price \in Nat /\ f.price \in Nat
  BY DEF Level
<1>2. CASE side = "bid"
  BY <1>1, <1>2 DEF Crosses, UnitProfit, Unit, SerumTakerFee, FtxTakerFee
<1>3. CASE side # "bid"
  BY <1>1, <1>3 DEF Crosses, UnitProfit, Unit, SerumTakerFee, FtxTakerFee
<1> QED BY <1>2, <1>3

Sorted(side, serum, ftx) ==
    /\ serum \in Seq(Level) /\ BestLevelFirst(side, serum)
    /\ ftx \in Seq(Level) /\ BestLevelFirst(SideFlip(side), ftx)

LEMMA NoneCrossesLater ==
  ASSUME NEW side \in Sides, NEW serum, NEW ftx, Sorted(side, serum, ftx),
         NEW s \in DOMAIN serum, NEW i \in DOMAIN serum, s =< i,
         NEW f \in DOMAIN ftx, NEW j \in DOMAIN ftx, f =< j,
         ~Crosses(side, serum[s], ftx[f])
  PROVE  ~Crosses(side, serum[i], ftx[j])
<1>1. /\ DOMAIN serum = 1 .. Len(serum) /\ Len(serum) \in Nat
      /\ DOMAIN ftx = 1 .. Len(ftx) /\ Len(ftx) \in Nat
      /\ \A k \in DOMAIN serum : serum[k].price \in Nat
      /\ \A k \in DOMAIN ftx : ftx[k].price \in Nat
  BY QuantitiesOf DEF Sorted
<1>4. PICK a, b, c, d \in Nat : /\ a = serum[s].price /\ b = serum[i].price
                              /\ c = ftx[f].price /\ d = ftx[j].price
  BY <1>1
<1>2. CASE side = "bid"
  <2>1. serum[i].price =< serum[s].price
    BY <1>1, <1>2 DEF Sorted, BestLevelFirst
  <2>2. ftx[f].price =< ftx[j].price
    BY <1>1, <1>2 DEF Sorted, BestLevelFirst, SideFlip
  <2>3. ~(a * 9997 > c * 10020) /\ b =< a /\ c =< d
    BY <1>2, <1>4, <2>1, <2>2 DEF Crosses, Unit, SerumTakerFee, FtxTakerFee
  <2>4. ~(b * 9997 > d * 10020)
    BY <2>3
  <2> QED BY <1>2, <1>4, <2>4 DEF Crosses, Unit, SerumTakerFee, FtxTakerFee
<1>3. CASE side = "ask"
  <2>1. serum[s].price =< serum[i].price
    BY <1>1, <1>3 DEF Sorted, BestLevelFirst
  <2>2. ftx[j].price =< ftx[f].price
    BY <1>1, <1>3 DEF Sorted, BestLevelFirst, SideFlip
  <2>3. ~(a * 10003 < c * 9980) /\ a =< b /\ d =< c
    BY <1>3, <1>4, <2>1, <2>2 DEF Crosses, Unit, SerumTakerFee, FtxTakerFee
  <2>4. ~(b * 10003 < d * 9980)
    BY <2>3
  <2> QED BY <1>3, <1>4, <2>4 DEF Crosses, Unit, SerumTakerFee, FtxTakerFee
<1> QED BY <1>2, <1>3 DEF Sides

-----------------------------------------------------------------------------
\* The profit of matching the first n units, unit by unit.
MatchedUnits(serum, ftx) == Smaller(UnitsTo(serum, Len(serum)), UnitsTo(ftx, Len(ftx)))
Profits(sum, side, serum, ftx) ==
    sum = [n \in 0 .. MatchedUnits(serum, ftx) |->
              IF n = 0 THEN 0 ELSE sum[n - 1] + ProfitOf(side, LevelOf(serum, n), LevelOf(ftx, n))]

LEMMA UnitMatched ==
  ASSUME NEW side, NEW serum \in Seq(Level), NEW ftx \in Seq(Level)
  PROVE  /\ MatchedUnits(serum, ftx) \in Nat
         /\ MatchedUnits(serum, ftx) =< UnitsTo(serum, Len(serum))
         /\ MatchedUnits(serum, ftx) =< UnitsTo(ftx, Len(ftx))
         /\ MatchedUnits(serum, ftx) \in {UnitsTo(serum, Len(serum)), UnitsTo(ftx, Len(ftx))}
         /\ \A n \in 1 .. MatchedUnits(serum, ftx) :
               ProfitOf(side, LevelOf(serum, n), LevelOf(ftx, n)) \in Int
<1>1. Len(serum) \in Nat /\ Len(ftx) \in Nat
  BY LenProperties
<1>2. UnitsTo(serum, Len(serum)) \in Nat /\ UnitsTo(ftx, Len(ftx)) \in Nat
  BY <1>1, UnitsSum
<1>3. /\ MatchedUnits(serum, ftx) \in Nat
      /\ MatchedUnits(serum, ftx) =< UnitsTo(serum, Len(serum))
      /\ MatchedUnits(serum, ftx) =< UnitsTo(ftx, Len(ftx))
      /\ MatchedUnits(serum, ftx) \in {UnitsTo(serum, Len(serum)), UnitsTo(ftx, Len(ftx))}
  BY <1>2 DEF MatchedUnits, Smaller
<1>4. ASSUME NEW n \in 1 .. MatchedUnits(serum, ftx)
      PROVE  ProfitOf(side, LevelOf(serum, n), LevelOf(ftx, n)) \in Int
  <2>1. n \in Nat /\ 1 \in Nat \ {0} /\ n > 0 /\ 1 - 1 = 0
    BY <1>3
  <2>2. UnitsTo(serum, 0) < n /\ UnitsTo(ftx, 0) < n
    BY <2>1, UnitsSum
  <2>3. n =< UnitsTo(serum, Len(serum)) /\ n =< UnitsTo(ftx, Len(ftx))
    BY <1>2, <1>3
  <2>4. LevelOf(serum, n) \in Level
    <3>1. \E i \in DOMAIN serum : 1 =< i /\ LevelOf(serum, n) = serum[i]
      BY <2>1, <2>2, <2>3, LevelOfLater
    <3> QED BY <3>1, ElementOfSeq, LenProperties
  <2>5. LevelOf(ftx, n) \in Level
    <3>1. \E i \in DOMAIN ftx : 1 =< i /\ LevelOf(ftx, n) = ftx[i]
      BY <2>1, <2>2, <2>3, LevelOfLater
    <3> QED BY <3>1, ElementOfSeq, LenProperties
  <2> QED BY <2>4, <2>5, CrossingPays DEF ProfitOf
<1> QED BY <1>3, <1>4

LEMMA ProfitsExist ==
  ASSUME NEW side, NEW serum \in Seq(Level), NEW ftx \in Seq(Level)
  PROVE  \E sum \in [0 .. MatchedUnits(serum, ftx) -> Int] : Profits(sum, side, serum, ftx)
<1> DEFINE units == MatchedUnits(serum, ftx)
           profit == [n \in 1 .. units |-> ProfitOf(side, LevelOf(serum, n), LevelOf(ftx, n))]
           goesOn == [x \in (1 .. units) \X Int |-> x[2] + profit[x[1]]]
<1>1. units \in Nat /\ profit \in [1 .. units -> Int]
  BY UnitMatched
<1>2. \A n \in 1 .. units : profit[n] = ProfitOf(side, LevelOf(serum, n), LevelOf(ftx, n))
  OBVIOUS
<1> HIDE DEF profit, units
<1>3. \A n \in 1 .. units, v \in Int : goesOn[<<n, v>>] = v + profit[n]
  OBVIOUS
<1> HIDE DEF goesOn
<1>4. Steps(0 .. units, Int, 0, goesOn)
  <2>1. ASSUME NEW n \in 0 .. units, NEW v \in Int, n # 0 PROVE goesOn[<<n, v>>] \in Int
    <3>1. n \in 1 .. units
      BY <1>1, <2>1
    <3>2. profit[n] \in Int
      BY <1>1, <3>1
    <3>3. goesOn[<<n, v>>] = v + profit[n]
      BY <1>3, <3>1
    <3> QED BY <3>2, <3>3
  <2>2. \A n \in 0 .. units : n \in Nat /\ (n # 0 => n - 1 \in 0 .. units)
    BY <1>1
  <2> QED BY <2>1, <2>2 DEF Steps
<1>5. PICK f : Iterates(f, 0 .. units, Int, 0, goesOn)
  BY <1>4, IterationExists
<1>6. f \in [0 .. units -> Int]
  BY <1>5 DEF Iterates
<1>7. ASSUME NEW n \in 0 .. units
      PROVE  f[n] = IF n = 0 THEN 0 ELSE f[n - 1] + ProfitOf(side, LevelOf(serum, n), LevelOf(ftx, n))
  <2>1. CASE n = 0
    BY <1>5, <2>1 DEF Iterates
  <2>2. CASE n # 0
    <3>1. n \in 1 .. units /\ n - 1 \in 0 .. units
      BY <1>1, <2>2
    <3>2. f[n] = goesOn[<<n, f[n - 1]>>]
      BY <1>5, <2>2 DEF Iterates
    <3>3. f[n] = f[n - 1] + profit[n]
      BY <1>3, <1>6, <3>1, <3>2
    <3> QED BY <1>2, <2>2, <3>1, <3>3
  <2> QED BY <2>1, <2>2
<1>8. Profits(f, side, serum, ftx)
  BY <1>6, <1>7 DEF Profits, units
<1> QED BY <1>6, <1>8 DEF units

ExactSum(sum, side, serum, ftx) ==
    /\ sum \in [0 .. MatchedUnits(serum, ftx) -> Int]
    /\ sum[0] = 0
    /\ \A n \in 1 .. MatchedUnits(serum, ftx) :
          sum[n] = sum[n - 1] + ProfitOf(side, LevelOf(serum, n), LevelOf(ftx, n))
    /\ ExactProfit(side, serum, ftx) = sum[MatchedUnits(serum, ftx)]

LEMMA ExactProfitIsSum ==
  ASSUME NEW side, NEW serum \in Seq(Level), NEW ftx \in Seq(Level)
  PROVE  \E sum : ExactSum(sum, side, serum, ftx)
<1> DEFINE units == MatchedUnits(serum, ftx)
           sum == CHOOSE f : Profits(f, side, serum, ftx)
<1>1. PICK f \in [0 .. units -> Int] : Profits(f, side, serum, ftx)
  BY ProfitsExist
<1>2. Profits(sum, side, serum, ftx)
  BY <1>1
<1>3. ExactProfit(side, serum, ftx) = sum[units]
  BY DEF ExactProfit, Profits, MatchedUnits
<1>4. units \in Nat
  BY UnitMatched
<1> HIDE DEF sum
<1>5. /\ sum = [n \in 0 .. units |->
                   IF n = 0 THEN 0 ELSE sum[n - 1] + ProfitOf(side, LevelOf(serum, n), LevelOf(ftx, n))]
      /\ f = [n \in 0 .. units |->
                   IF n = 0 THEN 0 ELSE f[n - 1] + ProfitOf(side, LevelOf(serum, n), LevelOf(ftx, n))]
  BY <1>1, <1>2 DEF Profits
<1> HIDE DEF units
<1> DEFINE profit(n) == ProfitOf(side, LevelOf(serum, n), LevelOf(ftx, n))
           Good == {n \in Nat : n =< units => sum[n] = f[n]}
<1>6. /\ \A n \in 0 .. units : sum[n] = IF n = 0 THEN 0 ELSE sum[n - 1] + profit(n)
      /\ \A n \in 0 .. units : f[n] = IF n = 0 THEN 0 ELSE f[n - 1] + profit(n)
  BY <1>5
<1> HIDE DEF profit
<1>7. 0 \in Good
  BY <1>4, <1>6
<1>8. ASSUME NEW n \in Nat, n \in Good PROVE n + 1 \in Good
  <2>1. (n + 1) - 1 = n /\ n + 1 \in Nat /\ n + 1 # 0
    OBVIOUS
  <2>2. ASSUME n + 1 =< units PROVE sum[n + 1] = f[n + 1]
    <3>1. n + 1 \in 0 .. units /\ sum[n] = f[n]
      BY <1>4, <1>8, <2>2
    <3> QED BY <1>6, <2>1, <3>1
  <2> QED BY <2>1, <2>2
<1> HIDE DEF Good
<1>9. \A n \in Nat : n \in Good
  BY <1>7, <1>8, Induction
<1>10. \A n \in 0 .. units : sum[n] = f[n]
  BY <1>4, <1>9 DEF Good
<1>11. sum \in [0 .. units -> Int]
  BY <1>5, <1>10
<1>12. sum[0] = 0 /\ \A n \in 1 .. units : sum[n] = sum[n - 1] + profit(n)
  BY <1>4, <1>6
<1>13. ExactSum(sum, side, serum, ftx)
  BY <1>3, <1>11, <1>12 DEF profit, units, ExactSum
<1> QED BY <1>13

-----------------------------------------------------------------------------
\* Where the walk can stand: at levels of both sides or behind the last of one.
WalkStates ==
    [s : Nat \ {0}, f : Nat \ {0}, remainingSerum : Int, remainingFtx : Int,
     quantity : Nat, profit : Int, price : Nat, ends : BOOLEAN]
Over(serum, ftx, a) == a.ends \/ a.s > Len(serum) \/ a.f > Len(ftx)
Walked(w, side, serum, ftx) ==
    w = [n \in Nat |-> IF n = 0 THEN ArbitrageStart(serum, ftx)
                       ELSE LET a == w[n - 1]
                            IN  IF a.ends \/ a.s > Len(serum) \/ a.f > Len(ftx) THEN a
                                ELSE ArbitrageStep(side, serum, ftx, a)]

\* One match: both remainders go down by the units they share, and the profit of the whole
\* of the smaller level is made.
MatchOf(side, serum, ftx, a, b) ==
    LET size == Smaller(serum[a.s].quantity, ftx[a.f].quantity)
        left == a.remainingSerum - a.remainingFtx
    IN  /\ b.s = IF left =< 0 THEN a.s + 1 ELSE a.s
        /\ b.f = IF left >= 0 THEN a.f + 1 ELSE a.f
        /\ b.remainingSerum = IF left =< 0 THEN QuantityAt(serum, a.s + 1) ELSE left
        /\ b.remainingFtx = IF left >= 0 THEN QuantityAt(ftx, a.f + 1) ELSE -left
        /\ b.profit = a.profit + UnitProfit(side, serum[a.s], ftx[a.f]) * size
        /\ b.ends = a.ends

LEMMA StepOfWalk ==
  ASSUME NEW side, NEW serum \in Seq(Level), NEW ftx \in Seq(Level),
         NEW a \in WalkStates, ~Over(serum, ftx, a), NEW b, b = ArbitrageStep(side, serum, ftx, a)
  PROVE  /\ b \in WalkStates
         /\ Crosses(side, serum[a.s], ftx[a.f]) => MatchOf(side, serum, ftx, a, b)
         /\ ~Crosses(side, serum[a.s], ftx[a.f]) => b = [a EXCEPT !.ends = TRUE]
<1> DEFINE size == Smaller(serum[a.s].quantity, ftx[a.f].quantity)
           left == a.remainingSerum - a.remainingFtx
           pays == UnitProfit(side, serum[a.s], ftx[a.f])
<1>1. /\ a.s \in Nat \ {0} /\ a.f \in Nat \ {0} /\ a.remainingSerum \in Int /\ a.remainingFtx \in Int
      /\ a.quantity \in Nat /\ a.profit \in Int /\ a.price \in Nat /\ a.ends \in BOOLEAN
  BY DEF WalkStates
<1>2. a.s \in DOMAIN serum /\ a.f \in DOMAIN ftx
  BY <1>1, LenProperties DEF Over
<1>3. serum[a.s] \in Level /\ ftx[a.f] \in Level
  BY <1>2, ElementOfSeq, LenProperties
<1>4. size \in Nat /\ serum[a.s].price \in Nat /\ pays \in Int
  <2>1. serum[a.s].quantity \in Nat /\ ftx[a.f].quantity \in Nat /\ serum[a.s].price \in Nat
    BY <1>3 DEF Level
  <2>2. size \in {serum[a.s].quantity, ftx[a.f].quantity}
    BY DEF Smaller
  <2>3. pays \in Int
    BY <1>3, CrossingPays
  <2> HIDE DEF size, pays
  <2> QED BY <2>1, <2>2, <2>3
<1>5. a.s + 1 \in Nat \ {0} /\ a.f + 1 \in Nat \ {0} /\ left \in Int /\ -left \in Int
  <2>1. left \in Int
    BY <1>1
  <2>2. a.s + 1 \in Nat \ {0} /\ a.f + 1 \in Nat \ {0}
    BY <1>1
  <2> HIDE DEF left
  <2> QED BY <2>1, <2>2
<1>6. QuantityAt(serum, a.s + 1) \in Int /\ QuantityAt(ftx, a.f + 1) \in Int
  <2>1. \A k \in Nat : QuantityAt(serum, k) \in Nat /\ QuantityAt(ftx, k) \in Nat
    BY QuantitiesOf
  <2>2. a.s + 1 \in Nat /\ a.f + 1 \in Nat
    BY <1>5
  <2>3. QuantityAt(serum, a.s + 1) \in Nat /\ QuantityAt(ftx, a.f + 1) \in Nat
    BY <2>1, <2>2, Zenon
  <2> QED BY <2>3
<1>7. CASE Crosses(side, serum[a.s], ftx[a.f])
  <2>1. b = Match(side, serum, ftx, a)
    BY <1>7 DEF ArbitrageStep
  <2>2. PICK c : c = Advance(a, serum, ftx)
    OBVIOUS
  <2>3. b = [c EXCEPT !.quantity = @ + size, !.price = serum[a.s].price, !.profit = @ + pays * size]
    BY <2>1, <2>2 DEF Match
  <2>4. c = [a EXCEPT !.s = IF left =< 0 THEN @ + 1 ELSE @, !.f = IF left >= 0 THEN @ + 1 ELSE @,
                      !.remainingSerum = IF left =< 0 THEN QuantityAt(serum, a.s + 1) ELSE left,
                      !.remainingFtx = IF left >= 0 THEN QuantityAt(ftx, a.f + 1) ELSE -left]
    BY <2>2 DEF Advance
  <2> HIDE DEF left, size, pays
  <2>5. /\ c \in WalkStates
        /\ c.s = IF left =< 0 THEN a.s + 1 ELSE a.s
        /\ c.f = IF left >= 0 THEN a.f + 1 ELSE a.f
        /\ c.remainingSerum = IF left =< 0 THEN QuantityAt(serum, a.s + 1) ELSE left
        /\ c.remainingFtx = IF left >= 0 THEN QuantityAt(ftx, a.f + 1) ELSE -left
        /\ c.profit = a.profit /\ c.ends = a.ends
    <3>1. PICK s, f \in Nat \ {0}, r, q \in Int :
             /\ s = IF left =< 0 THEN a.s + 1 ELSE a.s
             /\ f = IF left >= 0 THEN a.f + 1 ELSE a.f
             /\ r = IF left =< 0 THEN QuantityAt(serum, a.s + 1) ELSE left
             /\ q = IF left >= 0 THEN QuantityAt(ftx, a.f + 1) ELSE -left
      BY <1>1, <1>5, <1>6
    <3>2. c = [a EXCEPT !.s = s, !.f = f, !.remainingSerum = r, !.remainingFtx = q]
      BY <2>4, <3>1
    <3>4. a = [s |-> a.s, f |-> a.f, remainingSerum |-> a.remainingSerum, remainingFtx |-> a.remainingFtx,
               quantity |-> a.quantity, profit |-> a.profit, price |-> a.price, ends |-> a.ends]
      BY DEF WalkStates
    <3>5. c = [s |-> s, f |-> f, remainingSerum |-> r, remainingFtx |-> q,
               quantity |-> a.quantity, profit |-> a.profit, price |-> a.price, ends |-> a.ends]
      BY <3>2, <3>4
    <3>3. /\ c \in WalkStates /\ c.s = s /\ c.f = f /\ c.remainingSerum = r /\ c.remainingFtx = q
          /\ c.profit = a.profit /\ c.ends = a.ends
      BY <1>1, <3>5 DEF WalkStates
    <3> QED BY <3>1, <3>3
  <2>6. /\ c.quantity + size \in Nat /\ c.profit + pays * size \in Int
    <3>1. c.quantity \in Nat /\ c.profit \in Int
      BY <2>5 DEF WalkStates
    <3>2. pays * size \in Int
      BY <1>4
    <3> QED BY <1>4, <3>1, <3>2
  <2>7. /\ b \in WalkStates
        /\ b.s = c.s /\ b.f = c.f /\ b.remainingSerum = c.remainingSerum /\ b.remainingFtx = c.remainingFtx
        /\ b.profit = c.profit + pays * size /\ b.ends = c.ends
    BY <1>4, <2>3, <2>5, <2>6 DEF WalkStates
  <2>8. MatchOf(side, serum, ftx, a, b)
    BY <2>5, <2>7 DEF MatchOf, left, size, pays
  <2> QED BY <1>7, <2>7, <2>8
<1>8. CASE ~Crosses(side, serum[a.s], ftx[a.f])
  <2>1. b = [a EXCEPT !.ends = TRUE]
    BY <1>8 DEF ArbitrageStep
  <2>2. b \in WalkStates
    BY <2>1 DEF WalkStates
  <2> QED BY <1>8, <2>1, <2>2
<1> QED BY <1>7, <1>8

AtStart(serum, ftx, a) ==
    /\ a.s = 1 /\ a.f = 1 /\ a.profit = 0 /\ a.ends = FALSE
    /\ a.remainingSerum = QuantityAt(serum, 1) /\ a.remainingFtx = QuantityAt(ftx, 1)

LEMMA StartOfWalk ==
  ASSUME NEW serum \in Seq(Level), NEW ftx \in Seq(Level), serum # <<>>, ftx # <<>>,
         NEW a, a = ArbitrageStart(serum, ftx)
  PROVE  a \in WalkStates /\ AtStart(serum, ftx, a)
<1>1. 1 \in DOMAIN serum /\ 1 \in DOMAIN ftx
  BY EmptySeq, LenProperties
<1>2. QuantityAt(serum, 1) = serum[1].quantity /\ QuantityAt(ftx, 1) = ftx[1].quantity
  BY <1>1 DEF QuantityAt
<1>3. QuantityAt(serum, 1) \in Int /\ QuantityAt(ftx, 1) \in Int
  BY QuantitiesOf
<1> QED BY <1>2, <1>3 DEF ArbitrageStart, WalkStates, AtStart

WalkOf(w, side, serum, ftx) ==
    /\ w \in [Nat -> WalkStates]
    /\ w[0] = ArbitrageStart(serum, ftx)
    /\ \A n \in Nat :
          w[n + 1] = IF Over(serum, ftx, w[n]) THEN w[n] ELSE ArbitrageStep(side, serum, ftx, w[n])
    /\ Arbitrage(side, serum, ftx) = w[Len(serum) + Len(ftx)]

LEMMA WalkExists ==
  ASSUME NEW side, NEW serum \in Seq(Level), NEW ftx \in Seq(Level), serum # <<>>, ftx # <<>>
  PROVE  \E w : WalkOf(w, side, serum, ftx)
<1> DEFINE Goes(a) == IF Over(serum, ftx, a) THEN a ELSE ArbitrageStep(side, serum, ftx, a)
           goesOn == [x \in Nat \X WalkStates |-> Goes(x[2])]
           base == ArbitrageStart(serum, ftx)
<1>1. \A n \in Nat, v \in WalkStates : goesOn[<<n, v>>] = Goes(v)
  OBVIOUS
<1>2. ASSUME NEW v \in WalkStates PROVE Goes(v) \in WalkStates
  <2>1. \A b : ~Over(serum, ftx, v) /\ b = ArbitrageStep(side, serum, ftx, v) => b \in WalkStates
    BY StepOfWalk
  <2> QED BY <2>1
<1>3. base \in WalkStates
  BY StartOfWalk
<1> HIDE DEF goesOn, Goes, base
<1>4. Steps(Nat, WalkStates, base, goesOn)
  <2>1. \A n \in Nat, v \in WalkStates : goesOn[<<n, v>>] \in WalkStates
    BY <1>1, <1>2
  <2> QED BY <1>3, <2>1 DEF Steps
<1>5. PICK g : Iterates(g, Nat, WalkStates, base, goesOn)
  BY <1>4, IterationExists
<1>6. g \in [Nat -> WalkStates]
  BY <1>5 DEF Iterates
<1>7. ASSUME NEW n \in Nat
      PROVE  g[n] = IF n = 0 THEN base ELSE Goes(g[n - 1])
  <2>1. CASE n = 0
    BY <1>5, <2>1 DEF Iterates
  <2>2. CASE n # 0
    <3>1. n - 1 \in Nat
      BY <2>2
    <3>2. g[n - 1] \in WalkStates /\ g[n] = goesOn[<<n, g[n - 1]>>]
      BY <1>5, <1>6, <2>2, <3>1 DEF Iterates
    <3> QED BY <1>1, <2>2, <3>2
  <2> QED BY <2>1, <2>2
<1>8. Walked(g, side, serum, ftx)
  BY <1>6, <1>7 DEF Walked, Goes, Over, base
<1> DEFINE w == CHOOSE h : Walked(h, side, serum, ftx)
<1>9. Walked(w, side, serum, ftx)
  BY <1>8
<1>10. Arbitrage(side, serum, ftx) = w[Len(serum) + Len(ftx)]
  BY DEF Arbitrage, Walked
<1> HIDE DEF w
<1>11. ASSUME NEW n \in Nat
       PROVE  w[n] = IF n = 0 THEN base ELSE Goes(w[n - 1])
  BY <1>9, Zenon DEF Walked, Goes, Over, base
<1> DEFINE Good == {n \in Nat : w[n] = g[n]}
<1>12. 0 \in Good
  BY <1>7, <1>11
<1>13. ASSUME NEW n \in Nat, n \in Good PROVE n + 1 \in Good
  <2>1. (n + 1) - 1 = n /\ n + 1 \in Nat /\ n + 1 # 0
    OBVIOUS
  <2>2. w[n + 1] = Goes(w[n]) /\ g[n + 1] = Goes(g[n])
    BY <1>7, <1>11, <2>1
  <2> QED BY <1>13, <2>1, <2>2
<1> HIDE DEF Good
<1>14. \A n \in Nat : w[n] = g[n]
  <2>1. \A n \in Nat : n \in Good
    BY <1>12, <1>13, Induction
  <2> QED BY <2>1 DEF Good
<1>15. \A n \in Nat : g[n + 1] = Goes(g[n])
  <2> SUFFICES ASSUME NEW n \in Nat PROVE g[n + 1] = Goes(g[n])
    OBVIOUS
  <2>1. (n + 1) - 1 = n /\ n + 1 \in Nat /\ n + 1 # 0
    OBVIOUS
  <2> QED BY <1>7, <2>1
<1>16. Arbitrage(side, serum, ftx) = g[Len(serum) + Len(ftx)]
  <2>1. Len(serum) + Len(ftx) \in Nat
    BY LenProperties
  <2> QED BY <1>10, <1>14, <2>1
<1>17. g[0] = base
  BY <1>7
<1>18. WalkOf(g, side, serum, ftx)
  BY <1>6, <1>15, <1>16, <1>17 DEF Goes, base, WalkOf
<1> QED BY <1>18

-----------------------------------------------------------------------------
\* The units matched so far end in the levels the walk stands at, what remains of these is
\* behind them, and what the units make exactly has been made.
Stands(levels, at, remaining, matched) ==
    /\ at \in 1 .. (Len(levels) + 1)
    /\ UnitsTo(levels, at - 1) =< matched /\ matched =< UnitsTo(levels, at)
    /\ remaining = UnitsTo(levels, at) - matched
Covers(sum, side, serum, ftx, a, matched) ==
    /\ matched \in 0 .. MatchedUnits(serum, ftx)
    /\ Stands(serum, a.s, a.remainingSerum, matched)
    /\ Stands(ftx, a.f, a.remainingFtx, matched)
    /\ sum[matched] =< a.profit
    /\ a.ends => /\ a.s =< Len(serum) /\ a.f =< Len(ftx)
                 /\ ~Crosses(side, serum[a.s], ftx[a.f])

\* The units of a side up to its end, and behind it.
LEMMA UnitsBehind ==
  ASSUME NEW levels \in Seq(Level)
  PROVE  UnitsTo(levels, Len(levels) + 1) = UnitsTo(levels, Len(levels))
<1>1. Len(levels) \in Nat /\ Len(levels) + 1 \notin DOMAIN levels
  BY LenProperties
<1>2. QuantityAt(levels, Len(levels) + 1) = 0
  BY <1>1 DEF QuantityAt
<1>3. /\ UnitsTo(levels, Len(levels)) \in Nat
      /\ UnitsTo(levels, Len(levels) + 1) = UnitsTo(levels, Len(levels)) + QuantityAt(levels, Len(levels) + 1)
  BY <1>1, UnitsSum
<1> QED BY <1>2, <1>3

\* What a side at which the walk stands has left, after n units more.
UnitsOn(levels, at, remaining, matched, n) ==
    /\ remaining \in Nat /\ remaining =< levels[at].quantity
    /\ \A k \in (matched + 1) .. (matched + n) : LevelOf(levels, k) = levels[at]
    /\ matched + n =< UnitsTo(levels, Len(levels))
    /\ Stands(levels, at, remaining - n, matched + n)
    /\ n = remaining => Stands(levels, at + 1, QuantityAt(levels, at + 1), matched + n)

LEMMA StandsOn ==
  ASSUME NEW levels \in Seq(Level), NEW at \in 1 .. Len(levels), NEW remaining, NEW matched \in Nat,
         Stands(levels, at, remaining, matched), NEW n \in Nat, n =< remaining
  PROVE  UnitsOn(levels, at, remaining, matched, n)
<1>1. /\ Len(levels) \in Nat /\ at \in Nat \ {0} /\ at - 1 \in Nat /\ at + 1 \in Nat /\ at \in DOMAIN levels
      /\ at = (at - 1) + 1 /\ at + 1 \in 1 .. (Len(levels) + 1) /\ (at + 1) - 1 = at
      /\ at \in 1 .. (Len(levels) + 1)
  BY LenProperties
<1>2. /\ UnitsTo(levels, at) \in Nat /\ UnitsTo(levels, at - 1) \in Nat /\ UnitsTo(levels, at + 1) \in Nat
      /\ UnitsTo(levels, Len(levels)) \in Nat
      /\ UnitsTo(levels, at) =< UnitsTo(levels, Len(levels))
  <2>1. \A k \in Nat : UnitsTo(levels, k) \in Nat
    BY UnitsSum
  <2>2. at \in Nat /\ at =< Len(levels)
    BY <1>1
  <2>3. UnitsTo(levels, at) =< UnitsTo(levels, Len(levels))
    BY <1>1, <2>2, UnitsGrow
  <2> QED BY <1>1, <2>1, <2>2, <2>3, Zenon
<1>3. /\ UnitsTo(levels, at) = UnitsTo(levels, at - 1) + levels[at].quantity
      /\ UnitsTo(levels, at + 1) = UnitsTo(levels, at) + QuantityAt(levels, at + 1)
      /\ levels[at].quantity \in Nat /\ QuantityAt(levels, at + 1) \in Nat
  <2>1. /\ UnitsTo(levels, (at - 1) + 1) = UnitsTo(levels, at - 1) + QuantityAt(levels, (at - 1) + 1)
        /\ UnitsTo(levels, at + 1) = UnitsTo(levels, at) + QuantityAt(levels, at + 1)
    BY <1>1, UnitsSum
  <2>2. QuantityAt(levels, at) = levels[at].quantity
    BY <1>1 DEF QuantityAt
  <2>3. \A k \in Nat : QuantityAt(levels, k) \in Nat
    BY QuantitiesOf
  <2> QED BY <1>1, <2>1, <2>2, <2>3
<1>4. /\ UnitsTo(levels, at - 1) =< matched /\ matched =< UnitsTo(levels, at)
      /\ remaining = UnitsTo(levels, at) - matched
  BY DEF Stands
<1>5. remaining \in Nat /\ remaining =< levels[at].quantity /\ matched + n =< UnitsTo(levels, at)
  <2>1. PICK above, upTo, quantity \in Nat :
           /\ above = UnitsTo(levels, at - 1) /\ upTo = UnitsTo(levels, at) /\ quantity = levels[at].quantity
    BY <1>2, <1>3
  <2>2. upTo = above + quantity /\ above =< matched /\ matched =< upTo /\ remaining = upTo - matched
    BY <1>3, <1>4, <2>1
  <2>3. remaining \in Nat /\ remaining =< quantity /\ matched + n =< upTo
    BY <2>2
  <2> QED BY <2>1, <2>3
<1>6. ASSUME NEW k \in (matched + 1) .. (matched + n) PROVE LevelOf(levels, k) = levels[at]
  <2>1. k \in Nat /\ matched < k /\ k =< matched + n
    OBVIOUS
  <2>2. UnitsTo(levels, at - 1) < k
    BY <1>2, <1>4, <2>1
  <2>3. k =< UnitsTo(levels, at)
    BY <1>2, <1>5, <2>1
  <2> QED BY <1>1, <2>1, <2>2, <2>3, LevelOfUnit
<1>7. Stands(levels, at, remaining - n, matched + n)
  <2>1. UnitsTo(levels, at - 1) =< matched + n
    BY <1>2, <1>4
  <2>2. remaining - n = UnitsTo(levels, at) - (matched + n)
    BY <1>2, <1>4
  <2> QED BY <1>1, <1>5, <2>1, <2>2 DEF Stands
<1>8. ASSUME n = remaining PROVE Stands(levels, at + 1, QuantityAt(levels, at + 1), matched + n)
  <2>1. matched + n = UnitsTo(levels, at)
    BY <1>2, <1>4, <1>8
  <2>2. /\ UnitsTo(levels, (at + 1) - 1) =< matched + n
        /\ matched + n =< UnitsTo(levels, at + 1)
        /\ QuantityAt(levels, at + 1) = UnitsTo(levels, at + 1) - (matched + n)
    <3>1. UnitsTo(levels, (at + 1) - 1) = UnitsTo(levels, at)
      BY <1>1
    <3>2. /\ UnitsTo(levels, at) = matched + n
          /\ UnitsTo(levels, at + 1) = (matched + n) + QuantityAt(levels, at + 1)
      BY <1>3, <2>1
    <3> QED BY <1>3, <3>1, <3>2
  <2> QED BY <1>1, <2>2 DEF Stands
<1>9. matched + n =< UnitsTo(levels, Len(levels))
  BY <1>2, <1>5
<1> QED BY <1>5, <1>6, <1>7, <1>8, <1>9 DEF UnitsOn

\* Units of the same two levels make the profit of one of them each.
Sums(sum, side, serum, ftx) ==
    /\ sum \in [0 .. MatchedUnits(serum, ftx) -> Int]
    /\ \A n \in 1 .. MatchedUnits(serum, ftx) :
          sum[n] = sum[n - 1] + ProfitOf(side, LevelOf(serum, n), LevelOf(ftx, n))

EachPays(side, serum, ftx, matched, n, pays) ==
    \A k \in (matched + 1) .. (matched + n) : ProfitOf(side, LevelOf(serum, k), LevelOf(ftx, k)) = pays

OfTwoLevels(sum, side, serum, ftx, matched, n, pays) ==
    /\ serum \in Seq(Level) /\ ftx \in Seq(Level) /\ Sums(sum, side, serum, ftx)
    /\ matched + n =< MatchedUnits(serum, ftx)
    /\ EachPays(side, serum, ftx, matched, n, pays)

UnitsPay(sum, matched, n, pays) == sum[matched + n] = sum[matched] + n * pays

LEMMA UnitsOfTwoLevels ==
  ASSUME NEW sum, NEW side, NEW serum, NEW ftx, NEW matched \in Nat, NEW n \in Nat, NEW pays \in Int,
         OfTwoLevels(sum, side, serum, ftx, matched, n, pays)
  PROVE  UnitsPay(sum, matched, n, pays)
<1> USE DEF UnitsPay
<1> DEFINE units == MatchedUnits(serum, ftx)
           Good == {k \in Nat : k =< n => sum[matched + k] = sum[matched] + k * pays}
<1>6. /\ serum \in Seq(Level) /\ ftx \in Seq(Level) /\ Sums(sum, side, serum, ftx)
      /\ matched + n =< units
      /\ EachPays(side, serum, ftx, matched, n, pays)
  BY DEF OfTwoLevels
<1>1. units \in Nat
  BY <1>6, UnitMatched
<1>2. /\ \A k \in 0 .. units : sum[k] \in Int
      /\ \A k \in 1 .. units : sum[k] = sum[k - 1] + ProfitOf(side, LevelOf(serum, k), LevelOf(ftx, k))
      /\ matched + n =< units
  BY <1>6 DEF Sums
<1> HIDE DEF units
<1>3. 0 \in Good
  <2>1. sum[matched] \in Int /\ matched + 0 = matched /\ 0 * pays = 0
    BY <1>1, <1>2
  <2> QED BY <2>1
<1>4. ASSUME NEW k \in Nat, k \in Good PROVE k + 1 \in Good
  <2> SUFFICES ASSUME k + 1 =< n PROVE sum[matched + (k + 1)] = sum[matched] + (k + 1) * pays
    OBVIOUS
  <2>1. /\ matched + (k + 1) \in 1 .. units /\ matched + (k + 1) \in (matched + 1) .. (matched + n)
        /\ (matched + (k + 1)) - 1 = matched + k /\ matched \in 0 .. units
    BY <1>1, <1>2
  <2>2. sum[matched + (k + 1)] = sum[matched + k] + pays
    BY <1>2, <1>6, <2>1 DEF EachPays
  <2>3. sum[matched + k] = sum[matched] + k * pays
    BY <1>4
  <2>4. (k + 1) * pays = k * pays + pays /\ k * pays \in Int
    OBVIOUS
  <2>5. sum[matched] \in Int
    BY <1>2, <2>1
  <2> HIDE DEF Good
  <2> QED BY <2>2, <2>3, <2>4, <2>5
<1> HIDE DEF Good
<1>5. \A k \in Nat : k \in Good
  BY <1>3, <1>4, Induction
<1> QED BY <1>5 DEF Good

LEMMA MoreUnitsPay ==
  ASSUME NEW n \in Nat, NEW size \in Nat, n =< size, NEW pays \in Nat
  PROVE  n * pays =< pays * size
<1>1. size - n \in Nat /\ size = n + (size - n)
  OBVIOUS
<1>2. pays * size = n * pays + (size - n) * pays
  OBVIOUS
<1>3. (size - n) * pays \in Nat
  BY <1>1
<1>4. n * pays \in Nat
  OBVIOUS
<1> QED BY <1>2, <1>3, <1>4

\* A match makes at least the profit of the units it matches.
Matches(sum, side, serum, ftx, a, matched, b) ==
    /\ serum \in Seq(Level) /\ ftx \in Seq(Level) /\ Sums(sum, side, serum, ftx)
    /\ a \in WalkStates /\ b \in WalkStates /\ Covers(sum, side, serum, ftx, a, matched)
    /\ ~Over(serum, ftx, a) /\ Crosses(side, serum[a.s], ftx[a.f])
    /\ MatchOf(side, serum, ftx, a, b)

LEMMA MatchCovers ==
  ASSUME NEW sum, NEW side, NEW serum, NEW ftx, NEW a, NEW matched, NEW b,
         Matches(sum, side, serum, ftx, a, matched, b)
  PROVE  \E m : Covers(sum, side, serum, ftx, b, m)
<1> DEFINE size == Smaller(serum[a.s].quantity, ftx[a.f].quantity)
           pays == UnitProfit(side, serum[a.s], ftx[a.f])
           n == Smaller(a.remainingSerum, a.remainingFtx)
           units == MatchedUnits(serum, ftx)
<1>18. /\ serum \in Seq(Level) /\ ftx \in Seq(Level) /\ Sums(sum, side, serum, ftx)
       /\ a \in WalkStates /\ b \in WalkStates /\ Covers(sum, side, serum, ftx, a, matched)
       /\ ~Over(serum, ftx, a) /\ Crosses(side, serum[a.s], ftx[a.f])
       /\ MatchOf(side, serum, ftx, a, b)
  BY DEF Matches
<1>1. /\ a.s \in Nat \ {0} /\ a.f \in Nat \ {0} /\ a.remainingSerum \in Int /\ a.remainingFtx \in Int
      /\ a.profit \in Int /\ a.ends = FALSE /\ b.profit \in Int
      /\ Len(serum) \in Nat /\ Len(ftx) \in Nat
  BY <1>18, LenProperties DEF WalkStates, Over
<1>2. a.s \in 1 .. Len(serum) /\ a.f \in 1 .. Len(ftx)
  BY <1>18, <1>1 DEF Over
<1>3. units \in Nat /\ matched \in Nat /\ matched =< units
      /\ units \in {UnitsTo(serum, Len(serum)), UnitsTo(ftx, Len(ftx))}
  <2>1. units \in Nat /\ units \in {UnitsTo(serum, Len(serum)), UnitsTo(ftx, Len(ftx))}
    BY <1>18, UnitMatched
  <2> QED BY <1>18, <2>1 DEF Covers
<1>4. /\ Stands(serum, a.s, a.remainingSerum, matched)
      /\ Stands(ftx, a.f, a.remainingFtx, matched)
      /\ sum[matched] =< a.profit
  BY <1>18 DEF Covers
<1>5. a.remainingSerum \in Nat /\ a.remainingFtx \in Nat
  <2>1. UnitsTo(serum, a.s) \in Nat /\ UnitsTo(ftx, a.f) \in Nat
    BY <1>18, <1>1, UnitsSum
  <2>2. /\ matched =< UnitsTo(serum, a.s) /\ a.remainingSerum = UnitsTo(serum, a.s) - matched
        /\ matched =< UnitsTo(ftx, a.f) /\ a.remainingFtx = UnitsTo(ftx, a.f) - matched
    BY <1>4 DEF Stands
  <2> QED BY <1>3, <2>1, <2>2
<1>6. n \in Nat /\ n =< a.remainingSerum /\ n =< a.remainingFtx
      /\ n \in {a.remainingSerum, a.remainingFtx}
  BY <1>5 DEF Smaller
<1> HIDE DEF n
<1>7. /\ a.remainingSerum =< serum[a.s].quantity
      /\ \A k \in (matched + 1) .. (matched + n) : LevelOf(serum, k) = serum[a.s]
      /\ matched + n =< UnitsTo(serum, Len(serum))
      /\ Stands(serum, a.s, a.remainingSerum - n, matched + n)
      /\ n = a.remainingSerum => Stands(serum, a.s + 1, QuantityAt(serum, a.s + 1), matched + n)
  <2>1. UnitsOn(serum, a.s, a.remainingSerum, matched, n)
    BY <1>18, <1>2, <1>3, <1>4, <1>6, StandsOn
  <2> QED BY <2>1 DEF UnitsOn
<1>8. /\ a.remainingFtx =< ftx[a.f].quantity
      /\ \A k \in (matched + 1) .. (matched + n) : LevelOf(ftx, k) = ftx[a.f]
      /\ matched + n =< UnitsTo(ftx, Len(ftx))
      /\ Stands(ftx, a.f, a.remainingFtx - n, matched + n)
      /\ n = a.remainingFtx => Stands(ftx, a.f + 1, QuantityAt(ftx, a.f + 1), matched + n)
  <2>1. UnitsOn(ftx, a.f, a.remainingFtx, matched, n)
    BY <1>18, <1>2, <1>3, <1>4, <1>6, StandsOn
  <2> QED BY <2>1 DEF UnitsOn
<1>9. matched + n \in 0 .. units
  <2>1. matched + n =< units
    BY <1>3, <1>7, <1>8
  <2> QED BY <1>3, <1>6, <2>1
<1>10. serum[a.s] \in Level /\ ftx[a.f] \in Level
  BY <1>18, <1>2, ElementOfSeq
<1>11. pays \in Nat /\ pays = ProfitOf(side, serum[a.s], ftx[a.f])
  <2>1. pays \in Int /\ pays > 0
    BY <1>18, <1>10, CrossingPays
  <2> QED BY <1>18, <2>1 DEF ProfitOf
<1>12. sum[matched + n] = sum[matched] + n * pays
  <2>1. EachPays(side, serum, ftx, matched, n, pays)
    BY <1>7, <1>8, <1>11 DEF EachPays
  <2>2. matched + n =< MatchedUnits(serum, ftx) /\ pays \in Int
    BY <1>3, <1>9, <1>11
  <2> HIDE DEF pays, units
  <2>3. OfTwoLevels(sum, side, serum, ftx, matched, n, pays)
    BY <1>3, <1>6, <1>18, <2>1, <2>2 DEF OfTwoLevels
  <2>4. matched \in Nat /\ n \in Nat /\ pays \in Int
    BY <1>3, <1>6, <2>2
  <2>5. UnitsPay(sum, matched, n, pays)
    BY <2>3, <2>4, UnitsOfTwoLevels
  <2> QED BY <2>5 DEF UnitsPay
<1>13. size \in Nat /\ n =< size
  <2>1. serum[a.s].quantity \in Nat /\ ftx[a.f].quantity \in Nat
    BY <1>10 DEF Level
  <2>2. n =< serum[a.s].quantity /\ n =< ftx[a.f].quantity
    BY <1>5, <1>6, <1>7, <1>8, <2>1
  <2>3. size \in {serum[a.s].quantity, ftx[a.f].quantity}
    BY DEF Smaller
  <2> HIDE DEF size
  <2> QED BY <2>1, <2>2, <2>3
<1>14. sum[matched + n] =< b.profit
  <2>1. b.profit = a.profit + pays * size
    BY <1>18 DEF MatchOf
  <2>2. sum[matched] \in Int
    <3>1. matched \in 0 .. MatchedUnits(serum, ftx) /\ sum \in [0 .. MatchedUnits(serum, ftx) -> Int]
      BY <1>18 DEF Sums, Covers
    <3> QED BY <3>1
  <2> HIDE DEF pays, size
  <2>3. n * pays =< pays * size
    BY <1>6, <1>11, <1>13, MoreUnitsPay
  <2>4. n * pays \in Int /\ pays * size \in Int
    BY <1>6, <1>11, <1>13
  <2> QED BY <1>1, <1>4, <1>12, <2>1, <2>2, <2>3, <2>4
<1>15. Stands(serum, b.s, b.remainingSerum, matched + n) /\ Stands(ftx, b.f, b.remainingFtx, matched + n)
  <2>1. /\ b.s = IF a.remainingSerum - a.remainingFtx =< 0 THEN a.s + 1 ELSE a.s
        /\ b.f = IF a.remainingSerum - a.remainingFtx >= 0 THEN a.f + 1 ELSE a.f
        /\ b.remainingSerum = IF a.remainingSerum - a.remainingFtx =< 0
                              THEN QuantityAt(serum, a.s + 1) ELSE a.remainingSerum - a.remainingFtx
        /\ b.remainingFtx = IF a.remainingSerum - a.remainingFtx >= 0
                            THEN QuantityAt(ftx, a.f + 1) ELSE -(a.remainingSerum - a.remainingFtx)
    BY <1>18 DEF MatchOf
  <2>2. CASE a.remainingSerum < a.remainingFtx
    <3>1. n = a.remainingSerum /\ -(a.remainingSerum - a.remainingFtx) = a.remainingFtx - n
      BY <1>5, <1>6, <2>2
    <3>2. /\ b.s = a.s + 1 /\ b.remainingSerum = QuantityAt(serum, a.s + 1)
          /\ b.f = a.f /\ b.remainingFtx = a.remainingFtx - n
      BY <1>5, <2>1, <2>2, <3>1
    <3> QED BY <1>7, <1>8, <3>1, <3>2
  <2>3. CASE a.remainingFtx < a.remainingSerum
    <3>1. n = a.remainingFtx
      BY <1>5, <1>6, <2>3
    <3>2. /\ b.s = a.s /\ b.remainingSerum = a.remainingSerum - n
          /\ b.f = a.f + 1 /\ b.remainingFtx = QuantityAt(ftx, a.f + 1)
      BY <1>5, <2>1, <2>3, <3>1
    <3> QED BY <1>7, <1>8, <3>1, <3>2
  <2>4. CASE a.remainingFtx = a.remainingSerum
    <3>1. n = a.remainingFtx /\ n = a.remainingSerum
      BY <1>5, <1>6, <2>4
    <3>2. /\ b.s = a.s + 1 /\ b.remainingSerum = QuantityAt(serum, a.s + 1)
          /\ b.f = a.f + 1 /\ b.remainingFtx = QuantityAt(ftx, a.f + 1)
      BY <1>5, <2>1, <2>4
    <3> QED BY <1>7, <1>8, <3>1, <3>2
  <2> QED BY <1>5, <2>2, <2>3, <2>4
<1>16. b.ends = FALSE
  BY <1>18, <1>1 DEF MatchOf
<1>17. Covers(sum, side, serum, ftx, b, matched + n)
  BY <1>9, <1>14, <1>15, <1>16 DEF Covers
<1> QED BY <1>17

\* The walk starts at the first levels, with all of them left.
LEMMA StandsAtFirst ==
  ASSUME NEW levels \in Seq(Level)
  PROVE  Stands(levels, 1, QuantityAt(levels, 1), 0)
<1>1. Len(levels) \in Nat /\ 1 \in 1 .. (Len(levels) + 1) /\ 1 - 1 = 0 /\ 0 + 1 = 1
  BY LenProperties
<1>2. QuantityAt(levels, 1) \in Nat
  BY QuantitiesOf
<1>3. UnitsTo(levels, 0) = 0
  BY UnitsSum
<1>4. UnitsTo(levels, 0 + 1) = UnitsTo(levels, 0) + QuantityAt(levels, 0 + 1)
  BY UnitsSum
<1>5. UnitsTo(levels, 1) = QuantityAt(levels, 1)
  BY <1>1, <1>2, <1>3, <1>4
<1> QED BY <1>1, <1>2, <1>3, <1>5 DEF Stands

\* Behind two levels that do not cross nothing more is made.
EndsAt(sum, side, serum, ftx, s, f, matched) ==
    /\ side \in Sides /\ Sorted(side, serum, ftx) /\ Sums(sum, side, serum, ftx)
    /\ s \in DOMAIN serum /\ f \in DOMAIN ftx /\ ~Crosses(side, serum[s], ftx[f])
    /\ matched \in 0 .. MatchedUnits(serum, ftx)
    /\ UnitsTo(serum, s - 1) =< matched /\ UnitsTo(ftx, f - 1) =< matched
NothingAfter(sum, serum, ftx, matched) == sum[MatchedUnits(serum, ftx)] = sum[matched]

LEMMA NothingBehind ==
  ASSUME NEW sum, NEW side, NEW serum, NEW ftx, NEW s, NEW f, NEW matched,
         EndsAt(sum, side, serum, ftx, s, f, matched)
  PROVE  NothingAfter(sum, serum, ftx, matched)
<1> DEFINE units == MatchedUnits(serum, ftx)
           n == units - matched
<1>1. /\ serum \in Seq(Level) /\ ftx \in Seq(Level)
      /\ side \in Sides /\ Sorted(side, serum, ftx) /\ Sums(sum, side, serum, ftx)
  BY DEF EndsAt, Sorted
<1>8. /\ s \in DOMAIN serum /\ f \in DOMAIN ftx /\ ~Crosses(side, serum[s], ftx[f])
      /\ matched \in 0 .. MatchedUnits(serum, ftx)
      /\ UnitsTo(serum, s - 1) =< matched /\ UnitsTo(ftx, f - 1) =< matched
  BY DEF EndsAt
<1>2. /\ units \in Nat /\ matched \in Nat /\ n \in Nat /\ matched + n = units
      /\ units =< UnitsTo(serum, Len(serum)) /\ units =< UnitsTo(ftx, Len(ftx))
  <2>1. /\ units \in Nat /\ units =< UnitsTo(serum, Len(serum)) /\ units =< UnitsTo(ftx, Len(ftx))
    BY <1>1, UnitMatched
  <2> QED BY <1>8, <2>1
<1>3. /\ s \in Nat \ {0} /\ f \in Nat \ {0} /\ Len(serum) \in Nat /\ Len(ftx) \in Nat
      /\ s - 1 \in Nat /\ f - 1 \in Nat
  BY <1>1, <1>8, LenProperties
<1>4. /\ UnitsTo(serum, s - 1) \in Nat /\ UnitsTo(ftx, f - 1) \in Nat
      /\ UnitsTo(serum, Len(serum)) \in Nat /\ UnitsTo(ftx, Len(ftx)) \in Nat
  BY <1>1, <1>3, UnitsSum
<1>5. ASSUME NEW k \in (matched + 1) .. (matched + n)
      PROVE  ProfitOf(side, LevelOf(serum, k), LevelOf(ftx, k)) = 0
  <2>1. /\ k \in Nat /\ UnitsTo(serum, s - 1) < k /\ k =< UnitsTo(serum, Len(serum))
        /\ UnitsTo(ftx, f - 1) < k /\ k =< UnitsTo(ftx, Len(ftx))
    BY <1>2, <1>4, <1>8
  <2>2. PICK i \in DOMAIN serum : s =< i /\ LevelOf(serum, k) = serum[i]
    BY <1>1, <1>3, <2>1, LevelOfLater
  <2>3. PICK j \in DOMAIN ftx : f =< j /\ LevelOf(ftx, k) = ftx[j]
    BY <1>1, <1>3, <2>1, LevelOfLater
  <2>4. ~Crosses(side, serum[i], ftx[j])
    BY <1>1, <1>8, <2>2, <2>3, NoneCrossesLater
  <2> QED BY <2>2, <2>3, <2>4 DEF ProfitOf
<1> HIDE DEF n
<1>6. sum[matched + n] = sum[matched] + n * 0
  <2>1. matched + n =< MatchedUnits(serum, ftx) /\ 0 \in Int
    BY <1>2
  <2>2. EachPays(side, serum, ftx, matched, n, 0)
    BY <1>5 DEF EachPays
  <2> HIDE DEF units
  <2>3. OfTwoLevels(sum, side, serum, ftx, matched, n, 0)
    BY <1>1, <1>2, <2>1, <2>2 DEF OfTwoLevels
  <2>4. UnitsPay(sum, matched, n, 0)
    BY <1>2, <2>1, <2>3, UnitsOfTwoLevels
  <2> QED BY <2>4 DEF UnitsPay
<1>7. sum[matched] \in Int
  BY <1>1, <1>8 DEF Sums
<1> QED BY <1>2, <1>6, <1>7 DEF NothingAfter

\* What Arbitrage finds in two sorted sides with levels is not less than the exact profit.
LEMMA ArbitrageCovers ==
  ASSUME NEW side \in Sides, NEW serum, NEW ftx, Sorted(side, serum, ftx), serum # <<>>, ftx # <<>>
  PROVE  /\ Arbitrage(side, serum, ftx).profit \in Int /\ ExactProfit(side, serum, ftx) \in Int
         /\ Arbitrage(side, serum, ftx).profit >= ExactProfit(side, serum, ftx)
<1> DEFINE units == MatchedUnits(serum, ftx)
           most == Len(serum) + Len(ftx)
<1>1. serum \in Seq(Level) /\ ftx \in Seq(Level) /\ Len(serum) \in Nat /\ Len(ftx) \in Nat /\ most \in Nat
  BY LenProperties DEF Sorted
<1>13. PICK w : WalkOf(w, side, serum, ftx)
  BY <1>1, WalkExists
<1>14. units \in Nat
  BY <1>1, UnitMatched
<1>2. /\ w \in [Nat -> WalkStates]
      /\ w[0] = ArbitrageStart(serum, ftx)
      /\ \A n \in Nat :
            w[n + 1] = IF Over(serum, ftx, w[n]) THEN w[n] ELSE ArbitrageStep(side, serum, ftx, w[n])
      /\ Arbitrage(side, serum, ftx) = w[most]
  BY <1>13 DEF WalkOf
<1>3. PICK sum \in [0 .. units -> Int] :
         /\ sum[0] = 0
         /\ \A n \in 1 .. units : sum[n] = sum[n - 1] + ProfitOf(side, LevelOf(serum, n), LevelOf(ftx, n))
         /\ ExactProfit(side, serum, ftx) = sum[units]
  <2>1. \E sum : ExactSum(sum, side, serum, ftx)
    BY <1>1, ExactProfitIsSum
  <2> QED BY <2>1 DEF ExactSum
<1>4. Sums(sum, side, serum, ftx)
  BY <1>3 DEF Sums
<1> DEFINE Further(n) == Over(serum, ftx, w[n]) \/ w[n].s + w[n].f >= n + 2
           Good == {n \in Nat : (\E m : Covers(sum, side, serum, ftx, w[n], m)) /\ Further(n)}
<1>5. 0 \in Good
  <2>1. /\ w[0].s = 1 /\ w[0].f = 1 /\ w[0].profit = 0 /\ w[0].ends = FALSE
        /\ w[0].remainingSerum = QuantityAt(serum, 1) /\ w[0].remainingFtx = QuantityAt(ftx, 1)
    <3>1. PICK a : a = ArbitrageStart(serum, ftx)
      OBVIOUS
    <3>2. AtStart(serum, ftx, a)
      BY <1>1, <3>1, StartOfWalk
    <3>3. AtStart(serum, ftx, w[0])
      BY <1>2, <3>1, <3>2
    <3> QED BY <3>3 DEF AtStart
  <2>2. Stands(serum, 1, QuantityAt(serum, 1), 0)
    BY <1>1, StandsAtFirst
  <2>3. Stands(ftx, 1, QuantityAt(ftx, 1), 0)
    BY <1>1, StandsAtFirst
  <2>4. 0 \in 0 .. MatchedUnits(serum, ftx) /\ sum[0] =< 0
    BY <1>3, <1>14
  <2>5. Covers(sum, side, serum, ftx, w[0], 0)
    BY <2>1, <2>2, <2>3, <2>4 DEF Covers
  <2> QED BY <2>1, <2>5
<1>6. ASSUME NEW n \in Nat, n \in Good PROVE n + 1 \in Good
  <2>1. PICK m : Covers(sum, side, serum, ftx, w[n], m)
    BY <1>6
  <2>2. w[n] \in WalkStates /\ w[n + 1] \in WalkStates
    BY <1>2
  <2>3. CASE Over(serum, ftx, w[n])
    <3>1. w[n + 1] = w[n]
      BY <1>2, <2>3
    <3> QED BY <2>1, <2>3, <3>1
  <2>4. CASE ~Over(serum, ftx, w[n])
    <3>1. w[n + 1] = ArbitrageStep(side, serum, ftx, w[n])
      BY <1>2, <2>4
    <3>2. /\ Crosses(side, serum[w[n].s], ftx[w[n].f]) => MatchOf(side, serum, ftx, w[n], w[n + 1])
          /\ ~Crosses(side, serum[w[n].s], ftx[w[n].f]) => w[n + 1] = [w[n] EXCEPT !.ends = TRUE]
      BY <1>1, <2>2, <2>4, <3>1, StepOfWalk
    <3>3. CASE Crosses(side, serum[w[n].s], ftx[w[n].f])
      <4>1. MatchOf(side, serum, ftx, w[n], w[n + 1])
        BY <3>2, <3>3
      <4>6. Matches(sum, side, serum, ftx, w[n], m, w[n + 1])
        BY <1>1, <1>4, <2>1, <2>2, <2>4, <3>3, <4>1 DEF Matches
      <4>2. \E k : Covers(sum, side, serum, ftx, w[n + 1], k)
        BY <4>6, MatchCovers
      <4>3. w[n].s + w[n].f >= n + 2
        BY <1>6, <2>4
      <4>4. PICK v, u : v = w[n] /\ u = w[n + 1]
        OBVIOUS
      <4>7. PICK s, f \in Nat, r, q \in Int :
               s = v.s /\ f = v.f /\ r = v.remainingSerum /\ q = v.remainingFtx
        BY <2>2, <4>4 DEF WalkStates
      <4>8. /\ u.s = IF r - q =< 0 THEN s + 1 ELSE s
            /\ u.f = IF r - q >= 0 THEN f + 1 ELSE f
        BY <4>1, <4>4, <4>7 DEF MatchOf
      <4>9. s + f >= n + 2
        BY <4>3, <4>4, <4>7
      <4>10. u.s + u.f >= (n + 1) + 2
        BY <4>8, <4>9
      <4>5. w[n + 1].s + w[n + 1].f >= (n + 1) + 2
        BY <4>4, <4>10
      <4> QED BY <4>2, <4>5
    <3>4. CASE ~Crosses(side, serum[w[n].s], ftx[w[n].f])
      <4>1. w[n + 1] = [w[n] EXCEPT !.ends = TRUE]
        BY <3>2, <3>4
      <4>2. /\ w[n + 1].s = w[n].s /\ w[n + 1].f = w[n].f /\ w[n + 1].ends = TRUE
            /\ w[n + 1].remainingSerum = w[n].remainingSerum /\ w[n + 1].remainingFtx = w[n].remainingFtx
            /\ w[n + 1].profit = w[n].profit
        BY <2>2, <4>1 DEF WalkStates
      <4>3. w[n].s =< Len(serum) /\ w[n].f =< Len(ftx)
        <5>1. w[n].s \in Nat /\ w[n].f \in Nat
          BY <2>2 DEF WalkStates
        <5> QED BY <1>1, <2>4, <5>1 DEF Over
      <4>4. Covers(sum, side, serum, ftx, w[n + 1], m)
        BY <2>1, <3>4, <4>2, <4>3 DEF Covers
      <4>5. Over(serum, ftx, w[n + 1])
        BY <4>2 DEF Over
      <4> QED BY <4>4, <4>5
    <3> QED BY <3>3, <3>4
  <2> QED BY <2>3, <2>4
<1> HIDE DEF Good
<1>7. \A n \in Nat : n \in Good
  BY <1>5, <1>6, Induction
<1> DEFINE a == w[most]
<1>8. PICK m : Covers(sum, side, serum, ftx, a, m)
  BY <1>1, <1>7 DEF Good
<1>9. Over(serum, ftx, a) \/ a.s + a.f >= most + 2
  BY <1>1, <1>7 DEF Good
<1>10. a \in WalkStates /\ Arbitrage(side, serum, ftx) = a
  BY <1>1, <1>2
<1> HIDE DEF a
<1>11. /\ units \in Nat /\ m \in 0 .. units /\ sum[m] =< a.profit /\ a.profit \in Int
       /\ sum[m] \in Int /\ sum[units] \in Int
       /\ a.s \in 1 .. (Len(serum) + 1) /\ a.f \in 1 .. (Len(ftx) + 1)
  <2>1. units \in Nat
    BY <1>14
  <2>2. m \in 0 .. units /\ sum[m] =< a.profit
    BY <1>8 DEF Covers
  <2>3. a.s \in 1 .. (Len(serum) + 1) /\ a.f \in 1 .. (Len(ftx) + 1)
    BY <1>8 DEF Covers, Stands
  <2>4. a.profit \in Int
    BY <1>10 DEF WalkStates
  <2>5. units \in 0 .. units
    BY <2>1
  <2>6. sum[m] \in Int /\ sum[units] \in Int
    BY <1>3, <2>2, <2>5
  <2> QED BY <2>1, <2>2, <2>3, <2>4, <2>6
<1>12. sum[units] = sum[m]
  <2>1. CASE a.ends
    <3>1. a.s \in DOMAIN serum /\ a.f \in DOMAIN ftx /\ ~Crosses(side, serum[a.s], ftx[a.f])
      BY <1>1, <1>8, <1>11, <2>1, LenProperties DEF Covers
    <3>2. UnitsTo(serum, a.s - 1) =< m /\ UnitsTo(ftx, a.f - 1) =< m
      BY <1>8 DEF Covers, Stands
    <3>3. EndsAt(sum, side, serum, ftx, a.s, a.f, m)
      BY <1>4, <1>8, <3>1, <3>2 DEF Covers, EndsAt
    <3>4. NothingAfter(sum, serum, ftx, m)
      BY <3>3, NothingBehind
    <3> QED BY <3>4 DEF NothingAfter
  <2>2. CASE a.s = Len(serum) + 1
    <3>1. (Len(serum) + 1) - 1 = Len(serum)
      BY <1>1
    <3>2. UnitsTo(serum, Len(serum)) =< m
      BY <1>8, <2>2, <3>1 DEF Covers, Stands
    <3>3. units =< UnitsTo(serum, Len(serum)) /\ UnitsTo(serum, Len(serum)) \in Nat
      BY <1>1, UnitMatched, UnitsSum
    <3> QED BY <1>11, <3>2, <3>3
  <2>3. CASE a.f = Len(ftx) + 1
    <3>1. (Len(ftx) + 1) - 1 = Len(ftx)
      BY <1>1
    <3>2. UnitsTo(ftx, Len(ftx)) =< m
      BY <1>8, <2>3, <3>1 DEF Covers, Stands
    <3>3. units =< UnitsTo(ftx, Len(ftx)) /\ UnitsTo(ftx, Len(ftx)) \in Nat
      BY <1>1, UnitMatched, UnitsSum
    <3> QED BY <1>11, <3>2, <3>3
  <2>4. a.ends \/ a.s = Len(serum) + 1 \/ a.f = Len(ftx) + 1
    <3>1. CASE Over(serum, ftx, a)
      BY <1>1, <1>11, <3>1 DEF Over
    <3>2. CASE a.s + a.f >= most + 2
      BY <1>1, <1>11, <3>2
    <3> QED BY <1>9, <3>1, <3>2
  <2> QED BY <2>1, <2>2, <2>3, <2>4
<1> QED BY <1>3, <1>10, <1>11, <1>12

LEMMA SidesAreSorted ==
  ASSUME NEW serumBook \in Books \cup {NoBook}, NEW ftxBook \in Books \cup {NoBook}, NEW side \in Sides
  PROVE  Sorted(side, serumBook[side], ftxBook[SideFlip(side)])
<1>1. SideFlip(side) \in Sides
  BY DEF Sides, SideFlip
<1>2. ASSUME NEW book \in Books \cup {NoBook}, NEW s \in Sides
      PROVE  book[s] \in Seq(Level) /\ BestLevelFirst(s, book[s])
  <2>1. CASE book \in Books
    BY <2>1, BooksAssumption DEF Sides, Level
  <2>2. CASE book = NoBook
    <3>1. book[s] = <<>>
      BY <2>2 DEF NoBook, Sides
    <3> QED BY <3>1, EmptySeq DEF BestLevelFirst
  <2> QED BY <2>1, <2>2
<1> QED BY <1>1, <1>2 DEF Sorted

\* So what is found in the books of a pair covers what crosses in them.
LEMMA FoundCovers ==
  ASSUME BooksTypeOK, NEW p \in DOMAIN Pairs, NEW side \in Sides, BothThere(p, side)
  PROVE  LET exact == ExactProfit(side, serumBooks[p][side], ftxBooks[p][SideFlip(side)])
         IN  FoundProfit(p, side) \in Int /\ exact \in Int /\ FoundProfit(p, side) >= exact
<1>1. PICK serum : serum = serumBooks[p][side]
  OBVIOUS
<1>2. PICK ftx : ftx = ftxBooks[p][SideFlip(side)]
  OBVIOUS
<1>3. Sorted(side, serum, ftx) /\ serum # <<>> /\ ftx # <<>>
  BY <1>1, <1>2, SidesAreSorted DEF BothThere, BooksTypeOK
<1>4. /\ Arbitrage(side, serum, ftx).profit \in Int /\ ExactProfit(side, serum, ftx) \in Int
      /\ Arbitrage(side, serum, ftx).profit >= ExactProfit(side, serum, ftx)
  BY <1>3, ArbitrageCovers
<1> QED BY <1>1, <1>2, <1>4 DEF FoundProfit

\* NoArbitrageLeft (do_book_update of TakeStrategy) holds for any pairs, sorted books told in
\* any order, wallets and profit asked for.
THEOREM NoArbitrageLeftHolds == ClientSpec => []NoArbitrageLeft
<1>1. ASSUME DecisionIInv
      PROVE  NoArbitrageLeft
  <2> SUFFICES ASSUME phase # "none", ~isTrading, NEW p \in DOMAIN Pairs, NEW side \in Sides, BothThere(p, side)
               PROVE  ExactProfit(side, serumBooks[p][side], ftxBooks[p][SideFlip(side)]) < MinUsdTradeProfit
    BY DEF NoArbitrageLeft, Sides, BothThere
  <2>1. ~(FoundProfit(p, side) >= MinUsdTradeProfit)
    BY <1>1 DEF DecisionIInv, OneStrategy, DecidedOnBooks
  <2>2. LET exact == ExactProfit(side, serumBooks[p][side], ftxBooks[p][SideFlip(side)])
        IN  FoundProfit(p, side) \in Int /\ exact \in Int /\ FoundProfit(p, side) >= exact
    BY <1>1, FoundCovers DEF DecisionIInv
  <2> QED BY <2>1, <2>2, BooksAssumption
<1> QED BY <1>1, DecisionInvariance, PTL

\* MeasuredNotUnderstated (do_book_update of BacktestStrategy), likewise.
THEOREM MeasuredNotUnderstatedHolds == ClientSpec => []MeasuredNotUnderstated
<1>1. ASSUME DecisionIInv
      PROVE  MeasuredNotUnderstated
  <2> SUFFICES ASSUME NEW p \in DOMAIN Pairs, NEW side \in Sides, testPhase # "none", BothThere(p, side)
               PROVE  measured[p][side] >= ExactProfit(side, serumBooks[p][side], ftxBooks[p][SideFlip(side)])
    BY DEF MeasuredNotUnderstated, Sides, BothThere
  <2>1. measured[p][side] = FoundProfit(p, side)
    BY <1>1 DEF DecisionIInv, OneStrategy, MeasuredOfBooks
  <2>2. FoundProfit(p, side) >= ExactProfit(side, serumBooks[p][side], ftxBooks[p][SideFlip(side)])
    BY <1>1, FoundCovers DEF DecisionIInv
  <2> QED BY <2>1, <2>2
<1> QED BY <1>1, DecisionInvariance, PTL

-----------------------------------------------------------------------------
\* How an order is laid out. An account of it is a name of these and an index.
AccountNames ==
    {"owner", "mangoAccount", "market", "bids", "asks", "requestQueue", "eventQueue",
     "baseVault", "quoteVault", "nodeBank", "vault", "openOrders", "mangoGroup", "mangoCache",
     "dexProgram", "rootBank", "tokenProgram", "signer", "dexSigner", "msrmVault", "mangoProgram",
     "pastTheEnd"}
OrderAccounts == AccountNames \X Int

\* One sequence is two others, one behind the other.
Joined(u, s, t) ==
    /\ Len(u) = Len(s) + Len(t)
    /\ \A i \in 1 .. Len(s) : u[i] = s[i]
    /\ \A i \in 1 .. Len(t) : u[Len(s) + i] = t[i]

LEMMA Concatenated ==
  ASSUME NEW S, NEW s \in Seq(S), NEW t \in Seq(S), NEW u, u = s \o t
  PROVE  u \in Seq(S) /\ Joined(u, s, t)
<1>1. /\ s \o t \in Seq(S) /\ Len(s \o t) = Len(s) + Len(t)
      /\ \A i \in 1 .. Len(s) + Len(t) : (s \o t)[i] = IF i =< Len(s) THEN s[i] ELSE t[i - Len(s)]
  BY ConcatProperties
<1>2. Len(s) \in Nat /\ Len(t) \in Nat
  BY LenProperties
<1>3. ASSUME NEW i \in 1 .. Len(t) PROVE u[Len(s) + i] = t[i]
  <2>1. Len(s) + i \in 1 .. Len(s) + Len(t) /\ ~(Len(s) + i =< Len(s)) /\ (Len(s) + i) - Len(s) = i
    BY <1>2
  <2> QED BY <1>1, <2>1
<1>4. ASSUME NEW i \in 1 .. Len(s) PROVE u[i] = s[i]
  <2>1. i \in 1 .. Len(s) + Len(t) /\ i =< Len(s)
    BY <1>2
  <2> QED BY <1>1, <2>1
<1> QED BY <1>1, <1>3, <1>4 DEF Joined

\* The accounts of every order, and behind them those of the other markets.
Layout(pair) ==
    LET p == Pairs[pair]
    IN  <<Of("owner"),
          Of("mangoAccount"), Account("market", pair), Account("bids", pair), Account("asks", pair),
          Account("requestQueue", pair), Account("eventQueue", pair),
          Account("baseVault", pair), Account("quoteVault", pair),
          NodeBank("nodeBank", p.base), NodeBank("vault", p.base),
          NodeBank("nodeBank", p.quote), NodeBank("vault", p.quote), Account("openOrders", p.market),
          Of("mangoGroup"), Of("mangoCache"), Of("dexProgram"), Account("rootBank", p.base),
          Account("rootBank", p.quote), Of("tokenProgram"), Of("signer"),
          Account("dexSigner", p.market), Of("msrmVault"), Of("mangoProgram")>>

\* A transaction has those accounts in place, and the header that goes with them.
LaidOut(t, pair, others) ==
    /\ Len(t.accounts) = 24 + Len(others)
    /\ t.header = [signatures |-> 1, signingReadOnly |-> 0, readOnly |-> 10 + Len(others)]
    /\ \A n \in 1 .. 24 : t.accounts[n] = Layout(pair)[n]
    /\ \A n \in 1 .. Len(others) : t.accounts[24 + n] = others[n]

\* What the client takes for a bank or a vault is an account of that name.
LEMMA BankIsAnAccount ==
  ASSUME NEW name \in {"nodeBank", "vault"}, NEW token \in Nat
  PROVE  NodeBank(name, token) \in OrderAccounts
<1>1. CASE token < Len(Currencies)
  <2>1. Currencies \in Seq(Nat)
    BY GroupAssumption
  <2>2. token + 1 \in 1 .. Len(Currencies)
    BY <1>1, <2>1, LenProperties
  <2>3. Currencies[token + 1] \in Nat
    BY <2>1, <2>2, ElementOfSeq
  <2> QED BY <1>1, <2>3 DEF NodeBank, Account, OrderAccounts, AccountNames
<1>2. CASE ~(token < Len(Currencies))
  BY <1>2 DEF NodeBank, Account, OrderAccounts, AccountNames
<1> QED BY <1>1, <1>2

LEMMA AccountsLaidOut ==
  ASSUME NEW pair \in DOMAIN Pairs, NEW others \in Seq(OrderAccounts),
         NEW blockhash, NEW instructions,
         NEW t, t = Transaction(blockhash, SigningWritable, <<>>, WritableKeys(pair),
                                ReadOnlyKeys(pair) \o others, instructions)
  PROVE  LaidOut(t, pair, others)
<1> DEFINE p == Pairs[pair]
           W == WritableKeys(pair)
           R == ReadOnlyKeys(pair)
<1>1. pair \in Int /\ p.market \in Int /\ p.base \in Nat /\ p.quote \in Nat
  <2>1. Pairs \in Seq([market : 0 .. NumMarkets - 1, base : Nat, quote : Nat]) /\ NumMarkets \in Nat
    BY GroupAssumption
  <2>2. pair \in 1 .. Len(Pairs)
    BY <2>1, LenProperties
  <2>3. p \in [market : 0 .. NumMarkets - 1, base : Nat, quote : Nat]
    BY <2>1, <2>2, ElementOfSeq
  <2> QED BY <2>1, <2>2, <2>3
<1>2. /\ NodeBank("nodeBank", p.base) \in OrderAccounts /\ NodeBank("vault", p.base) \in OrderAccounts
      /\ NodeBank("nodeBank", p.quote) \in OrderAccounts /\ NodeBank("vault", p.quote) \in OrderAccounts
  <2>1. p.base \in Nat /\ p.quote \in Nat
    BY <1>1
  <2> QED BY <2>1, BankIsAnAccount
<1>3. W = <<Of("mangoAccount"), Account("market", pair), Account("bids", pair), Account("asks", pair),
          Account("requestQueue", pair), Account("eventQueue", pair),
          Account("baseVault", pair), Account("quoteVault", pair),
          NodeBank("nodeBank", p.base), NodeBank("vault", p.base),
          NodeBank("nodeBank", p.quote), NodeBank("vault", p.quote), Account("openOrders", p.market)>>
  BY DEF WritableKeys
<1>5. W \in Seq(OrderAccounts) /\ Len(W) = 13
  <2>1. \A x \in {Of("mangoAccount"), Account("market", pair), Account("bids", pair), Account("asks", pair),
          Account("requestQueue", pair), Account("eventQueue", pair),
          Account("baseVault", pair), Account("quoteVault", pair),
          NodeBank("nodeBank", p.base), NodeBank("vault", p.base),
          NodeBank("nodeBank", p.quote), NodeBank("vault", p.quote), Account("openOrders", p.market)} : x \in OrderAccounts
    <3>1. \A x \in {Of("mangoAccount"), Account("market", pair), Account("bids", pair), Account("asks", pair),
            Account("requestQueue", pair), Account("eventQueue", pair),
            Account("baseVault", pair), Account("quoteVault", pair), Account("openOrders", p.market)} : x \in OrderAccounts
      BY <1>1 DEF Of, Account, OrderAccounts, AccountNames
    <3> HIDE DEF OrderAccounts
    <3> QED BY <1>2, <3>1
  <2> HIDE DEF OrderAccounts
  <2> QED BY <1>3, <2>1
<1>6. R \in Seq(OrderAccounts) /\ Len(R) = 10
  BY <1>1 DEF Of, Account, OrderAccounts, AccountNames, ReadOnlyKeys
<1>7. <<Of("owner")>> \in Seq(OrderAccounts) /\ Len(<<Of("owner")>>) = 1
  BY DEF Of, Account, OrderAccounts, AccountNames
<1>8. t.accounts = ((<<Of("owner")>> \o <<>>) \o W) \o (R \o others)
  BY DEF Transaction, AccountArray, SigningWritable
<1> HIDE DEF W, R
<1>9. Len(others) \in Nat /\ <<>> \in Seq(OrderAccounts) /\ Len(<<>>) = 0
  BY LenProperties, EmptySeq
<1>18. PICK front : front = <<Of("owner")>> \o <<>>
  OBVIOUS
<1>19. PICK mid : mid = front \o W
  OBVIOUS
<1>20. PICK back : back = R \o others
  OBVIOUS
<1>10. front \in Seq(OrderAccounts) /\ Len(front) = 1 /\ front[1] = Of("owner")
  <2>1. front = <<Of("owner")>>
    BY <1>7, <1>18
  <2> QED BY <1>7, <2>1
<1>11. /\ mid \in Seq(OrderAccounts) /\ Len(mid) = 14 /\ mid[1] = Of("owner")
       /\ \A i \in 1 .. 13 : mid[1 + i] = W[i]
  <2>1. mid \in Seq(OrderAccounts) /\ Joined(mid, front, W)
    BY <1>5, <1>10, <1>19, Concatenated
  <2> QED BY <1>5, <1>10, <2>1 DEF Joined
<1>12. /\ back \in Seq(OrderAccounts) /\ Len(back) = 10 + Len(others)
       /\ \A i \in 1 .. 10 : back[i] = R[i]
       /\ \A i \in 1 .. Len(others) : back[10 + i] = others[i]
  <2>1. back \in Seq(OrderAccounts) /\ Joined(back, R, others)
    BY <1>6, <1>20, Concatenated
  <2> QED BY <1>6, <2>1 DEF Joined
<1>13. /\ Len(t.accounts) = 24 + Len(others)
       /\ \A i \in 1 .. 14 : t.accounts[i] = mid[i]
       /\ \A i \in 1 .. (10 + Len(others)) : t.accounts[14 + i] = back[i]
  <2>1. t.accounts = mid \o back
    BY <1>8, <1>18, <1>19, <1>20
  <2>2. Joined(t.accounts, mid, back)
    BY <1>11, <1>12, <2>1, Concatenated
  <2>3. 14 + (10 + Len(others)) = 24 + Len(others)
    BY <1>9
  <2> QED BY <1>11, <1>12, <2>2, <2>3 DEF Joined
<1>14. ASSUME NEW i \in 1 .. 10 PROVE t.accounts[14 + i] = R[i]
  <2>1. i \in 1 .. (10 + Len(others))
    BY <1>9
  <2> QED BY <1>12, <1>13, <2>1
<1>15. ASSUME NEW i \in 1 .. Len(others) PROVE t.accounts[24 + i] = others[i]
  <2>1. 10 + i \in 1 .. (10 + Len(others)) /\ 14 + (10 + i) = 24 + i
    BY <1>9
  <2> QED BY <1>12, <1>13, <2>1
<1>16. \A n \in 1 .. 24 : t.accounts[n] = Layout(pair)[n]
  <2>1. t.accounts[1] = Layout(pair)[1]
    BY <1>11, <1>13 DEF Layout
  <2>2. \A i \in 1 .. 13 : t.accounts[1 + i] = Layout(pair)[1 + i]
    <3>1. ASSUME NEW i \in 1 .. 13 PROVE t.accounts[1 + i] = W[i]
      <4>1. 1 + i \in 1 .. 14
        OBVIOUS
      <4> QED BY <1>11, <1>13, <4>1
    <3>2. \A i \in 1 .. 13 : W[i] = Layout(pair)[1 + i]
      BY <1>3 DEF Layout
    <3> QED BY <3>1, <3>2
  <2>3. \A i \in 1 .. 10 : R[i] = Layout(pair)[14 + i]
    <3>1. /\ R[1] = Layout(pair)[15] /\ R[2] = Layout(pair)[16] /\ R[3] = Layout(pair)[17]
          /\ R[4] = Layout(pair)[18] /\ R[5] = Layout(pair)[19]
      BY DEF Layout, R, ReadOnlyKeys
    <3>2. /\ R[6] = Layout(pair)[20] /\ R[7] = Layout(pair)[21] /\ R[8] = Layout(pair)[22]
          /\ R[9] = Layout(pair)[23] /\ R[10] = Layout(pair)[24]
      BY DEF Layout, R, ReadOnlyKeys
    <3>3. \A i \in 1 .. 10 : i \in {1, 2, 3, 4, 5} \/ i \in {6, 7, 8, 9, 10}
      OBVIOUS
    <3>4. ASSUME NEW i \in {1, 2, 3, 4, 5} PROVE R[i] = Layout(pair)[14 + i]
      <4> HIDE DEF R
      <4> QED BY <3>1
    <3>5. ASSUME NEW i \in {6, 7, 8, 9, 10} PROVE R[i] = Layout(pair)[14 + i]
      <4> HIDE DEF R
      <4> QED BY <3>2
    <3> HIDE DEF R
    <3> QED BY <3>3, <3>4, <3>5
  <2>4. ASSUME NEW n \in 1 .. 24
        PROVE  n = 1 \/ (n - 1 \in 1 .. 13 /\ n = 1 + (n - 1)) \/ (n - 14 \in 1 .. 10 /\ n = 14 + (n - 14))
    OBVIOUS
  <2>5. ASSUME NEW n \in 1 .. 24, n - 1 \in 1 .. 13 PROVE t.accounts[n] = Layout(pair)[n]
    <3> DEFINE i == n - 1
    <3>1. i \in 1 .. 13 /\ n = 1 + i
      BY <2>5
    <3> HIDE DEF i
    <3> QED BY <2>2, <3>1
  <2>6. ASSUME NEW n \in 1 .. 24, n - 14 \in 1 .. 10 PROVE t.accounts[n] = Layout(pair)[n]
    <3> DEFINE i == n - 14
    <3>1. i \in 1 .. 10 /\ n = 14 + i
      BY <2>6
    <3> HIDE DEF i
    <3>2. t.accounts[14 + i] = R[i] /\ R[i] = Layout(pair)[14 + i]
      BY <1>14, <2>3, <3>1
    <3> QED BY <3>1, <3>2
  <2> QED BY <2>1, <2>4, <2>5, <2>6
<1>17. t.header = [signatures |-> 1, signingReadOnly |-> 0, readOnly |-> 10 + Len(others)]
  <2>1. t.header = MessageHeader(SigningWritable, <<>>, back)
    BY <1>20 DEF Transaction, R
  <2> QED BY <1>7, <1>9, <1>12, <2>1 DEF MessageHeader, SigningWritable
<1> QED BY <1>13, <1>15, <1>16, <1>17 DEF LaidOut

-----------------------------------------------------------------------------
\* The members of a finite set of numbers have the ranks from 1 to as many as they are.
Below(set, i) == {j \in set : j < i}

LEMMA NumberRanks ==
  ASSUME NEW set \in SUBSET Nat, IsFiniteSet(set)
  PROVE  /\ Cardinality(set) \in Nat
         /\ \A n \in 1 .. Cardinality(set) : \E i \in set : Cardinality(Below(set, i)) = n - 1
         /\ \A i \in set : Cardinality(Below(set, i)) + 1 \in 1 .. Cardinality(set)
         /\ \A i, k \in set : Cardinality(Below(set, i)) = Cardinality(Below(set, k)) => i = k
<1> DEFINE before == [i \in set |-> Below(set, i)]
<1>1. \A i \in set : i \in Int
  OBVIOUS
<1>2. \A i \in set : before[i] = Below(set, i)
  OBVIOUS
<1>3. before \in [set -> SUBSET set]
  BY DEF Below
<1>4. OrderOf(set, before)
  <2> HIDE DEF before
  <2>1. \A i, k \in set : k \in before[i] <=> k < i
    BY <1>2 DEF Below
  <2>2. \A i \in set : i \notin before[i]
    BY <1>1, <2>1
  <2>3. ASSUME NEW i \in set, NEW k \in set, k \in before[i]
        PROVE  before[k] \subseteq before[i]
    <3>1. k < i
      BY <2>1, <2>3
    <3>2. ASSUME NEW j \in before[k] PROVE j \in before[i]
      <4>1. before[k] \in SUBSET set
        BY <1>3, Zenon
      <4>2. j \in set /\ j < k
        BY <2>1, <3>2, <4>1
      <4>3. j < i
        BY <1>1, <3>1, <4>2
      <4> QED BY <2>1, <4>2, <4>3
    <3> QED BY <3>2
  <2>4. \A i, k \in set : i # k => i \in before[k] \/ k \in before[i]
    BY <1>1, <2>1
  <2> QED BY <1>3, <2>2, <2>3, <2>4 DEF OrderOf
<1>5. /\ Cardinality(set) \in Nat
      /\ \A i \in set : Cardinality(before[i]) \in 0 .. Cardinality(set) - 1
      /\ \A i, k \in set : Cardinality(before[i]) = Cardinality(before[k]) => i = k
      /\ \A n \in 1 .. Cardinality(set) : \E i \in set : Cardinality(before[i]) = n - 1
  <2> HIDE DEF before
  <2> DEFINE T == set
  <2>1. IsFiniteSet(T) /\ OrderOf(T, before)
    BY <1>4
  <2> HIDE DEF T
  <2>2. /\ Cardinality(T) \in Nat
        /\ \A x \in T : Cardinality(before[x]) \in 0 .. Cardinality(T) - 1
        /\ \A x, y \in T : Cardinality(before[x]) = Cardinality(before[y]) => x = y
        /\ \A n \in 1 .. Cardinality(T) : \E x \in T : Cardinality(before[x]) = n - 1
    BY <2>1, Ranks
  <2> QED BY <2>2 DEF T
<1> HIDE DEF before
<1>6. \A i \in set : Cardinality(Below(set, i)) \in 0 .. Cardinality(set) - 1
  BY <1>5, <1>2
<1>7. \A i \in set : Cardinality(Below(set, i)) + 1 \in 1 .. Cardinality(set)
  BY <1>5, <1>6
<1> QED BY <1>5, <1>2, <1>7

\* The open orders behind the program are those of the basket's other markets.
LEMMA OthersListed ==
  ASSUME NEW pair \in DOMAIN Pairs, NEW basket \in Baskets
  PROVE  LET others == OtherOpenOrders(pair, basket)
         IN  /\ others \in Seq(OrderAccounts)
             /\ Len(others) = Cardinality(basket \ {Pairs[pair].market})
             /\ {others[n] : n \in 1 .. Len(others)}
                   = {Account("openOrders", m) : m \in basket \ {Pairs[pair].market}}
<1> DEFINE markets == {i \in 0 .. NumMarkets - 1 : i \in basket /\ i # Pairs[pair].market}
           Nth(n) == CHOOSE i \in markets : Cardinality({j \in markets : j < i}) = n - 1
           others == OtherOpenOrders(pair, basket)
<1>10. NumMarkets \in Nat /\ basket \in SUBSET (0 .. NumMarkets - 1)
  BY GroupAssumption
<1>1. markets = basket \ {Pairs[pair].market} /\ markets \in SUBSET Nat
  <2>1. \A i : i \in basket => i \in 0 .. NumMarkets - 1
    BY <1>10
  <2>2. markets = basket \ {Pairs[pair].market}
    BY <2>1, Zenon
  <2>3. \A i \in 0 .. NumMarkets - 1 : i \in Nat
    BY <1>10
  <2> QED BY <2>2, <2>3, Zenon
<1>2. IsFiniteSet(markets)
  <2>2. 0 \in Int /\ NumMarkets - 1 \in Int
    BY <1>10
  <2>3. IsFiniteSet(0 .. NumMarkets - 1)
    BY <2>2, FS_Interval
  <2>1. IsFiniteSet(0 .. NumMarkets - 1) /\ markets \subseteq 0 .. NumMarkets - 1
    BY <2>3
  <2> QED BY <2>1, FS_Subset
<1>3. others = [n \in 1 .. Cardinality(markets) |-> Account("openOrders", Nth(n))]
  BY DEF OtherOpenOrders
<1> HIDE DEF markets
<1>4. /\ Cardinality(markets) \in Nat
      /\ \A n \in 1 .. Cardinality(markets) : \E i \in markets : Cardinality(Below(markets, i)) = n - 1
      /\ \A i \in markets : Cardinality(Below(markets, i)) + 1 \in 1 .. Cardinality(markets)
      /\ \A i, k \in markets : Cardinality(Below(markets, i)) = Cardinality(Below(markets, k)) => i = k
  BY <1>1, <1>2, NumberRanks
<1>5. ASSUME NEW n \in 1 .. Cardinality(markets)
      PROVE  Nth(n) \in markets /\ Cardinality(Below(markets, Nth(n))) = n - 1
  BY <1>4 DEF Below
<1>6. ASSUME NEW i \in markets
      PROVE  \E n \in 1 .. Cardinality(markets) : Nth(n) = i
  <2>1. PICK n \in 1 .. Cardinality(markets) : n = Cardinality(Below(markets, i)) + 1
    BY <1>4
  <2>2. Below(markets, i) \in SUBSET markets
    BY DEF Below
  <2>3. Cardinality(Below(markets, i)) \in Nat
    BY <1>2, <2>2, FS_Subset, FS_CardinalityType
  <2>4. Cardinality(Below(markets, i)) = n - 1
    BY <2>1, <2>3
  <2>5. Nth(n) \in markets /\ Cardinality(Below(markets, Nth(n))) = n - 1
    BY <1>5
  <2> HIDE DEF Nth
  <2> QED BY <1>4, <2>4, <2>5
<1> HIDE DEF Nth, others
<1>7. ASSUME NEW n \in 1 .. Cardinality(markets) PROVE others[n] = Account("openOrders", Nth(n)) /\ others[n] \in OrderAccounts
  <2>1. Nth(n) \in Nat
    BY <1>1, <1>5
  <2>2. others[n] = Account("openOrders", Nth(n))
    BY <1>3
  <2> QED BY <2>1, <2>2 DEF OrderAccounts, AccountNames, Account
<1>8. others \in Seq(OrderAccounts) /\ Len(others) = Cardinality(markets)
  <2> HIDE DEF OrderAccounts
  <2> QED BY <1>3, <1>4, <1>7
<1>9. {others[n] : n \in 1 .. Len(others)} = {Account("openOrders", m) : m \in markets}
  BY <1>5, <1>6, <1>7, <1>8
<1> QED BY <1>1, <1>8, <1>9 DEF others

\* How a validator reads the accounts that every order has.
LEMMA LaidOutReads ==
  ASSUME NEW t, NEW pair \in DOMAIN Pairs, NEW others \in Seq(OrderAccounts), LaidOut(t, pair, others),
         NEW index \in 0 .. 23
  PROVE  /\ AccountAt(t, index) = Layout(pair)[index + 1]
         /\ index < 14 => IsWritable(t, index) = TRUE
         /\ ~(index < 14) => IsWritable(t, index) = FALSE
         /\ IsSigner(t, index) = (index = 0)
<1>1. Len(others) \in Nat /\ index + 1 \in 1 .. 24
  BY LenProperties
<1>2. /\ t.header.signatures = 1 /\ t.header.signingReadOnly = 0
      /\ t.header.readOnly = 10 + Len(others) /\ Len(t.accounts) = 24 + Len(others)
  BY DEF LaidOut
<1>3. AccountAt(t, index) = Layout(pair)[index + 1]
  BY <1>1 DEF LaidOut, AccountAt
<1>4. IsSigner(t, index) = (index = 0)
  BY <1>2 DEF IsSigner
<1>5. ASSUME index < 14 PROVE IsWritable(t, index) = TRUE
  BY <1>1, <1>2, <1>5 DEF IsSigner, IsWritable
<1>6. ASSUME ~(index < 14) PROVE IsWritable(t, index) = FALSE
  BY <1>1, <1>2, <1>6 DEF IsSigner, IsWritable
<1> QED BY <1>3, <1>4, <1>5, <1>6

\* What the documents say of an account is what is read at its index.
Placed(pair, index, documented) ==
    /\ index \in 0 .. 23
    /\ Layout(pair)[index + 1] = documented.account <=> ~OutOfPlace(documented.account)
    /\ (index < 14) = (documented.writable \/ documented.signer)
    /\ (index = 0) = documented.signer

LEMMA OwnerPlaced ==
  ASSUME NEW pair
  PROVE  Placed(pair, 0, Signs("owner"))
<1>1. /\ Signs("owner").account = Of("owner") /\ Signs("owner").writable = FALSE
      /\ Signs("owner").signer = TRUE
  BY DEF Signs
<1>2. 0 \in 0 .. 23 /\ 0 < 14 /\ Layout(pair)[0 + 1] = Of("owner")
  BY DEF Layout
<1>3. ~OutOfPlace(Of("owner"))
  BY DEF OutOfPlace, Of, Account
<1> QED BY <1>1, <1>2, <1>3, Zenon DEF Placed

LEMMA WritablePlaced ==
  ASSUME NEW pair, NEW index \in 1 .. 13, NEW name, NEW k,
         Layout(pair)[index + 1] = Account(name, k) <=> ~OutOfPlace(Account(name, k))
  PROVE  Placed(pair, index, RW(name, k))
<1>1. /\ RW(name, k).account = Account(name, k) /\ RW(name, k).writable = TRUE
      /\ RW(name, k).signer = FALSE
  BY DEF RW
<1>2. index \in 0 .. 23 /\ index < 14 /\ ~(index = 0)
  OBVIOUS
<1> QED BY <1>1, <1>2, Zenon DEF Placed

\* Other accounts than banks and vaults are never out of place.
LEMMA OthersInPlace ==
  ASSUME NEW name, name \notin {"nodeBank", "vault"}, NEW k
  PROVE  ~OutOfPlace(Account(name, k))
BY DEF OutOfPlace, Account

LEMMA OtherPlaced ==
  ASSUME NEW pair, NEW index \in 1 .. 13, NEW name, name \notin {"nodeBank", "vault"}, NEW k,
         Layout(pair)[index + 1] = Account(name, k)
  PROVE  Placed(pair, index, RW(name, k))
BY OthersInPlace, WritablePlaced

\* The banks and vaults of a token are its own exactly if it is in place.
LEMMA BankPlaced ==
  ASSUME NEW pair, NEW index \in 1 .. 13, NEW name \in {"nodeBank", "vault"}, NEW token,
         Layout(pair)[index + 1] = NodeBank(name, token)
  PROVE  Placed(pair, index, RW(name, token))
<1>1. CASE InPlace(token)
  <2>1. NodeBank(name, token) = Account(name, token)
    BY <1>1 DEF InPlace, NodeBank
  <2>2. ~OutOfPlace(Account(name, token))
    BY <1>1 DEF OutOfPlace, Account
  <2> QED BY <2>1, <2>2, WritablePlaced
<1>2. CASE ~InPlace(token)
  <2>1. OutOfPlace(Account(name, token))
    BY <1>2 DEF OutOfPlace, Account
  <2>2. NodeBank(name, token) # Account(name, token)
    <3>1. CASE token < Len(Currencies)
      <4>1. Currencies[token + 1] # token
        BY <1>2, <3>1 DEF InPlace
      <4> QED BY <3>1, <4>1 DEF NodeBank, Account
    <3>2. CASE ~(token < Len(Currencies))
      BY <3>2 DEF NodeBank, Account
    <3> QED BY <3>1, <3>2
  <2> QED BY <2>1, <2>2, WritablePlaced
<1> QED BY <1>1, <1>2

LEMMA ReadOnlyPlaced ==
  ASSUME NEW pair, NEW index \in 14 .. 23, NEW name, name \notin {"nodeBank", "vault"}, NEW k,
         Layout(pair)[index + 1] = Account(name, k)
  PROVE  Placed(pair, index, RO(name, k))
<1>1. /\ RO(name, k).account = Account(name, k) /\ RO(name, k).writable = FALSE
      /\ RO(name, k).signer = FALSE
  BY DEF RO
<1>2. index \in 0 .. 23 /\ ~(index < 14) /\ ~(index = 0)
  OBVIOUS
<1>3. (index < 14) = (RO(name, k).writable \/ RO(name, k).signer)
  <2>1. (RO(name, k).writable \/ RO(name, k).signer) = FALSE
    BY <1>1, Zenon
  <2>2. (index < 14) = FALSE
    BY <1>2
  <2> QED BY <2>1, <2>2, Zenon
<1>4. (index = 0) = RO(name, k).signer
  BY <1>1, <1>2, Zenon
<1>5. ~OutOfPlace(Account(name, k))
  BY OthersInPlace
<1> QED BY <1>1, <1>2, <1>3, <1>4, <1>5, Zenon DEF Placed

LEMMA PlacedAsDocumented ==
  ASSUME NEW pair, NEW n \in 1 .. 23
  PROVE  Placed(pair, PlaceIndices[n], WithoutRent(DocumentedPlace(pair))[n])
<1> DEFINE p == Pairs[pair]
           at == Layout(pair)
           doc == WithoutRent(DocumentedPlace(pair))
           i == PlaceIndices
<1>1. /\ i[1] = 14 /\ i[2] = 1 /\ i[3] = 0 /\ i[4] = 15 /\ i[5] = 16 /\ i[6] = 2
      /\ i[7] = 3 /\ i[8] = 4 /\ i[9] = 5 /\ i[10] = 6 /\ i[11] = 7 /\ i[12] = 8
      /\ i[13] = 17 /\ i[14] = 9 /\ i[15] = 10 /\ i[16] = 18 /\ i[17] = 11 /\ i[18] = 12
      /\ i[19] = 19 /\ i[20] = 20 /\ i[21] = 21 /\ i[22] = 22 /\ i[23] = 13
  BY DEF PlaceIndices
<1>2. /\ at[1] = Of("owner") /\ at[2] = Of("mangoAccount") /\ at[3] = Account("market", pair)
      /\ at[4] = Account("bids", pair) /\ at[5] = Account("asks", pair) /\ at[6] = Account("requestQueue", pair)
      /\ at[7] = Account("eventQueue", pair) /\ at[8] = Account("baseVault", pair) /\ at[9] = Account("quoteVault", pair)
      /\ at[10] = NodeBank("nodeBank", p.base) /\ at[11] = NodeBank("vault", p.base) /\ at[12] = NodeBank("nodeBank", p.quote)
      /\ at[13] = NodeBank("vault", p.quote) /\ at[14] = Account("openOrders", p.market) /\ at[15] = Of("mangoGroup")
      /\ at[16] = Of("mangoCache") /\ at[17] = Of("dexProgram") /\ at[18] = Account("rootBank", p.base)
      /\ at[19] = Account("rootBank", p.quote) /\ at[20] = Of("tokenProgram") /\ at[21] = Of("signer")
      /\ at[22] = Account("dexSigner", p.market) /\ at[23] = Of("msrmVault") /\ at[24] = Of("mangoProgram")
  BY DEF Layout
<1>3. /\ doc[1] = RO("mangoGroup", 0) /\ doc[2] = RW("mangoAccount", 0) /\ doc[3] = Signs("owner")
      /\ doc[4] = RO("mangoCache", 0) /\ doc[5] = RO("dexProgram", 0) /\ doc[6] = RW("market", pair)
      /\ doc[7] = RW("bids", pair) /\ doc[8] = RW("asks", pair) /\ doc[9] = RW("requestQueue", pair)
      /\ doc[10] = RW("eventQueue", pair) /\ doc[11] = RW("baseVault", pair) /\ doc[12] = RW("quoteVault", pair)
      /\ doc[13] = RO("rootBank", p.base) /\ doc[14] = RW("nodeBank", p.base) /\ doc[15] = RW("vault", p.base)
      /\ doc[16] = RO("rootBank", p.quote) /\ doc[17] = RW("nodeBank", p.quote) /\ doc[18] = RW("vault", p.quote)
      /\ doc[19] = RO("tokenProgram", 0) /\ doc[20] = RO("signer", 0) /\ doc[21] = RO("dexSigner", p.market)
      /\ doc[22] = RO("msrmVault", 0) /\ doc[23] = RW("openOrders", p.market)
  <2> DEFINE all == DocumentedPlace(pair)
  <2>1. DOMAIN doc = 1 .. 23 /\ \A k \in 1 .. 23 : doc[k] = all[IF k < 21 THEN k ELSE k + 1]
    <3>1. Len(all) = 24
      BY DEF DocumentedPlace
    <3> HIDE DEF all
    <3> QED BY <3>1 DEF WithoutRent, RentPlace, all
  <2>2. /\ all[1] = RO("mangoGroup", 0) /\ all[2] = RW("mangoAccount", 0) /\ all[3] = Signs("owner")
        /\ all[4] = RO("mangoCache", 0) /\ all[5] = RO("dexProgram", 0) /\ all[6] = RW("market", pair)
        /\ all[7] = RW("bids", pair) /\ all[8] = RW("asks", pair) /\ all[9] = RW("requestQueue", pair)
        /\ all[10] = RW("eventQueue", pair) /\ all[11] = RW("baseVault", pair) /\ all[12] = RW("quoteVault", pair)
        /\ all[13] = RO("rootBank", p.base) /\ all[14] = RW("nodeBank", p.base) /\ all[15] = RW("vault", p.base)
        /\ all[16] = RO("rootBank", p.quote) /\ all[17] = RW("nodeBank", p.quote) /\ all[18] = RW("vault", p.quote)
        /\ all[19] = RO("tokenProgram", 0) /\ all[20] = RO("signer", 0) /\ all[22] = RO("dexSigner", p.market)
        /\ all[23] = RO("msrmVault", 0) /\ all[24] = RW("openOrders", p.market)
    BY DEF DocumentedPlace
  <2> HIDE DEF all, doc
  <2>3. /\ \A k \in 1 .. 20 : doc[k] = all[k]
        /\ doc[21] = all[22] /\ doc[22] = all[23] /\ doc[23] = all[24]
    BY <2>1
  <2> QED BY <2>2, <2>3
<1> HIDE DEF at, doc, i
<1>4. /\ Placed(pair, i[1], doc[1]) /\ Placed(pair, i[2], doc[2])
      /\ Placed(pair, i[3], doc[3]) /\ Placed(pair, i[4], doc[4])
      /\ Placed(pair, i[5], doc[5]) /\ Placed(pair, i[6], doc[6])
  BY <1>1, <1>2, <1>3, OwnerPlaced, OtherPlaced, BankPlaced, ReadOnlyPlaced DEF at, Of
<1>5. /\ Placed(pair, i[7], doc[7]) /\ Placed(pair, i[8], doc[8])
      /\ Placed(pair, i[9], doc[9]) /\ Placed(pair, i[10], doc[10])
      /\ Placed(pair, i[11], doc[11]) /\ Placed(pair, i[12], doc[12])
  BY <1>1, <1>2, <1>3, OwnerPlaced, OtherPlaced, BankPlaced, ReadOnlyPlaced DEF at, Of
<1>6. /\ Placed(pair, i[13], doc[13]) /\ Placed(pair, i[14], doc[14])
      /\ Placed(pair, i[15], doc[15]) /\ Placed(pair, i[16], doc[16])
      /\ Placed(pair, i[17], doc[17]) /\ Placed(pair, i[18], doc[18])
  BY <1>1, <1>2, <1>3, OwnerPlaced, OtherPlaced, BankPlaced, ReadOnlyPlaced DEF at, Of
<1>7. /\ Placed(pair, i[19], doc[19]) /\ Placed(pair, i[20], doc[20])
      /\ Placed(pair, i[21], doc[21]) /\ Placed(pair, i[22], doc[22])
      /\ Placed(pair, i[23], doc[23])
  BY <1>1, <1>2, <1>3, OwnerPlaced, OtherPlaced, BankPlaced, ReadOnlyPlaced DEF at, Of
<1> QED BY <1>4, <1>5, <1>6, <1>7 DEF doc, i

LEMMA CancelledAsDocumented ==
  ASSUME NEW pair, NEW n \in 1 .. 6
  PROVE  Placed(pair, CancelIndices[n], DocumentedCancel(pair)[n])
<1> DEFINE p == Pairs[pair]
           at == Layout(pair)
           doc == DocumentedCancel(pair)
           i == CancelIndices
<1>1. i[1] = 2 /\ i[2] = 3 /\ i[3] = 4 /\ i[4] = 13 /\ i[5] = 0 /\ i[6] = 6
  BY DEF CancelIndices
<1>2. /\ at[3] = Account("market", pair) /\ at[4] = Account("bids", pair) /\ at[5] = Account("asks", pair)
      /\ at[14] = Account("openOrders", p.market) /\ at[7] = Account("eventQueue", pair)
  BY DEF Layout
<1>3. /\ doc[1] = RW("market", pair) /\ doc[2] = RW("bids", pair) /\ doc[3] = RW("asks", pair)
      /\ doc[4] = RW("openOrders", p.market) /\ doc[5] = Signs("owner") /\ doc[6] = RW("eventQueue", pair)
  BY DEF DocumentedCancel
<1> HIDE DEF at, doc, i
<1>4. /\ Placed(pair, i[1], doc[1]) /\ Placed(pair, i[2], doc[2]) /\ Placed(pair, i[3], doc[3])
      /\ Placed(pair, i[4], doc[4]) /\ Placed(pair, i[5], doc[5]) /\ Placed(pair, i[6], doc[6])
  BY <1>1, <1>2, <1>3, OwnerPlaced, OtherPlaced DEF at
<1> QED BY <1>4 DEF doc, i

LEMMA ReadsAsLaidOut ==
  ASSUME NEW t, NEW pair \in DOMAIN Pairs, NEW others \in Seq(OrderAccounts), LaidOut(t, pair, others),
         NEW documented, t.instructions[1].programId = ProgramId,
         \A n \in DOMAIN documented : Placed(pair, t.instructions[1].accountIndices[n], documented[n])
  PROVE  ReadsAs(t, 1, documented)
<1>1. AccountAt(t, t.instructions[1].programId) = Of("mangoProgram")
  <2>1. PICK index \in 0 .. 23 : index = 23
    OBVIOUS
  <2>2. AccountAt(t, index) = Layout(pair)[index + 1]
    BY LaidOutReads
  <2>3. Layout(pair)[24] = Of("mangoProgram")
    BY DEF Layout
  <2> QED BY <2>1, <2>2, <2>3 DEF ProgramId
<1>2. ASSUME NEW n \in DOMAIN documented, NEW index, index = t.instructions[1].accountIndices[n]
      PROVE  /\ AccountAt(t, index) = documented[n].account <=> ~OutOfPlace(documented[n].account)
             /\ IsSigner(t, index) = documented[n].signer
             /\ IsWritable(t, index) = (documented[n].writable \/ documented[n].signer)
  <2>1. Placed(pair, index, documented[n])
    BY <1>2
  <2>2. /\ AccountAt(t, index) = Layout(pair)[index + 1]
        /\ IsWritable(t, index) = (index < 14)
        /\ IsSigner(t, index) = (index = 0)
    BY <2>1, LaidOutReads DEF Placed
  <2> QED BY <2>1, <2>2, Zenon DEF Placed
<1> QED BY <1>1, <1>2 DEF ReadsAs

-----------------------------------------------------------------------------
\* The sum over the sizes of the items, item by item.
SumsUp(total, sizes) ==
    /\ total[0] = 0
    /\ \A k \in 1 .. Len(sizes) : total[k] = total[k - 1] + sizes[k]
    /\ Sum(sizes) = total[Len(sizes)]

\* The function by which a fold over the places of the sizes sums them up.
FoldsSizes(iter, sizes) ==
    iter = [t \in SUBSET DOMAIN sizes |->
               IF t = {} THEN 0 ELSE iter[t \ {Max(t)}] + sizes[Max(t)]]

LEMMA SumIsTotal ==
  ASSUME NEW sizes \in Seq(Nat)
  PROVE  \E total : SumsUp(total, sizes)
<1>1. /\ Len(sizes) \in Nat /\ DOMAIN sizes = 1 .. Len(sizes)
      /\ \A i \in 1 .. Len(sizes) : sizes[i] \in Nat
  BY ElementOfSeq, LenProperties
<1> DEFINE n == Len(sizes)
           adds == [x \in (1 .. n) \X Nat |-> x[2] + sizes[x[1]]]
<1>2. ASSUME NEW i \in 1 .. n, NEW v \in Nat
      PROVE  adds[<<i, v>>] = v + sizes[i] /\ adds[<<i, v>>] \in Nat
  BY <1>1
<1> HIDE DEF adds
<1>3. PICK iter \in [SUBSET (1 .. n) -> Nat] : \A t \in SUBSET (1 .. n) :
         iter[t] = IF t = {} THEN 0 ELSE adds[<<Max(t), iter[t \ {Max(t)}]>>]
  <2>1. Foldable(n, Nat, 0, adds)
    BY <1>2 DEF Foldable
  <2>2. PICK f : Folded(f, n, Nat, 0, adds)
    BY <1>1, <2>1, FoldExists
  <2> QED BY <2>2 DEF Folded
<1>4. ASSUME NEW t \in SUBSET (1 .. n)
      PROVE  iter[t] = IF t = {} THEN 0 ELSE iter[t \ {Max(t)}] + sizes[Max(t)]
  <2>1. CASE t = {}
    BY <1>3, <2>1
  <2>2. CASE t # {}
    <3>1. Max(t) \in 1 .. n
      BY <1>1, <2>2, MaxIsGreatest
    <3>2. iter[t \ {Max(t)}] \in Nat
      BY <1>3
    <3> QED BY <1>2, <1>3, <2>2, <3>1, <3>2
  <2> QED BY <2>1, <2>2
<1>5. \E f : FoldsSizes(f, sizes)
  <2>1. iter = [t \in SUBSET DOMAIN sizes |-> iter[t]]
    BY <1>1, <1>3
  <2>2. \A t \in SUBSET DOMAIN sizes :
           iter[t] = IF t = {} THEN 0 ELSE iter[t \ {Max(t)}] + sizes[Max(t)]
    BY <1>1, <1>4
  <2>3. FoldsSizes(iter, sizes)
    BY <2>1, <2>2, Zenon DEF FoldsSizes
  <2> QED BY <2>3
<1> DEFINE fold == CHOOSE f : FoldsSizes(f, sizes)
<1>6. FoldsSizes(fold, sizes)
  BY <1>5
<1>7. Sum(sizes) = fold[DOMAIN sizes]
  BY DEF Sum, FoldLeft, MapThenFoldSet, FoldsSizes
<1> HIDE DEF fold
<1>8. \A t \in SUBSET (1 .. n) : fold[t] = IF t = {} THEN 0 ELSE fold[t \ {Max(t)}] + sizes[Max(t)]
  BY <1>1, <1>6, Zenon DEF FoldsSizes
<1> DEFINE total == [k \in 0 .. n |-> fold[1 .. k]]
<1>9. total[0] = 0
  <2>1. 1 .. 0 = {} /\ {} \in SUBSET (1 .. n) /\ 0 \in 0 .. n
    BY <1>1
  <2>2. fold[{}] = 0
    BY <1>8, <2>1
  <2> QED BY <2>1, <2>2
<1>10. ASSUME NEW k \in 1 .. n PROVE total[k] = total[k - 1] + sizes[k]
  <2>1. Max(1 .. k) = k /\ (1 .. k) \ {Max(1 .. k)} = 1 .. (k - 1) /\ 1 .. k # {}
    BY <1>1, MaxOfUpTo
  <2>2. 1 .. k \in SUBSET (1 .. n) /\ k \in 0 .. n /\ k - 1 \in 0 .. n
    BY <1>1
  <2>3. fold[1 .. k] = fold[1 .. (k - 1)] + sizes[k]
    BY <1>8, <2>1, <2>2
  <2> QED BY <2>2, <2>3
<1>11. Sum(sizes) = total[n]
  BY <1>1, <1>7
<1> HIDE DEF total
<1>12. SumsUp(total, sizes)
  BY <1>9, <1>10, <1>11 DEF SumsUp
<1> QED BY <1>12

\* The instruction of an order: its places, and behind them those of the other open orders.
Instructs(t, others) ==
    LET i == t.instructions[1].accountIndices
    IN  /\ t.instructions = <<Instruction(ProgramId, i, PlaceItems)>>
        /\ DOMAIN i = 1 .. (23 + Len(others)) /\ Len(i) = 23 + Len(others)
        /\ \A n \in 1 .. 23 : i[n] = PlaceIndices[n]
        /\ \A n \in 1 .. Len(others) : i[23 + n] = 23 + n

LEMMA PlaceLaidOut ==
  ASSUME NEW pair \in DOMAIN Pairs, NEW basket \in Baskets, NEW blockhash,
         NEW others, others = OtherOpenOrders(pair, basket),
         NEW t, t = PlaceSpotOrder(pair, blockhash, basket)
  PROVE  others \in Seq(OrderAccounts) /\ LaidOut(t, pair, others) /\ Instructs(t, others) /\ Len(t.signatures) = 1
<1>1. others \in Seq(OrderAccounts)
  BY OthersListed
<1>2. PICK i : i = PlaceIndices \o OtherIndices(others)
  OBVIOUS
<1>3. t = Transaction(blockhash, SigningWritable, <<>>, WritableKeys(pair), ReadOnlyKeys(pair) \o others,
                      <<Instruction(ProgramId, i, PlaceItems)>>)
  BY <1>2, Zenon DEF PlaceSpotOrder
<1>4. LaidOut(t, pair, others)
  BY <1>1, <1>3, AccountsLaidOut
<1>5. Len(others) \in Nat
  BY <1>1, LenProperties
<1>6. /\ OtherIndices(others) \in Seq(Nat) /\ Len(OtherIndices(others)) = Len(others)
      /\ \A n \in 1 .. Len(others) : OtherIndices(others)[n] = 23 + n
  <2>1. DOMAIN others = 1 .. Len(others)
    BY <1>1, LenProperties
  <2>2. OtherIndices(others) = [n \in 1 .. Len(others) |-> 23 + n]
    BY <2>1 DEF OtherIndices, ProgramId
  <2>3. \A n \in 1 .. Len(others) : 23 + n \in Nat
    BY <1>5
  <2> QED BY <1>5, <2>2, <2>3
<1>7. PlaceIndices \in Seq(Nat) /\ Len(PlaceIndices) = 23
  BY DEF PlaceIndices
<1>8. i \in Seq(Nat) /\ Joined(i, PlaceIndices, OtherIndices(others))
  BY <1>2, <1>6, <1>7, Concatenated
<1>9. t.instructions = <<Instruction(ProgramId, i, PlaceItems)>> /\ t.signatures = SigningWritable \o <<>>
  BY <1>3 DEF Transaction
<1>10. t.instructions[1].accountIndices = i
  BY <1>9 DEF Instruction
<1>11. DOMAIN i = 1 .. (23 + Len(others)) /\ Len(i) = 23 + Len(others)
  <2>1. Len(i) = 23 + Len(others)
    BY <1>6, <1>7, <1>8 DEF Joined
  <2> QED BY <1>8, <2>1, LenProperties
<1>12. /\ \A n \in 1 .. 23 : i[n] = PlaceIndices[n]
       /\ \A n \in 1 .. Len(others) : i[23 + n] = 23 + n
  BY <1>6, <1>7, <1>8 DEF Joined
<1>13. Len(t.signatures) = 1
  <2>1. SigningWritable \o <<>> = <<Of("owner")>>
    BY DEF SigningWritable
  <2> QED BY <1>9, <2>1
<1> QED BY <1>1, <1>4, <1>9, <1>10, <1>11, <1>12, <1>13 DEF Instructs

LEMMA PlaceReadsAs ==
  ASSUME NEW pair \in DOMAIN Pairs, NEW basket \in Baskets, NEW blockhash,
         NEW t, t = PlaceSpotOrder(pair, blockhash, basket)
  PROVE  ReadsAs(t, 1, WithoutRent(DocumentedPlace(pair)))
<1>1. PICK others : others = OtherOpenOrders(pair, basket)
  OBVIOUS
<1>2. others \in Seq(OrderAccounts) /\ LaidOut(t, pair, others) /\ Instructs(t, others)
  BY <1>1, PlaceLaidOut
<1>3. DOMAIN WithoutRent(DocumentedPlace(pair)) = 1 .. 23
  <2>1. Len(DocumentedPlace(pair)) = 24
    BY DEF DocumentedPlace
  <2> QED BY <2>1 DEF WithoutRent
<1>4. t.instructions[1].programId = ProgramId
  BY <1>2 DEF Instructs, Instruction
<1>5. ASSUME NEW n \in 1 .. 23
      PROVE  Placed(pair, t.instructions[1].accountIndices[n], WithoutRent(DocumentedPlace(pair))[n])
  <2>1. t.instructions[1].accountIndices[n] = PlaceIndices[n]
    BY <1>2 DEF Instructs
  <2> QED BY <2>1, PlacedAsDocumented
<1> QED BY <1>2, <1>3, <1>4, <1>5, ReadsAsLaidOut

\* The accounts behind the program are those of the basket's other markets.
BasketBehind(accounts, pair, basket) ==
    {accounts[n] : n \in 24 .. Len(accounts)}
        = {Account("openOrders", m) : m \in basket \ {Pairs[pair].market}}

LEMMA OthersBehind ==
  ASSUME NEW pair \in DOMAIN Pairs, NEW basket \in Baskets, NEW blockhash,
         NEW t, t = PlaceSpotOrder(pair, blockhash, basket),
         NEW accounts, accounts = AccountsOf(t, 1)
  PROVE  BasketBehind(accounts, pair, basket)
<1>1. PICK others : others = OtherOpenOrders(pair, basket)
  OBVIOUS
<1>2. others \in Seq(OrderAccounts) /\ LaidOut(t, pair, others) /\ Instructs(t, others)
  BY <1>1, PlaceLaidOut
<1>3. {others[n] : n \in 1 .. Len(others)} = {Account("openOrders", m) : m \in basket \ {Pairs[pair].market}}
  BY <1>1, OthersListed
<1>4. Len(others) \in Nat
  BY <1>2, LenProperties
<1>5. PICK i : i = t.instructions[1].accountIndices
  OBVIOUS
<1>6. DOMAIN i = 1 .. (23 + Len(others)) /\ \A n \in 1 .. Len(others) : i[23 + n] = 23 + n
  BY <1>2, <1>5 DEF Instructs
<1>7. accounts = [n \in 1 .. (23 + Len(others)) |-> t.accounts[i[n] + 1]]
  BY <1>5, <1>6 DEF AccountsOf, AccountAt
<1>8. Len(accounts) = 23 + Len(others)
  BY <1>4, <1>7
<1>9. ASSUME NEW n \in 1 .. Len(others) PROVE accounts[23 + n] = others[n]
  <2>1. 23 + n \in 1 .. (23 + Len(others)) /\ (23 + n) + 1 = 24 + n
    BY <1>4
  <2>2. accounts[23 + n] = t.accounts[24 + n]
    BY <1>6, <1>7, <2>1
  <2> QED BY <1>2, <2>2 DEF LaidOut
<1>10. \A n \in 24 .. Len(accounts) : n - 23 \in 1 .. Len(others) /\ 23 + (n - 23) = n
  BY <1>4, <1>8
<1>11. \A n \in 1 .. Len(others) : 23 + n \in 24 .. Len(accounts)
  BY <1>4, <1>8
<1>12. {accounts[n] : n \in 24 .. Len(accounts)} = {others[n] : n \in 1 .. Len(others)}
  <2>1. \A n \in 24 .. Len(accounts) : accounts[n] = others[n - 23] /\ n - 23 \in 1 .. Len(others)
    BY <1>9, <1>10
  <2> QED BY <1>9, <1>11, <2>1
<1> QED BY <1>3, <1>12, Zenon DEF BasketBehind

LEMMA CancelReadsAs ==
  ASSUME NEW pair \in DOMAIN Pairs, NEW blockhash,
         NEW t, t = CancelSpotOrder(pair, blockhash)
  PROVE  ReadsAs(t, 1, DocumentedCancel(pair))
<1>1. PICK instructions : instructions =
         <<Instruction(ProgramId, CancelIndices, CancelItems), Instruction(ProgramId, SettleIndices, <<4>>)>>
  OBVIOUS
<1>2. PICK others : others = <<>> /\ others \in Seq(OrderAccounts)
  BY EmptySeq
<1>3. t = Transaction(blockhash, SigningWritable, <<>>, WritableKeys(pair), ReadOnlyKeys(pair) \o others, instructions)
  <2>1. ReadOnlyKeys(pair) \o others = ReadOnlyKeys(pair)
    BY <1>2 DEF ReadOnlyKeys
  <2> QED BY <1>1, <2>1, Zenon DEF CancelSpotOrder
<1>4. LaidOut(t, pair, others)
  BY <1>2, <1>3, AccountsLaidOut
<1>5. t.instructions = instructions
  BY <1>3 DEF Transaction
<1>6. t.instructions[1].programId = ProgramId /\ t.instructions[1].accountIndices = CancelIndices
  BY <1>1, <1>5 DEF Instruction
<1>7. DOMAIN DocumentedCancel(pair) = 1 .. 6
  BY DEF DocumentedCancel
<1> QED BY <1>2, <1>4, <1>6, <1>7, CancelledAsDocumented, ReadsAsLaidOut

\* The quotient is the greatest whole number whose product is not above.
LEMMA Quotient ==
  ASSUME NEW a \in Nat, NEW b \in Nat \ {0}
  PROVE  a \div b \in Nat /\ (a \div b) * b =< a /\ \A z \in Nat : z * b =< a => z =< a \div b
OBVIOUS

LEMMA ProductsGrow ==
  ASSUME NEW a \in Nat, NEW b \in Nat, NEW x \in Nat, NEW y \in Nat, x =< a, y =< b
  PROVE  x * y =< a * b /\ x * y \in Nat /\ a * b \in Nat
<1>1. a - x \in Nat /\ b - y \in Nat /\ a = x + (a - x) /\ b = y + (b - y)
  OBVIOUS
<1>2. a * b = x * y + (x * (b - y) + (a - x) * b)
  OBVIOUS
<1>3. x * (b - y) \in Nat /\ (a - x) * b \in Nat /\ x * y \in Nat
  BY <1>1
<1> QED BY <1>2, <1>3

\* What an order may cost covers its quantity at its limit, in lots.
Covered(amounts) ==
    /\ amounts \in [price : Nat, quantity : Nat, maxQuoteQuantity : Nat]
    /\ amounts.maxQuoteQuantity >= amounts.price * amounts.quantity

\* The amounts of an instruction, of a price and a quantity in their units and lots.
InLots(a, b, c, d, x, y, z) ==
    x = a \div c /\ y = b \div d /\ z = (10003 * (a * b)) \div (10000 * (c * d))

LEMMA FeeCovers ==
  ASSUME NEW a \in Nat, NEW b \in Nat, NEW c \in Nat \ {0}, NEW d \in Nat \ {0},
         NEW x, NEW y, NEW z, InLots(a, b, c, d, x, y, z)
  PROVE  Covered([price |-> x, quantity |-> y, maxQuoteQuantity |-> z])
<1>12. x = a \div c /\ y = b \div d /\ z = (10003 * (a * b)) \div (10000 * (c * d))
  BY DEF InLots
<1>1. x \in Nat /\ y \in Nat /\ x * c =< a /\ y * d =< b
  BY <1>12, Quotient
<1>2. /\ x * c \in Nat /\ y * d \in Nat /\ a * b \in Nat /\ x * y \in Nat
      /\ c * d \in Nat \ {0}
  BY <1>1
<1>3. (x * c) * (y * d) =< a * b
  BY <1>1, <1>2, ProductsGrow
<1>4. (x * c) * (y * d) = (x * y) * (c * d)
  BY <1>1
<1>5. PICK m, k, q \in Nat : m = a * b /\ k = c * d /\ q = x * y
  BY <1>2
<1>6. q * k =< m /\ k # 0
  BY <1>2, <1>3, <1>4, <1>5
<1>7. q * (10000 * k) = 10000 * (q * k) /\ q * k \in Nat
  OBVIOUS
<1>8. q * (10000 * k) =< 10003 * m
  BY <1>6, <1>7
<1>9. 10000 * k \in Nat \ {0} /\ 10003 * m \in Nat
  BY <1>6
<1>10. z = (10003 * m) \div (10000 * k)
  BY <1>5, <1>12
<1>11. z \in Nat /\ q =< z
  BY <1>8, <1>9, <1>10, Quotient
<1> QED BY <1>1, <1>5, <1>11 DEF Covered

LEMMA AmountsCover ==
  ASSUME NEW o, o.price \in Nat, o.quantity \in Nat
  PROVE  Covered(Amounts(o))
<1>1. PICK p, q, qu, bu \in Nat, ql, bl \in Nat \ {0} :
         /\ p = o.price /\ q = o.quantity /\ qu = Lots.quoteUnit /\ bu = Lots.baseUnit
         /\ ql = Lots.quoteLotSize /\ bl = Lots.baseLotSize
  BY GroupAssumption
<1>2. PICK a, b \in Nat : a = p * qu /\ b = q * bu
  OBVIOUS
<1>3. PICK x, y, z : InLots(a, b, ql, bl, x, y, z)
  <2>1. InLots(a, b, ql, bl, a \div ql, b \div bl, (10003 * (a * b)) \div (10000 * (ql * bl)))
    BY DEF InLots
  <2> QED BY <2>1
<1>4. /\ (o.price * Lots.quoteUnit) \div Lots.quoteLotSize = x
      /\ (o.quantity * Lots.baseUnit) \div Lots.baseLotSize = y
  BY <1>1, <1>2, <1>3 DEF InLots
<1>5. (10003 * o.price * Lots.quoteUnit * o.quantity * Lots.baseUnit)
         \div (10000 * Lots.quoteLotSize * Lots.baseLotSize) = z
  <2>1. 10003 * p * qu * q * bu = 10003 * (a * b)
    BY <1>2
  <2>2. 10000 * ql * bl = 10000 * (ql * bl)
    OBVIOUS
  <2>3. PICK num, den :
           /\ num = 10003 * o.price * Lots.quoteUnit * o.quantity * Lots.baseUnit
           /\ den = 10000 * Lots.quoteLotSize * Lots.baseLotSize
    OBVIOUS
  <2>4. num = 10003 * (a * b) /\ den = 10000 * (ql * bl)
    BY <1>1, <2>1, <2>2, <2>3
  <2>5. num \div den = z
    BY <1>3, <2>4 DEF InLots
  <2> QED BY <2>3, <2>5
<1>6. Amounts(o) = [price |-> x, quantity |-> y, maxQuoteQuantity |-> z]
  BY <1>4, <1>5 DEF Amounts
<1>7. Covered([price |-> x, quantity |-> y, maxQuoteQuantity |-> z])
  BY <1>3, FeeCovers
<1> QED BY <1>6, <1>7, Zenon

-----------------------------------------------------------------------------
LEMMA ItemsSize == Sum(PlaceItems) = 50
<1>1. PICK s : s = PlaceItems
  OBVIOUS
<1>2. s = <<4, 4, 8, 8, 8, 4, 4, 8, 2>>
  BY <1>1 DEF PlaceItems
<1>3. s \in Seq(Nat) /\ Len(s) = 9
  BY <1>2
<1>4. s[1] = 4 /\ s[2] = 4 /\ s[3] = 8 /\ s[4] = 8 /\ s[5] = 8 /\ s[6] = 4 /\ s[7] = 4 /\ s[8] = 8 /\ s[9] = 2
  BY <1>2
<1>5. PICK total : SumsUp(total, s)
  BY <1>3, SumIsTotal
<1>6. total[0] = 0 /\ Sum(s) = total[9] /\ \A k \in 1 .. 9 : total[k] = total[k - 1] + s[k]
  BY <1>3, <1>5 DEF SumsUp
<1>7. /\ total[1] = total[0] + 4 /\ total[2] = total[1] + 4 /\ total[3] = total[2] + 8
      /\ total[4] = total[3] + 8 /\ total[5] = total[4] + 8 /\ total[6] = total[5] + 4
      /\ total[7] = total[6] + 4 /\ total[8] = total[7] + 8 /\ total[9] = total[8] + 2
  BY <1>4, <1>6
<1> QED BY <1>1, <1>6, <1>7

LEMMA SumOfOne ==
  ASSUME NEW size \in Nat
  PROVE  Sum(<<size>>) = size
<1>1. PICK s : s = <<size>>
  OBVIOUS
<1>2. s \in Seq(Nat) /\ Len(s) = 1 /\ s[1] = size
  BY <1>1
<1>3. PICK total : SumsUp(total, s)
  BY <1>2, SumIsTotal
<1>4. total[1] = total[1 - 1] + s[1] /\ total[0] = 0 /\ Sum(s) = total[1]
  BY <1>2, <1>3 DEF SumsUp
<1> QED BY <1>1, <1>2, <1>4

\* With 8 open orders of other markets an order still fits.
LEMMA OrderFits ==
  ASSUME NEW t, NEW pair, NEW others \in Seq(OrderAccounts), LaidOut(t, pair, others), Instructs(t, others),
         Len(t.signatures) = 1, Len(others) =< 8
  PROVE  TransactionSize(t) =< MaxTransactionSize
<1>1. PICK n \in Nat : n = Len(others)
  BY LenProperties
<1>2. PICK i : t.instructions = <<Instruction(ProgramId, i, PlaceItems)>> /\ Len(i) = 23 + n
  BY <1>1 DEF Instructs
<1>3. Len(t.accounts) = 24 + n
  BY <1>1 DEF LaidOut
<1>4. PICK size : size = InstructionSize(Instruction(ProgramId, i, PlaceItems))
  OBVIOUS
<1>5. size = 1 + (1 + (23 + n)) + (1 + 50)
  <2>1. size = 1 + CompactArraySize(23 + n, 1) + CompactArraySize(50, 1)
    BY <1>2, <1>4, ItemsSize DEF InstructionSize, Instruction
  <2> QED BY <1>1, <2>1 DEF CompactArraySize, SizeofCompactU16
<1>6. Sum([k \in DOMAIN t.instructions |-> InstructionSize(t.instructions[k])]) = size
  <2>1. [k \in DOMAIN t.instructions |-> InstructionSize(t.instructions[k])] = <<size>>
    <3>1. PICK instruction : instruction = Instruction(ProgramId, i, PlaceItems) /\ t.instructions = <<instruction>>
      BY <1>2
    <3> QED BY <1>4, <3>1
  <2>2. size \in Nat
    BY <1>5
  <2> QED BY <2>1, <2>2, SumOfOne
<1>7. Len(t.instructions) = 1
  BY <1>2
<1>8. TransactionSize(t) = (1 + 64) + 3 + (1 + 32 * (24 + n)) + 32 + 1 + size
  <2>1. /\ CompactArraySize(Len(t.signatures), SignatureSize) = 1 + 64
        /\ CompactArraySize(Len(t.accounts), HashSize) = 1 + 32 * (24 + n)
        /\ SizeofCompactU16(Len(t.instructions)) = 1
    BY <1>1, <1>3, <1>7 DEF CompactArraySize, SizeofCompactU16, SignatureSize, HashSize
  <2>2. HashSize = 32
    BY DEF HashSize
  <2> QED BY <1>6, <2>1, <2>2, Zenon DEF TransactionSize
<1> QED BY <1>1, <1>5, <1>8 DEF MaxTransactionSize

-----------------------------------------------------------------------------
\* An order is about a pair, of numbers, and of a margin basket once it is signed; what it may
\* cost covers it from the time it is made.
OrderStates == {"posted", "sending", "signature", "CLOSED", "failed"}
Orders ==
    [pair : DOMAIN Pairs, side : Sides, price : Nat, quantity : Nat, state : OrderStates,
     blockhash : Nat, basket : Baskets \cup {NoBasket},
     amounts : [price : Nat, quantity : Nat, maxQuoteQuantity : Nat]]
SignedAndCovered(o) ==
    /\ o \in Orders /\ Covered(o.amounts)
    /\ o.state # "posted" => o.basket \in Baskets
OrdersIInv ==
    /\ inMarginBasket \in Baskets \cup {NoBasket}
    /\ orders \in Seq(Orders)
    /\ \A i \in 1 .. Len(orders) : SignedAndCovered(orders[i])

\* The steps that touch an order or the margin basket.
OrderGoesOnOrFails(i) == orders[i].state \in {"sending", "signature"} /\ (OrderGoesOn(i) \/ OrderFails(i))
OrdersStep ==
    \/ UNCHANGED orders /\ (UNCHANGED inMarginBasket \/ inMarginBasket' \in Baskets)
    \/ /\ UNCHANGED inMarginBasket
       /\ \E p \in DOMAIN Pairs, book \in Books : Decides(p, book)
    \/ /\ UNCHANGED inMarginBasket
       /\ \E i \in DOMAIN orders : SignOrder(i) \/ OrderGoesOnOrFails(i)

LEMMA OrdersStepOfOrders == ASSUME OrderStep PROVE OrdersStep
<1>1. CASE ReferenceDataReturns
  BY <1>1 DEF ReferenceDataReturns, ClientKept, OrdersStep
<1>2. CASE DoOnRecentBlockhash \/ BlockhashSubscribed \/ LoadOwner \/ OwnerReturns \/ OwnerTaken \/ AccountSubscribed
  BY <1>2 DEF DoOnRecentBlockhash, BlockhashSubscribed, LoadOwner, OwnerReturns, OwnerTaken,
              AccountSubscribed, ClientKept, OrdersStep
<1>3. ASSUME NEW i \in DOMAIN orders, SignOrder(i) \/ OrderGoesOnOrFails(i)
      PROVE  OrdersStep
  BY <1>3 DEF SignOrder, OrderGoesOnOrFails, OrderGoesOn, OrderFails, OrdersStep
<1> QED BY <1>1, <1>2, <1>3 DEF OrderStep, ClientLoads, OrderGoesOnOrFails

LEMMA OrdersStepOfStrategy == ASSUME StrategyStep PROVE OrdersStep
<1>1. CASE UNCHANGED orderVars
  BY <1>1 DEF orderVars, OrdersStep
<1>2. CASE RunGoesOn \/ OrderClientsLoaded \/ Crash \/ LoadOrderClients
  BY <1>2 DEF RunGoesOn, OrderClientsLoaded, Crash, LoadOrderClients, LoadMangoAccount, orderVars, OrdersStep
<1>3. CASE UNCHANGED <<keyVars, loading, clientBlockhash, inMarginBasket, orders, strategyVars>>
  BY <1>3 DEF OrdersStep
<1>4. ASSUME NEW basket \in Baskets, OnMangoAccount(basket)
      PROVE  OrdersStep
  BY <1>4 DEF OnMangoAccount, ClientKept, OrdersStep
<1>5. ASSUME NEW p \in DOMAIN Pairs, NEW book \in Books, OnSerumBook(p, book) \/ OnFtxBook(p, book)
      PROVE  OrdersStep
  <2>1. Decides(p, book) /\ UNCHANGED inMarginBasket
    BY <1>5 DEF OnSerumBook, OnFtxBook, Decides
  <2> QED BY <2>1 DEF OrdersStep
<1>6. ASSUME NEW wallet \in Wallets, OnMangoWallet(wallet) \/ OnFtxWallet(wallet)
      PROVE  UNCHANGED orderVars
  BY <1>6 DEF OnMangoWallet, OnFtxWallet
<1> QED BY <1>1, <1>2, <1>3, <1>4, <1>5, <1>6, OrdersStepOfOrders DEF StrategyStep

LEMMA OrdersStepOfClient == ASSUME [ClientNext]_allVars PROVE OrdersStep
<1>1. CASE UNCHANGED orderVars
  BY <1>1 DEF orderVars, OrdersStep
<1>2. ASSUME NEW p \in Processes, Main(p) \/ CallKeyStore(p) \/ CommandReturns(p) \/ Kill(p)
      PROVE  UNCHANGED orderVars
  BY <1>2 DEF Main, CallKeyStore, CommandReturns, Kill, StrategyKept
<1>3. CASE ConfigFails
  BY <1>1, <1>3 DEF ConfigFails, StrategyKept
<1>4. CASE TestStep
  BY <1>1, <1>4 DEF TestStep, TestRun, TestSerumBook, TestFtxBook, OthersKept
<1>5. CASE UNCHANGED allVars
  BY <1>1, <1>5 DEF allVars, vars
<1> QED BY <1>1, <1>2, <1>3, <1>4, <1>5, OrdersStepOfStrategy DEF ClientNext, StrategyKept

\* What a strategy takes liquidity with is an order of numbers.
LEMMA OrderOfBooks ==
  ASSUME NEW side, NEW serum \in Seq(Level), NEW ftx \in Seq(Level), serum # <<>>, ftx # <<>>, NEW p
  PROVE  LET o == TakeLiquidityOrder(p, side, Arbitrage(side, serum, ftx))
         IN  o.pair = p /\ o.side = side /\ o.price \in Nat /\ o.quantity \in Nat
<1>1. PICK a : a = Arbitrage(side, serum, ftx)
  OBVIOUS
<1>2. a \in WalkStates
  <2>1. PICK w : WalkOf(w, side, serum, ftx)
    BY WalkExists
  <2>2. Len(serum) + Len(ftx) \in Nat
    BY LenProperties
  <2> QED BY <1>1, <2>1, <2>2 DEF WalkOf
<1>3. a.price \in Nat /\ a.quantity \in Nat
  BY <1>2 DEF WalkStates
<1>4. Smaller(a.quantity, MaxTradeQuantity) \in Nat
  BY <1>3 DEF Smaller, MaxTradeQuantity
<1> QED BY <1>1, <1>3, <1>4 DEF TakeLiquidityOrder

LEMMA SentOrder ==
  ASSUME BooksTypeOK', NEW p \in DOMAIN Pairs, NEW book \in Books, BooksTypeOK, Decides(p, book)
  PROVE  orders' = orders \/ \E o : SignedAndCovered(o) /\ orders' = Append(orders, o)
<1>1. DoBookUpdate(p, serumBooks'[p], ftxBooks'[p])
  <2>1. \/ serumBooks'[p] = book /\ ftxBooks'[p] = ftxBooks[p] /\ DoBookUpdate(p, book, ftxBooks[p])
        \/ ftxBooks'[p] = book /\ serumBooks'[p] = serumBooks[p] /\ DoBookUpdate(p, serumBooks[p], book)
    BY DEF Decides, BooksTypeOK
  <2> QED BY <2>1
<1>2. CASE UNCHANGED orders
  BY <1>2
<1>3. ASSUME NEW side \in Sides, Worth(side, serumBooks'[p], ftxBooks'[p]),
             TakeSide(p, side, serumBooks'[p], ftxBooks'[p])
      PROVE  \E o : SignedAndCovered(o) /\ orders' = Append(orders, o)
  <2>1. PICK serum, ftx : serum = serumBooks'[p][side] /\ ftx = ftxBooks'[p][SideFlip(side)]
    OBVIOUS
  <2>2. serum \in Seq(Level) /\ ftx \in Seq(Level) /\ serum # <<>> /\ ftx # <<>>
    <3>1. PICK serumBook, ftxBook \in Books \cup {NoBook} : serumBook = serumBooks'[p] /\ ftxBook = ftxBooks'[p]
      BY DEF BooksTypeOK
    <3>2. Sorted(side, serum, ftx)
      BY <2>1, <3>1, SidesAreSorted
    <3> QED BY <1>3, <2>1, <3>2 DEF Sorted, Worth
  <2>3. PICK order : order = TakeLiquidityOrder(p, side, Arbitrage(side, serum, ftx))
    OBVIOUS
  <2>4. order.pair = p /\ order.side = side /\ order.price \in Nat /\ order.quantity \in Nat
    BY <2>2, <2>3, OrderOfBooks
  <2>5. PICK amounts : amounts = Amounts(order) /\ Covered(amounts)
    BY <2>4, AmountsCover
  <2>6. PICK o : o = [pair |-> order.pair, side |-> order.side, price |-> order.price, quantity |-> order.quantity,
                      state |-> "posted", blockhash |-> 0, basket |-> NoBasket, amounts |-> amounts]
    OBVIOUS
  <2>7. orders' = Append(orders, o)
    BY <1>3, <2>1, <2>3, <2>5, <2>6 DEF TakeSide, SendOrder
  <2>8. SignedAndCovered(o)
    BY <2>4, <2>5, <2>6 DEF SignedAndCovered, Orders, OrderStates, Covered
  <2> QED BY <2>7, <2>8
<1> QED BY <1>1, <1>2, <1>3 DEF DoBookUpdate, Sides

LEMMA OrdersStepKeeps ==
  ASSUME OrdersIInv, OrdersStep, BooksTypeOK, BooksTypeOK', BlockhashTypeOK
  PROVE  OrdersIInv'
<1>1. /\ inMarginBasket \in Baskets \cup {NoBasket} /\ orders \in Seq(Orders)
      /\ \A i \in 1 .. Len(orders) : SignedAndCovered(orders[i])
      /\ Len(orders) \in Nat /\ DOMAIN orders = 1 .. Len(orders)
  BY LenProperties DEF OrdersIInv
<1>2. CASE UNCHANGED orders /\ (UNCHANGED inMarginBasket \/ inMarginBasket' \in Baskets)
  BY <1>1, <1>2 DEF OrdersIInv
<1>3. ASSUME UNCHANGED inMarginBasket, NEW o, SignedAndCovered(o), orders' = Append(orders, o)
      PROVE  OrdersIInv'
  <2>1. o \in Orders
    BY <1>3 DEF SignedAndCovered
  <2>2. /\ orders' \in Seq(Orders) /\ Len(orders') = Len(orders) + 1
        /\ \A i \in 1 .. (Len(orders) + 1) : orders'[i] = IF i = Len(orders) + 1 THEN o ELSE orders[i]
    BY <1>1, <1>3, <2>1
  <2>3. \A i \in 1 .. (Len(orders) + 1) : i = Len(orders) + 1 \/ i \in 1 .. Len(orders)
    BY <1>1
  <2>4. \A i \in 1 .. (Len(orders) + 1) : SignedAndCovered(orders'[i])
    BY <1>1, <1>3, <2>2, <2>3
  <2> QED BY <1>1, <1>3, <2>2, <2>4 DEF OrdersIInv
<1>4. ASSUME UNCHANGED inMarginBasket, NEW i \in 1 .. Len(orders), NEW o, SignedAndCovered(o),
             orders' = [orders EXCEPT ![i] = o]
      PROVE  OrdersIInv'
  <2>1. o \in Orders
    BY <1>4 DEF SignedAndCovered
  <2>2. /\ orders' \in Seq(Orders) /\ Len(orders') = Len(orders)
        /\ \A j \in 1 .. Len(orders) : orders'[j] = IF j = i THEN o ELSE orders[j]
    BY <1>1, <1>4, <2>1
  <2>3. \A j \in 1 .. Len(orders) : SignedAndCovered(orders'[j])
    BY <1>1, <1>4, <2>2
  <2> QED BY <1>1, <1>4, <2>2, <2>3 DEF OrdersIInv
<1>5. ASSUME UNCHANGED inMarginBasket, NEW p \in DOMAIN Pairs, NEW book \in Books, Decides(p, book)
      PROVE  OrdersIInv'
  BY <1>2, <1>3, <1>5, SentOrder
<1>6. ASSUME NEW i \in 1 .. Len(orders), NEW o, o = orders[i]
      PROVE  /\ o \in Orders /\ Covered(o.amounts)
             /\ \A state \in OrderStates \ {"posted"}, blockhash \in Nat, basket \in Baskets :
                   SignedAndCovered([o EXCEPT !.state = state, !.blockhash = blockhash, !.basket = basket])
             /\ \A state \in OrderStates \ {"posted"} :
                   o.state # "posted" => SignedAndCovered([o EXCEPT !.state = state])
  <2>1. SignedAndCovered(o)
    BY <1>1, <1>6
  <2>2. o \in Orders /\ Covered(o.amounts) /\ (o.state # "posted" => o.basket \in Baskets)
    BY <2>1 DEF SignedAndCovered
  <2>3. ASSUME NEW state \in OrderStates \ {"posted"}, NEW blockhash \in Nat, NEW basket \in Baskets
        PROVE  SignedAndCovered([o EXCEPT !.state = state, !.blockhash = blockhash, !.basket = basket])
    BY <2>2 DEF SignedAndCovered, Orders
  <2>4. ASSUME NEW state \in OrderStates \ {"posted"}, o.state # "posted"
        PROVE  SignedAndCovered([o EXCEPT !.state = state])
    BY <2>2, <2>4 DEF SignedAndCovered, Orders
  <2> QED BY <2>2, <2>3, <2>4
<1>7. ASSUME NEW i \in 1 .. Len(orders), SignOrder(i)
      PROVE  \E o : SignedAndCovered(o) /\ orders' = [orders EXCEPT ![i] = o]
  <2>1. inMarginBasket \in Baskets
    BY <1>1, <1>7 DEF SignOrder, ReferenceDataLoaded
  <2>2. clientBlockhash \in Nat
    BY DEF BlockhashTypeOK
  <2>3. "sending" \in OrderStates \ {"posted"}
    BY DEF OrderStates
  <2>4. PICK o : o = [orders[i] EXCEPT !.state = "sending", !.blockhash = clientBlockhash, !.basket = inMarginBasket]
    OBVIOUS
  <2>5. SignedAndCovered(o)
    BY <1>6, <2>1, <2>2, <2>3, <2>4
  <2>6. orders' = [orders EXCEPT ![i] = o]
    BY <1>1, <1>7, <2>4 DEF SignOrder
  <2> QED BY <2>5, <2>6
<1>8. ASSUME NEW i \in 1 .. Len(orders), OrderGoesOnOrFails(i)
      PROVE  \E o : SignedAndCovered(o) /\ orders' = [orders EXCEPT ![i] = o]
  <2>1. PICK state \in {"signature", "CLOSED", "failed"} : orders' = [orders EXCEPT ![i].state = state]
    BY <1>8 DEF OrderGoesOnOrFails, OrderGoesOn, OrderFails
  <2>2. PICK o : o = [orders[i] EXCEPT !.state = state]
    OBVIOUS
  <2>3. SignedAndCovered(o)
    BY <1>6, <1>8, <2>2 DEF OrderStates, OrderGoesOnOrFails
  <2>4. orders' = [orders EXCEPT ![i] = o]
    BY <1>1, <2>1, <2>2
  <2> QED BY <2>3, <2>4
<1>9. ASSUME NEW i \in DOMAIN orders, SignOrder(i) \/ OrderGoesOnOrFails(i), UNCHANGED inMarginBasket
      PROVE  OrdersIInv'
  BY <1>1, <1>4, <1>7, <1>8, <1>9
<1> QED BY <1>2, <1>5, <1>9 DEF OrdersStep

LEMMA OrdersInit == ClientInit => OrdersIInv
BY EmptySeq DEF ClientInit, OrderInit, OrdersIInv

THEOREM OrdersInvariance == ClientSpec => []OrdersIInv
<1>1. OrdersIInv /\ [ClientNext]_allVars /\ DecisionIInv /\ DecisionIInv' /\ BlockhashIInv => OrdersIInv'
  BY OrdersStepOfClient, OrdersStepKeeps DEF DecisionIInv, BlockhashIInv
<1> QED BY OrdersInit, <1>1, DecisionInvariance, BlockhashInvariance, PTL DEF ClientSpec

\* A signed order is one that a validator reads as documented.
LEMMA OrderReadsAsDocumented ==
  ASSUME NEW o, SignedAndCovered(o), o.state # "posted",
         NEW t, t = PlaceSpotOrder(o.pair, o.blockhash, o.basket), NEW others, others = AccountsOf(t, 1)
  PROVE  /\ ReadsAs(t, 1, WithoutRent(DocumentedPlace(o.pair)))
         /\ {others[n] : n \in 24 .. Len(others)}
               = {Account("openOrders", m) : m \in o.basket \ {Pairs[o.pair].market}}
         /\ ReadsAs(CancelSpotOrder(o.pair, o.blockhash), 1, DocumentedCancel(o.pair))
         /\ o.amounts.maxQuoteQuantity >= o.amounts.price * o.amounts.quantity
         /\ Cardinality(o.basket \cup {Pairs[o.pair].market}) =< 9 => TransactionSize(t) =< MaxTransactionSize
<1>1. o.pair \in DOMAIN Pairs /\ o.basket \in Baskets /\ o.blockhash \in Nat /\ Covered(o.amounts)
  BY DEF SignedAndCovered, Orders
<1>2. PICK pair \in DOMAIN Pairs, basket \in Baskets, blockhash \in Nat :
         pair = o.pair /\ basket = o.basket /\ blockhash = o.blockhash
  BY <1>1
<1>3. t = PlaceSpotOrder(pair, blockhash, basket)
  BY <1>2
<1>4. ReadsAs(t, 1, WithoutRent(DocumentedPlace(pair)))
  BY <1>3, PlaceReadsAs
<1>5. BasketBehind(others, pair, basket)
  BY <1>3, OthersBehind
<1>6. ReadsAs(CancelSpotOrder(pair, blockhash), 1, DocumentedCancel(pair))
  BY <1>3, CancelReadsAs
<1>7. ASSUME Cardinality(basket \cup {Pairs[pair].market}) =< 9
      PROVE  TransactionSize(t) =< MaxTransactionSize
  <2>1. PICK listed : listed = OtherOpenOrders(pair, basket)
    OBVIOUS
  <2>2. /\ listed \in Seq(OrderAccounts) /\ LaidOut(t, pair, listed) /\ Instructs(t, listed) /\ Len(t.signatures) = 1
        /\ Len(listed) = Cardinality(basket \ {Pairs[pair].market})
    BY <1>3, <2>1, PlaceLaidOut, OthersListed
  <2>3. PICK market : market = Pairs[pair].market
    OBVIOUS
  <2>4. IsFiniteSet(basket \ {market})
    <3>1. NumMarkets \in Nat /\ basket \in SUBSET (0 .. NumMarkets - 1)
      BY GroupAssumption
    <3>2. IsFiniteSet(0 .. NumMarkets - 1)
      <4>1. 0 \in Int /\ NumMarkets - 1 \in Int
        BY <3>1
      <4> QED BY <4>1, FS_Interval
    <3> QED BY <3>1, <3>2, FS_Subset
  <2>5. (basket \ {market}) \cup {market} = basket \cup {market} /\ market \notin basket \ {market}
    OBVIOUS
  <2>6. Cardinality(basket \cup {market}) = Cardinality(basket \ {market}) + 1
    BY <2>4, <2>5, FS_AddElement
  <2>7. Cardinality(basket \ {market}) \in Nat
    BY <2>4, FS_CardinalityType
  <2>8. Len(listed) =< 8
    BY <1>7, <2>2, <2>3, <2>6, <2>7
  <2> QED BY <2>2, <2>8, OrderFits
<1> QED BY <1>1, <1>2, <1>4, <1>5, <1>6, <1>7 DEF Covered, BasketBehind

\* OrdersAsDocumented (do_send_order and do_cancel_order of MangoOrderClient): for any group,
\* order of the configuration, pair, margin baskets that change before the order is signed,
\* and prices; only the banks of tokens out of place are not those documented.
THEOREM OrdersAsDocumentedHolds == ClientSpec => []OrdersAsDocumented
<1>1. ASSUME OrdersIInv
      PROVE  OrdersAsDocumented
  <2>1. \A i \in DOMAIN orders : SignedAndCovered(orders[i])
    BY <1>1, LenProperties DEF OrdersIInv
  <2> QED BY <2>1, OrderReadsAsDocumented DEF OrdersAsDocumented
<1> QED BY <1>1, OrdersInvariance, PTL

-----------------------------------------------------------------------------
\* Only a write has a batch, and only a spawned writer writes.
StatsIInv ==
    /\ writeBuffer \in Seq(Nat) /\ request \in Seq(Nat) /\ wire \in Seq(Nat) /\ published \in Nat
    /\ writer # "writing" => request = <<>>
    /\ ~isWriting => writer = "none"

\* A step loses nothing but what came into the buffer during the write it ends.
LosesAtWriteEnd ==
    \A m \in Kept \ Kept' :
        /\ writer = "writing" /\ writer' = "none"
        /\ m \in ToSet(writeBuffer)

LEMMA JoinedSet ==
  ASSUME NEW s \in Seq(Nat), NEW t \in Seq(Nat)
  PROVE  s \o t \in Seq(Nat) /\ ToSet(s \o t) = ToSet(s) \cup ToSet(t)
<1>1. /\ s \o t \in Seq(Nat) /\ DOMAIN s = 1 .. Len(s) /\ DOMAIN t = 1 .. Len(t)
      /\ DOMAIN (s \o t) = 1 .. Len(s) + Len(t) /\ Len(s) \in Nat /\ Len(t) \in Nat
      /\ \A i \in 1 .. Len(s) : (s \o t)[i] = s[i]
      /\ \A i \in 1 .. Len(t) : (s \o t)[Len(s) + i] = t[i]
  OBVIOUS
<1>2. ASSUME NEW i \in DOMAIN (s \o t)
      PROVE  (s \o t)[i] \in ToSet(s) \cup ToSet(t)
  <2>1. CASE i =< Len(s)
    BY <1>1, <2>1 DEF ToSet
  <2>2. CASE i > Len(s)
    <3>1. i - Len(s) \in 1 .. Len(t) /\ i = Len(s) + (i - Len(s))
      BY <1>1, <2>2
    <3>2. (s \o t)[i] = t[i - Len(s)]
      BY <1>1, <3>1
    <3> QED BY <1>1, <3>1, <3>2 DEF ToSet
  <2> QED BY <1>1, <2>1, <2>2
<1>3. ASSUME NEW i \in DOMAIN s
      PROVE  s[i] \in ToSet(s \o t)
  <2>1. i \in DOMAIN (s \o t) /\ (s \o t)[i] = s[i]
    BY <1>1
  <2> QED BY <2>1 DEF ToSet
<1>4. ASSUME NEW i \in DOMAIN t
      PROVE  t[i] \in ToSet(s \o t)
  <2>1. Len(s) + i \in DOMAIN (s \o t) /\ (s \o t)[Len(s) + i] = t[i]
    BY <1>1
  <2> QED BY <2>1 DEF ToSet
<1> QED BY <1>1, <1>2, <1>3, <1>4 DEF ToSet

LEMMA NoneInEmpty == ToSet(<<>>) = {} /\ <<>> \in Seq(Nat)
BY DEF ToSet

\* The loop of do_write keeps a buffer, or hands it over whole.
LEMMA LoopKeeps ==
  ASSUME NEW buffer \in Seq(Nat), Loop(buffer), request = <<>>, writeBuffer = <<>> \/ buffer # <<>>
  PROVE  /\ writeBuffer' \in Seq(Nat) /\ request' \in Seq(Nat)
         /\ writer' # "writing" => request' = <<>>
         /\ ~isWriting' => writer' = "none"
         /\ ToSet(writeBuffer') \cup ToSet(request') = ToSet(buffer)
<1>1. CASE buffer = <<>>
  BY <1>1, NoneInEmpty DEF Loop
<1>2. CASE buffer # <<>> /\ IsConnecting
  BY <1>2, NoneInEmpty DEF Loop
<1>3. CASE buffer # <<>> /\ ~IsConnecting
  <2>1. writeBuffer' = <<>> /\ request' = buffer /\ writer' = "writing" /\ isWriting' = TRUE
    BY <1>3 DEF Loop, StartWrite
  <2> QED BY <2>1, NoneInEmpty
<1> QED BY <1>1, <1>2, <1>3

\* What a call appends goes into the buffer, or with it into a write.
LEMMA PublishKeeps ==
  ASSUME StatsIInv, NEW n \in 1 .. 2, NEW invalid \in BOOLEAN, PublishGroup(n, invalid)
  PROVE  StatsIInv' /\ LosesAtWriteEnd
<1>1. PICK group : group = [i \in 1 .. n |-> published + i]
  OBVIOUS
<1>2. group \in Seq(Nat) /\ writeBuffer \in Seq(Nat) /\ published' \in Nat /\ UNCHANGED <<wire, dropped>>
  BY <1>1 DEF StatsIInv, PublishGroup
<1>3. /\ writeBuffer \o group \in Seq(Nat)
      /\ ToSet(writeBuffer \o group) = ToSet(writeBuffer) \cup ToSet(group)
  BY <1>2, JoinedSet
<1>4. CASE UNCHANGED <<request, isWriting, writer>> /\ writeBuffer' = writeBuffer \o group
  BY <1>2, <1>3, <1>4 DEF StatsIInv, LosesAtWriteEnd, Kept
<1>5. CASE ~isWriting /\ Loop(writeBuffer \o group)
  <2>1. request = <<>>
    BY <1>5 DEF StatsIInv
  <2>2. writeBuffer \o group # <<>>
    <3>1. Len(writeBuffer \o group) = Len(writeBuffer) + n
      BY <1>1, <1>2
    <3> QED BY <1>2, <3>1
  <2>3. /\ writeBuffer' \in Seq(Nat) /\ request' \in Seq(Nat)
        /\ writer' # "writing" => request' = <<>>
        /\ ~isWriting' => writer' = "none"
        /\ ToSet(writeBuffer') \cup ToSet(request') = ToSet(writeBuffer \o group)
    BY <1>3, <1>5, <2>1, <2>2, LoopKeeps
  <2> QED BY <1>2, <1>3, <2>1, <2>3, NoneInEmpty DEF StatsIInv, LosesAtWriteEnd, Kept
<1> QED BY <1>1, <1>4, <1>5 DEF PublishGroup

\* A writer that is woken hands the whole buffer over.
LEMMA WokenHandsOver == ASSUME StatsIInv, WriterWoken PROVE StatsIInv' /\ LosesAtWriteEnd
<1>1. /\ request = <<>> /\ request' = writeBuffer /\ writeBuffer' = <<>> /\ writer' = "writing"
      /\ isWriting /\ UNCHANGED <<isWriting, published, wire, dropped>>
  BY DEF StatsIInv, WriterWoken, StartWrite, history
<1> QED BY <1>1, NoneInEmpty DEF StatsIInv, LosesAtWriteEnd, Kept

\* A write that ends erases the buffer; its batch is on the wire or known to be dropped.
LEMMA WriteEndErases ==
  ASSUME StatsIInv, WriteSucceeds \/ WriteFails
  PROVE  StatsIInv' /\ LosesAtWriteEnd
<1>1. /\ writer = "writing" /\ writer' = "none" /\ request' = <<>> /\ writeBuffer' = <<>>
      /\ isWriting' = FALSE /\ UNCHANGED published
      /\ \/ wire' = wire \o request /\ UNCHANGED dropped
         \/ dropped' = dropped \cup ToSet(request) /\ UNCHANGED wire
  BY DEF WriteSucceeds, WriteFails
<1>2. wire \o request \in Seq(Nat) /\ ToSet(wire \o request) = ToSet(wire) \cup ToSet(request)
  BY JoinedSet DEF StatsIInv
<1>3. StatsIInv'
  BY <1>1, <1>2, NoneInEmpty DEF StatsIInv
<1>4. \A m \in Kept \ Kept' : m \in ToSet(writeBuffer)
  BY <1>1, <1>2 DEF Kept
<1> QED BY <1>1, <1>3, <1>4 DEF LosesAtWriteEnd

\* The connection touches no measurement.
LEMMA ConnectionKeeps ==
  ASSUME StatsIInv, UNCHANGED <<writeBuffer, request, isWriting, published, wire, dropped>>,
         UNCHANGED writer \/ (writer = "waiting" /\ writer' = "woken")
  PROVE  StatsIInv' /\ LosesAtWriteEnd
BY DEF StatsIInv, LosesAtWriteEnd, Kept

LEMMA StatsStepKeeps ==
  ASSUME StatsIInv, [StatsNext]_(statsVars)
  PROVE  StatsIInv' /\ LosesAtWriteEnd
<1>1. CASE UNCHANGED statsVars
  BY <1>1, ConnectionKeeps DEF statsVars, buffers, history
<1>2. CASE Resolved \/ ConnectFails \/ ReadFails
  BY <1>2, ConnectionKeeps DEF Resolved, ConnectFails, ReadFails, buffers, history
<1>3. CASE Connected \/ ServerCloses \/ TimerExpires
  <2>1. UNCHANGED writer \/ (writer = "waiting" /\ writer' = "woken")
    BY <1>3 DEF Connected, ServerCloses, TimerExpires
  <2>2. UNCHANGED <<writeBuffer, request, isWriting, published, wire, dropped>>
    BY <1>3 DEF Connected, ServerCloses, TimerExpires, history
  <2> QED BY <2>1, <2>2, ConnectionKeeps
<1> QED
  BY <1>1, <1>2, <1>3, PublishKeeps, WokenHandsOver, WriteEndErases DEF StatsNext

\* LostOnlyAtWriteEnd (do_write of Statistics/StatisticsPublisher): for any number of
\* measurements, however calls, writes and the connection interleave.
THEOREM StatsLostOnlyAtWriteEnd == StatsSpec => LostOnlyAtWriteEnd
<1>1. StatsInit => StatsIInv
  BY DEF StatsInit, StatsIInv
<1>2. StatsIInv /\ [StatsNext]_(statsVars) => StatsIInv'
  BY StatsStepKeeps
<1>3. StatsIInv /\ [StatsNext]_(statsVars) => [LosesAtWriteEnd]_(statsVars)
  BY StatsStepKeeps
<1> QED BY <1>1, <1>2, <1>3, PTL DEF StatsSpec, LostOnlyAtWriteEnd, LosesAtWriteEnd
-----------------------------------------------------------------------------
\* The program the orders of the strategies are meant for: its accounts and their links.
ProgramIInv == TypeOK /\ LinkedOnce

\* The steps leave every link where it is and every type that is given.
LinksStay ==
    \A a \in Accounts : data[a].type # "blank" =>
       /\ data'[a].type = data[a].type
       /\ \A i \in DOMAIN data[a].links :
             i \in DOMAIN data'[a].links /\ data'[a].links[i] = data[a].links[i]

-----------------------------------------------------------------------------
LEMMA ProgramSizes ==
    /\ TableSize \in Nat /\ ProductSize \in Nat /\ DepositAccountSize \in Nat
    /\ MaxProducts \in Nat /\ MaxDepositAccounts \in Nat
    /\ \A n \in Int : n % SizeModulus \in 0 .. SizeModulus - 1
<1>1. /\ MaxProducts \in Nat /\ MaxDepositAccounts \in Nat
      /\ \A n \in Int : n % SizeModulus \in 0 .. SizeModulus - 1
    BY MaximaAssumption, SizeModulusAssumption
<1> QED BY <1>1 DEF TableSize, ProductSize, DepositAccountSize, TableHeader, ProductHeader,
           PubKeySize

LEMMA SizesAfterLink ==
    ASSUME NEW n \in Nat
    PROVE  /\ TableSizeAfterLink(n) \in 0 .. SizeModulus - 1
           /\ ProductSizeAfterLink(n) \in 0 .. SizeModulus - 1
           /\ TableHeader % SizeModulus \in 0 .. SizeModulus - 1
           /\ ProductSize % SizeModulus \in 0 .. SizeModulus - 1
           /\ DepositAccountSize % SizeModulus \in 0 .. SizeModulus - 1
<1>1. /\ TableHeader + n * PubKeySize \in Int
      /\ DepositAccountSize - MaxDepositAccounts * PubKeySize + n * PubKeySize \in Int
      /\ TableHeader \in Int /\ ProductSize \in Int /\ DepositAccountSize \in Int
    BY ProgramSizes DEF TableHeader, PubKeySize, DepositAccountSize
<1> QED BY <1>1, ProgramSizes DEF TableSizeAfterLink, ProductSizeAfterLink

LEMMA AccountOf ==
    ASSUME NEW t \in {"blank", "table", "product", "deposit"},
           NEW n \in 0 .. SizeModulus - 1, NEW l \in Seq(Accounts)
    PROVE  [type |-> t, size |-> n, links |-> l] \in ProgramAccount
BY DEF ProgramAccount

LEMMA LinkTypes ==
    /\ LinkedType("table") = "product" /\ LinkedType("product") = "deposit"
    /\ LinkedType("blank") = "nothing" /\ LinkedType("deposit") = "nothing"
    /\ SizeOf("table") = TableSize /\ SizeOf("product") = ProductSize
    /\ SizeOf("deposit") = DepositAccountSize /\ SizeOf("blank") = 0
BY DEF LinkedType, SizeOf

\* A blank account lists nothing.
LEMMA BlankListsNothing ==
    ASSUME ProgramIInv, NEW a \in Accounts, data[a].type = "blank"
    PROVE  DOMAIN data[a].links = {}
<1>1. data[a] \in ProgramAccount /\ data[a].links \in Seq(Accounts)
    BY DEF ProgramIInv, TypeOK, ProgramAccount
<1> SUFFICES ASSUME NEW i \in DOMAIN data[a].links PROVE FALSE
    OBVIOUS
<1>2. data[a].links[i] \in Accounts
    BY <1>1
<1>3. data[data[a].links[i]].type = "nothing"
    BY LinkTypes DEF ProgramIInv, LinkedOnce
<1> QED BY <1>2, <1>3 DEF ProgramIInv, TypeOK, ProgramAccount

\* No account is listed at two places.
LEMMA ListedApart ==
    ASSUME LinkedOnce, NEW a \in Accounts, NEW b \in Accounts,
           NEW i \in DOMAIN data[a].links, NEW j \in DOMAIN data[b].links,
           data[a].links[i] = data[b].links[j]
    PROVE  a = b /\ i = j
BY DEF LinkedOnce

\* Nothing blank is listed.
LEMMA ListedNotBlank ==
    ASSUME ProgramIInv, NEW a \in Accounts, NEW i \in DOMAIN data[a].links
    PROVE  data[a].links[i] \in Accounts /\ data[data[a].links[i]].type # "blank"
<1>1. data[a].links \in Seq(Accounts) /\ data[a].type \in {"blank", "table", "product", "deposit"}
    BY DEF ProgramIInv, TypeOK, ProgramAccount
<1>2. data[a].links[i] \in Accounts
    BY <1>1
<1>3. data[data[a].links[i]].type = LinkedType(data[a].type)
    BY DEF ProgramIInv, LinkedOnce
<1> QED BY <1>1, <1>2, <1>3, LinkTypes

LEMMA InitProgramIInv == Init => ProgramIInv
<1> SUFFICES ASSUME Init PROVE ProgramIInv
    OBVIOUS
<1>1. Blank \in ProgramAccount /\ Blank.type = "blank" /\ Len(Blank.links) = 0 /\ DOMAIN Blank.links = {}
    BY SizeModulusAssumption DEF Blank, ProgramAccount
<1>2. TypeOK
    BY <1>1, MaximaAssumption DEF Init, TypeOK, MaxLinks
<1>3. LinkedOnce
    BY <1>1 DEF Init, LinkedOnce
<1> QED BY <1>2, <1>3 DEF ProgramIInv

LEMMA InitSynthfiStep ==
    ASSUME ProgramIInv, NEW signed, NEW t \in Accounts, InitSynthfi(signed, t)
    PROVE  ProgramIInv' /\ LinksStay
<1>1. /\ data[t].type = "blank" /\ dataLen[t] >= TableSize /\ UNCHANGED dataLen
      /\ data'[t] = [type |-> "table", size |-> TableHeader % SizeModulus, links |-> <<>>]
      /\ \A a \in Accounts \ {t} : data'[a] = data[a]
      /\ data' \in [Accounts -> ProgramAccount]
    BY SizesAfterLink DEF InitSynthfi, ValidSignable, ProgramIInv, TypeOK, ProgramAccount
<1>2. DOMAIN data[t].links = {} /\ DOMAIN data'[t].links = {}
    BY <1>1, BlankListsNothing
<1>3. \A a \in Accounts : \A i \in DOMAIN data[a].links :
         data[a].links[i] \in Accounts \ {t}
    BY <1>1, ListedNotBlank
<1>4. TypeOK'
  <2>1. Len(data'[t].links) =< MaxLinks(data'[t].type)
      BY <1>1, ProgramSizes DEF MaxLinks
  <2> QED BY <1>1, <2>1, LinkTypes DEF ProgramIInv, TypeOK
<1>5. LinkedOnce'
    BY <1>1, <1>2, <1>3 DEF ProgramIInv, LinkedOnce
<1>6. LinksStay
    BY <1>1 DEF LinksStay
<1> QED BY <1>4, <1>5, <1>6 DEF ProgramIInv

\* Linking a blank account as a child of a table or of a product.
LEMMA LinkStep ==
    ASSUME ProgramIInv, NEW parent \in Accounts, NEW child \in Accounts, NEW pt, NEW ct,
           \/ pt = "table" /\ ct = "product"
           \/ pt = "product" /\ ct = "deposit",
           data[parent].type = pt, data[child].type = "blank",
           Len(data[parent].links) < MaxLinks(pt),
           dataLen[child] >= SizeOf(ct), UNCHANGED dataLen,
           NEW cs \in 0 .. SizeModulus - 1, NEW ps \in 0 .. SizeModulus - 1,
           data' = [data EXCEPT
              ![child] = [type |-> ct, size |-> cs, links |-> <<>>],
              ![parent].links = Append(@, child),
              ![parent].size = ps]
    PROVE  ProgramIInv' /\ LinksStay
<1> DEFINE old == data[parent].links
<1>1. /\ parent # child
      /\ data[parent] \in ProgramAccount /\ old \in Seq(Accounts)
      /\ ct \in {"product", "deposit"} /\ LinkedType(pt) = ct
      /\ LinkedType(ct) \in {"deposit", "nothing"}
    BY LinkTypes DEF ProgramIInv, TypeOK, ProgramAccount
<1>2. /\ data'[child] = [type |-> ct, size |-> cs, links |-> <<>>]
      /\ data'[parent] = [type |-> pt, size |-> ps, links |-> Append(old, child)]
      /\ \A a \in Accounts \ {parent, child} : data'[a] = data[a]
      /\ DOMAIN data' = Accounts /\ data' = [a \in Accounts |-> data'[a]]
    BY <1>1 DEF ProgramIInv, TypeOK, ProgramAccount
<1>3. /\ DOMAIN Append(old, child) = 1 .. Len(old) + 1
      /\ DOMAIN old = 1 .. Len(old) /\ Len(old) \in Nat
      /\ Append(old, child) \in Seq(Accounts) /\ Len(Append(old, child)) = Len(old) + 1
      /\ Append(old, child)[Len(old) + 1] = child
      /\ \A i \in 1 .. Len(old) : Append(old, child)[i] = old[i]
    BY <1>1
<1>4. DOMAIN data[child].links = {} /\ DOMAIN data'[child].links = {}
    BY <1>2, BlankListsNothing
<1>5. \A a \in Accounts : \A i \in DOMAIN data[a].links :
         data[a].links[i] \in Accounts \ {child}
    BY ListedNotBlank
<1>6. ASSUME NEW a \in Accounts, NEW i \in DOMAIN data[a].links
      PROVE  /\ a # child /\ i \in DOMAIN data'[a].links
             /\ data'[a].links[i] = data[a].links[i]
  <2>1. a # child
      BY <1>4
  <2>2. CASE a = parent
      BY <1>2, <1>3, <2>2
  <2>3. CASE a # parent
      BY <1>2, <2>1, <2>3
  <2> QED BY <2>1, <2>2, <2>3
<1>7. ASSUME NEW a \in Accounts, NEW i \in DOMAIN data'[a].links,
              ~(a = parent /\ i = Len(old) + 1)
       PROVE  i \in DOMAIN data[a].links
  <2>1. a # child
      BY <1>4
  <2>2. CASE a = parent
      BY <1>2, <1>3, <1>7, <2>2
  <2>3. CASE a # parent
      BY <1>2, <2>1, <2>3
  <2> QED BY <2>2, <2>3
<1>8. Len(old) + 1 \in DOMAIN data'[parent].links /\ data'[parent].links[Len(old) + 1] = child
    BY <1>2, <1>3
<1>9. TypeOK'
  <2>1. data'[child] \in ProgramAccount /\ data'[parent] \in ProgramAccount
    <3>1. pt \in {"blank", "table", "product", "deposit"} /\ <<>> \in Seq(Accounts)
        BY <1>1
    <3> HIDE DEF old
    <3>2. data'[child] \in ProgramAccount
        BY <1>1, <1>2, <3>1, AccountOf
    <3>3. data'[parent] \in ProgramAccount
      <4> DEFINE added == Append(old, child)
      <4>1. added \in Seq(Accounts) /\ data'[parent] = [type |-> pt, size |-> ps, links |-> added]
          BY <1>2, <1>3
      <4> HIDE DEF added
      <4> QED BY <3>1, <4>1, AccountOf
    <3> QED BY <3>2, <3>3
  <2>2. data' \in [Accounts -> ProgramAccount]
      BY <1>2, <2>1 DEF ProgramIInv, TypeOK
  <2>3. /\ Len(data'[child].links) =< MaxLinks(data'[child].type)
        /\ Len(data'[parent].links) =< MaxLinks(data'[parent].type)
      BY <1>2, <1>3, ProgramSizes DEF MaxLinks
  <2>4. \A a \in Accounts : data'[a].type # "blank" => dataLen[a] >= SizeOf(data'[a].type)
      BY <1>1, <1>2 DEF ProgramIInv, TypeOK
  <2> QED BY <1>2, <2>2, <2>3, <2>4 DEF ProgramIInv, TypeOK
<1>10. LinkedOnce'
  <2>1. ASSUME NEW a \in Accounts, NEW i \in DOMAIN data'[a].links
        PROVE  /\ data'[a].links[i] \in Accounts
               /\ data'[data'[a].links[i]].type = LinkedType(data'[a].type)
               /\ \/ a = parent /\ i = Len(old) + 1 /\ data'[a].links[i] = child
                  \/ i \in DOMAIN data[a].links /\ data'[a].links[i] = data[a].links[i]
    <3>1. CASE a = parent /\ i = Len(old) + 1
        BY <1>1, <1>2, <1>8, <3>1
    <3>2. CASE ~(a = parent /\ i = Len(old) + 1)
      <4>1. i \in DOMAIN data[a].links /\ data'[a].links[i] = data[a].links[i]
          BY <1>6, <1>7, <3>2
      <4>2. data[a].links[i] \in Accounts \ {child}
          BY <1>5, <4>1
      <4>3. data[data[a].links[i]].type = LinkedType(data[a].type)
          BY <4>1 DEF ProgramIInv, LinkedOnce
      <4>4. /\ data'[data[a].links[i]].type = data[data[a].links[i]].type
            /\ data'[a].type = data[a].type
          BY <1>2, <1>4, <4>1, <4>2
      <4> QED BY <4>1, <4>2, <4>3, <4>4
    <3> QED BY <3>1, <3>2
  <2>2. ASSUME NEW a \in Accounts, NEW b \in Accounts,
               NEW i \in DOMAIN data'[a].links, NEW j \in DOMAIN data'[b].links,
               data'[a].links[i] = data'[b].links[j]
        PROVE  a = b /\ i = j
    <3>1. CASE i \in DOMAIN data[a].links /\ j \in DOMAIN data[b].links
      <4>1. data[a].links[i] = data[b].links[j]
          BY <1>6, <2>2, <3>1, Zenon
      <4> QED BY <3>1, <4>1, ListedApart DEF ProgramIInv
    <3>2. CASE i \notin DOMAIN data[a].links /\ j \notin DOMAIN data[b].links
      <4>1. a = parent /\ i = Len(old) + 1
          BY <1>7, <3>2, Zenon
      <4>2. b = parent /\ j = Len(old) + 1
          BY <1>7, <3>2, Zenon
      <4> QED BY <4>1, <4>2
    <3>3. CASE i \notin DOMAIN data[a].links /\ j \in DOMAIN data[b].links
      <4>1. data'[a].links[i] = child
        <5>1. a = parent /\ i = Len(old) + 1
            BY <1>7, <3>3, Zenon
        <5> QED BY <1>8, <5>1
      <4>2. data'[b].links[j] = data[b].links[j]
          BY <1>6, <3>3, Zenon
      <4>3. data[b].links[j] # child
          BY <1>5, <3>3, Zenon
      <4> QED BY <2>2, <4>1, <4>2, <4>3, Zenon
    <3>4. CASE i \in DOMAIN data[a].links /\ j \notin DOMAIN data[b].links
      <4>1. data'[b].links[j] = child
        <5>1. b = parent /\ j = Len(old) + 1
            BY <1>7, <3>4, Zenon
        <5> QED BY <1>8, <5>1
      <4>2. data'[a].links[i] = data[a].links[i]
          BY <1>6, <3>4, Zenon
      <4>3. data[a].links[i] # child
          BY <1>5, <3>4, Zenon
      <4> QED BY <2>2, <4>1, <4>2, <4>3, Zenon
    <3> QED BY <3>1, <3>2, <3>3, <3>4
  <2>3. ASSUME NEW b \in Accounts, data'[b].type \in {"product", "deposit"}
        PROVE  \E a \in Accounts : \E i \in DOMAIN data'[a].links : data'[a].links[i] = b
    <3>1. CASE b = child
        BY <1>8, <3>1
    <3>2. CASE b # child
      <4>1. data[b].type \in {"product", "deposit"}
          BY <1>2, <2>3, <3>2
      <4>2. PICK a \in Accounts : \E i \in DOMAIN data[a].links : data[a].links[i] = b
          BY <4>1 DEF ProgramIInv, LinkedOnce
      <4>3. PICK i \in DOMAIN data[a].links : data[a].links[i] = b
          BY <4>2
      <4>4. i \in DOMAIN data'[a].links /\ data'[a].links[i] = b
          BY <1>6, <4>3
      <4> QED BY <4>4
    <3> QED BY <3>1, <3>2
  <2>4. \A a \in Accounts : \A i \in DOMAIN data'[a].links :
           data'[data'[a].links[i]].type = LinkedType(data'[a].type)
      BY <2>1
  <2>5. \A a, b \in Accounts : \A i \in DOMAIN data'[a].links, j \in DOMAIN data'[b].links :
           data'[a].links[i] = data'[b].links[j] => a = b /\ i = j
      BY <2>2
  <2> QED BY <2>3, <2>4, <2>5 DEF LinkedOnce
<1>11. LinksStay
  <2>1. \A a \in Accounts \ {child} : data'[a].type = data[a].type
    <3>1. data'[parent].type = data[parent].type
        BY <1>2
    <3> QED BY <1>2, <3>1, Zenon
  <2> QED BY <2>1, <1>6 DEF LinksStay
<1> QED BY <1>9, <1>10, <1>11 DEF ProgramIInv

LEMMA NextProgramIInv == ProgramIInv /\ [Next]_programVars => ProgramIInv' /\ (LinksStay \/ UNCHANGED programVars)
<1> SUFFICES ASSUME ProgramIInv, [Next]_programVars PROVE ProgramIInv' /\ (LinksStay \/ UNCHANGED programVars)
    OBVIOUS
<1>1. CASE UNCHANGED programVars
    BY <1>1 DEF programVars, ProgramIInv, TypeOK, LinkedOnce
<1>2. ASSUME NEW a \in Accounts, NEW len \in {0, DepositAccountSize, TableSize, ProductSize},
             CreateAccount(a, len)
      PROVE  ProgramIInv' /\ LinksStay
  <2>1. len \in Nat
      BY ProgramSizes
  <2>2. /\ dataLen[a] = NotOwned /\ dataLen' = [dataLen EXCEPT ![a] = len] /\ UNCHANGED data
      BY <1>2 DEF CreateAccount
  <2>3. data[a].type = "blank"
    <3> SUFFICES ASSUME data[a].type # "blank" PROVE FALSE
        OBVIOUS
    <3>1. data[a].type \in {"table", "product", "deposit"}
        BY DEF ProgramIInv, TypeOK, ProgramAccount
    <3>2. SizeOf(data[a].type) \in Nat
        BY <3>1, LinkTypes, ProgramSizes
    <3>3. dataLen[a] >= SizeOf(data[a].type)
        BY DEF ProgramIInv, TypeOK
    <3> QED BY <2>2, <3>2, <3>3 DEF NotOwned
  <2>4. TypeOK'
      BY <2>1, <2>2, <2>3 DEF ProgramIInv, TypeOK
  <2> QED BY <2>2, <2>4 DEF ProgramIInv, LinkedOnce, LinksStay
<1>3. ASSUME NEW signed, NEW a \in Accounts, InitSynthfi(signed, a)
      PROVE  ProgramIInv' /\ LinksStay
    BY <1>3, InitSynthfiStep
<1>4. ASSUME NEW signed, NEW a \in Accounts, NEW b \in Accounts, InitProduct(signed, a, b)
      PROVE  ProgramIInv' /\ LinksStay
  <2>1. Len(data[a].links) + 1 \in Nat
      BY DEF ProgramIInv, TypeOK, ProgramAccount
  <2>2. /\ TableSizeAfterLink(Len(data[a].links) + 1) \in 0 .. SizeModulus - 1
        /\ ProductSize % SizeModulus \in 0 .. SizeModulus - 1
      BY <2>1, SizesAfterLink
  <2> QED BY <1>4, <2>2, LinkTypes, LinkStep DEF InitProduct, ValidSignable, MaxLinks
<1>5. ASSUME NEW signed, NEW a \in Accounts, NEW b \in Accounts, InitDepositAccount(signed, a, b)
      PROVE  ProgramIInv' /\ LinksStay
  <2>1. Len(data[a].links) + 1 \in Nat
      BY DEF ProgramIInv, TypeOK, ProgramAccount
  <2>2. /\ ProductSizeAfterLink(Len(data[a].links) + 1) \in 0 .. SizeModulus - 1
        /\ DepositAccountSize % SizeModulus \in 0 .. SizeModulus - 1
      BY <2>1, SizesAfterLink
  <2> QED BY <1>5, <2>2, LinkTypes, LinkStep DEF InitDepositAccount, ValidSignable, MaxLinks
<1> QED BY <1>1, <1>2, <1>3, <1>4, <1>5 DEF Next

\* The inductive invariant holds for any accounts and maxima.
THEOREM ProgramInvariance == Spec => []ProgramIInv
BY InitProgramIInv, NextProgramIInv, PTL DEF Spec

\* The type invariant: no list outgrows its array, no structure its account.
THEOREM ProgramTypeCorrect == Spec => []TypeOK
BY ProgramInvariance, PTL DEF ProgramIInv

\* Products and deposit accounts are listed, once, by an account of the right type.
THEOREM ListedOnce == Spec => []LinkedOnce
BY ProgramInvariance, PTL DEF ProgramIInv

\* The type of an account and its links are never changed once made.
THEOREM Permanent == Spec => LinksKept
<1>1. ProgramIInv /\ [Next]_programVars => [LinksStay]_programVars
    BY NextProgramIInv
<1> QED BY <1>1, ProgramInvariance, PTL DEF Spec, LinksKept, LinksStay
=============================================================================
