-------------------------- MODULE BlockStoreProofs --------------------------
(***************************************************************************)
(* Proofs about BlockStore, for every number of writers, blocks, roots and *)
(* crashes and with and without TxVerifyTime.                              *)
(***************************************************************************)
EXTENDS BlockStore, TLAPS

LEMMA BlockFields ==
    ASSUME NEW b \in Block
    PROVE  b.hash \in Hash /\ b.root \in Root
BY DEF Block

LEMMA StoreInit == Init => StoreInv
<1> SUFFICES ASSUME Init PROVE StoreInv
  OBVIOUS
<1>1. TypeOK
  BY StoreAssumption DEF Init, TypeOK
<1>2. WriterIsCovered /\ StoredRootsExist /\ Recoverable
  BY DEF Init, WriterIsCovered, StoredRootsExist, Recoverable
<1> QED
  BY <1>1, <1>2 DEF StoreInv

\* The block of a goroutine that is not idle.
LEMMA TaskFields ==
    ASSUME StoreInv, NEW p \in Process, pc[p] # "idle"
    PROVE  /\ boot # "down"
           /\ task[p] # Nil
           /\ task[p] \in Block
           /\ task[p].hash \in Hash
           /\ task[p].root \in stateDb
           /\ task[p].root \in Root
<1>1. task[p] # Nil /\ task[p].root \in stateDb /\ boot # "down"
  BY DEF StoreInv, WriterIsCovered
<1>2. task[p] \in Block
  BY <1>1 DEF StoreInv, TypeOK
<1> QED
  BY <1>1, <1>2, BlockFields

-----------------------------------------------------------------------------
(* NewBlockChain.                                                          *)

LEMMA GenesisKeeps ==
    ASSUME StoreInv, NEW h \in Hash, NewGenisisBlock(h)
    PROVE  StoreInv'
<1> DEFINE b == [hash |-> h, root |-> EmptyRoot]
<1>1. /\ boot = "down" /\ boot' = "genesis"
      /\ task' = [task EXCEPT ![Main] = b]
      /\ pc' = [pc EXCEPT ![Main] = "current"]
      /\ UNCHANGED <<disk, CurrentBlock, crashes>>
  BY DEF NewGenisisBlock
<1>2. b \in Block /\ b # Nil /\ b.root \in stateDb
  BY StoreAssumption DEF Block, StoreInv, StoredRootsExist
<1> HIDE DEF b
<1>3. /\ \A p \in Process : pc'[p] = IF p = Main THEN "current" ELSE pc[p]
      /\ \A p \in Process : task'[p] = IF p = Main THEN b ELSE task[p]
  BY <1>1 DEF StoreInv, TypeOK
<1>4. TypeOK'
  BY <1>1, <1>2 DEF StoreInv, TypeOK, disk
<1>5. WriterIsCovered'
  BY <1>1, <1>2, <1>3 DEF StoreInv, WriterIsCovered, disk
<1>6. StoredRootsExist' /\ Recoverable'
  BY <1>1 DEF StoreInv, StoredRootsExist, Recoverable, disk
<1> QED
  BY <1>4, <1>5, <1>6 DEF StoreInv

\* The newest block, once there is one, is complete.
LEMMA NewestBlock ==
    ASSUME StoreInv, newestBlockHash # Nil
    PROVE  LET b == [hash |-> newestBlockHash, root |-> blockBucket[newestBlockHash]]
           IN  b \in Block /\ b # Nil /\ b.root \in stateDb
<1>1. newestBlockHash \in Hash /\ blockBucket[newestBlockHash] \in stateDb
  BY DEF StoreInv, TypeOK, Recoverable
<1>2. blockBucket[newestBlockHash] \in Root
  BY <1>1 DEF StoreInv, TypeOK
<1> QED
  BY <1>1, <1>2, StoreAssumption DEF Block

LEMMA GenesisReadKeeps ==
    ASSUME StoreInv, GenesisRead
    PROVE  StoreInv'
<1> DEFINE b == [hash |-> newestBlockHash, root |-> blockBucket[newestBlockHash]]
<1>1. /\ pc[Main] = "stored" /\ boot' = "up" /\ CurrentBlock' = b
      /\ task' = [task EXCEPT ![Main] = Nil]
      /\ pc' = [pc EXCEPT ![Main] = "idle"]
      /\ UNCHANGED <<disk, crashes>>
  BY DEF GenesisRead
<1>2. newestBlockHash # Nil
  BY <1>1 DEF StoreInv, WriterIsCovered, Process
<1>3. b \in Block /\ b # Nil /\ b.root \in stateDb
  BY <1>2, NewestBlock
<1> HIDE DEF b
<1>4. /\ \A p \in Process : pc'[p] = IF p = Main THEN "idle" ELSE pc[p]
      /\ \A p \in Process : task'[p] = IF p = Main THEN Nil ELSE task[p]
  BY <1>1 DEF StoreInv, TypeOK
<1>5. TypeOK'
  BY <1>1, <1>3 DEF StoreInv, TypeOK, disk
<1>6. WriterIsCovered'
  BY <1>1, <1>4 DEF StoreInv, WriterIsCovered, disk
<1>7. StoredRootsExist' /\ Recoverable'
  BY <1>1, <1>3 DEF StoreInv, StoredRootsExist, Recoverable, disk
<1> QED
  BY <1>5, <1>6, <1>7 DEF StoreInv

LEMMA LoadChainKeeps ==
    ASSUME StoreInv, LoadChain
    PROVE  StoreInv'
<1> DEFINE b == [hash |-> newestBlockHash, root |-> blockBucket[newestBlockHash]]
<1>1. /\ boot' = "up" /\ CurrentBlock' = b
      /\ UNCHANGED <<disk, pc, task, crashes>>
  BY DEF LoadChain
<1>2. b \in Block /\ b # Nil /\ b.root \in stateDb
  BY NewestBlock DEF LoadChain
<1> HIDE DEF b
<1>3. TypeOK'
  BY <1>1, <1>2 DEF StoreInv, TypeOK, disk
<1>4. WriterIsCovered' /\ StoredRootsExist' /\ Recoverable'
  BY <1>1, <1>2 DEF StoreInv, WriterIsCovered, StoredRootsExist, Recoverable, disk
<1> QED
  BY <1>3, <1>4 DEF StoreInv

-----------------------------------------------------------------------------
(* CommitBlock.                                                            *)

LEMMA CommitStatesKeeps ==
    ASSUME StoreInv, NEW w \in Writer, NEW h \in Hash, CommitStates(w, h)
    PROVE  StoreInv'
<1>1. w \in Process
  BY DEF Process
<1>2. /\ boot = "up"
      /\ pc' = [pc EXCEPT ![w] = "states"]
      /\ UNCHANGED <<blockBucket, blockHeaderBucket, newestBlockHash, boot,
                     CurrentBlock, crashes>>
  BY DEF CommitStates
<1>3. CurrentBlock # Nil /\ CurrentBlock.root \in stateDb
  BY <1>2 DEF StoreInv, Recoverable
<1>4. stateDb \subseteq Root
  BY DEF StoreInv, TypeOK
<1>5. PICK root \in Root :
         /\ task' = [task EXCEPT ![w] = [hash |-> h, root |-> root]]
         /\ root \in stateDb'
         /\ stateDb \subseteq stateDb' /\ stateDb' \subseteq Root
  <2>1. CASE TxVerifyTime
    BY <1>3, <1>4, <2>1 DEF CommitStates
  <2>2. CASE ~TxVerifyTime
    BY <1>4, <2>2 DEF CommitStates, triedbCommit
  <2> QED
    BY <2>1, <2>2
<1> DEFINE b == [hash |-> h, root |-> root]
<1>6. b \in Block /\ b # Nil /\ b.root \in stateDb' /\ task' = [task EXCEPT ![w] = b]
  BY <1>5, StoreAssumption DEF Block
<1> HIDE DEF b
<1>7. /\ \A p \in Process : pc'[p] = IF p = w THEN "states" ELSE pc[p]
      /\ \A p \in Process : task'[p] = IF p = w THEN b ELSE task[p]
  BY <1>2, <1>6 DEF StoreInv, TypeOK
<1>8. TypeOK'
  BY <1>2, <1>5, <1>6 DEF StoreInv, TypeOK
<1>9. WriterIsCovered'
  BY <1>2, <1>5, <1>6, <1>7 DEF StoreInv, WriterIsCovered
<1>10. StoredRootsExist' /\ Recoverable'
  BY <1>2, <1>5 DEF StoreInv, StoredRootsExist, Recoverable
<1> QED
  BY <1>8, <1>9, <1>10 DEF StoreInv

LEMMA SetCurrentBlockKeeps ==
    ASSUME StoreInv, NEW w \in Writer, SetCurrentBlock(w)
    PROVE  StoreInv'
<1>1. w \in Process /\ pc[w] # "idle"
  BY DEF Process, SetCurrentBlock
<1>2. /\ CurrentBlock' = task[w]
      /\ pc[w] = "states" /\ pc' = [pc EXCEPT ![w] = "current"]
      /\ UNCHANGED <<disk, boot, task, crashes>>
  BY DEF SetCurrentBlock
<1>3. \A p \in Process : pc'[p] = IF p = w THEN "current" ELSE pc[p]
  BY <1>2 DEF StoreInv, TypeOK
<1>4. task[w] \in Block /\ task[w] # Nil /\ task[w].root \in stateDb
  BY <1>1, TaskFields
<1>5. TypeOK'
  BY <1>2, <1>4 DEF StoreInv, TypeOK, disk
<1>6. WriterIsCovered'
  BY <1>1, <1>2, <1>3 DEF StoreInv, WriterIsCovered, disk
<1>7. StoredRootsExist' /\ Recoverable'
  BY <1>2, <1>4 DEF StoreInv, StoredRootsExist, Recoverable, disk
<1> QED
  BY <1>5, <1>6, <1>7 DEF StoreInv

-----------------------------------------------------------------------------
(* The three transactions of AddBlock.                                     *)

LEMMA AddBlockKeeps ==
    ASSUME StoreInv, NEW p \in Process, AddBlock(p)
    PROVE  StoreInv'
<1>1. /\ pc[p] = "current" /\ pc' = [pc EXCEPT ![p] = "block"]
      /\ blockBucket' = [blockBucket EXCEPT ![task[p].hash] = task[p].root]
      /\ UNCHANGED <<blockHeaderBucket, newestBlockHash, stateDb, boot,
                     CurrentBlock, task, crashes>>
  BY DEF AddBlock
<1>2. /\ task[p].hash \in Hash /\ task[p].root \in stateDb
      /\ task[p].root \in Root /\ task[p].root # Nil
  BY <1>1, TaskFields, StoreAssumption
<1>3. /\ \A q \in Process : pc'[q] = IF q = p THEN "block" ELSE pc[q]
      /\ \A h \in Hash : blockBucket'[h] =
            IF h = task[p].hash THEN task[p].root ELSE blockBucket[h]
  BY <1>1, <1>2 DEF StoreInv, TypeOK
<1>4. TypeOK'
  BY <1>1, <1>2 DEF StoreInv, TypeOK
<1>5. WriterIsCovered'
  <2>1. \A q \in Process : pc[q] # "idle" => task[q].hash \in Hash
    BY TaskFields
  <2> QED
    BY <1>1, <1>2, <1>3, <2>1 DEF StoreInv, WriterIsCovered
<1>6. StoredRootsExist'
  BY <1>1, <1>2, <1>3 DEF StoreInv, StoredRootsExist
<1>7. Recoverable'
  BY <1>1, <1>2, <1>3 DEF StoreInv, TypeOK, Recoverable
<1> QED
  BY <1>4, <1>5, <1>6, <1>7 DEF StoreInv

LEMMA AddBlockHeaderKeeps ==
    ASSUME StoreInv, NEW p \in Process, AddBlockHeader(p)
    PROVE  StoreInv'
<1>1. /\ pc[p] = "block" /\ pc' = [pc EXCEPT ![p] = "header"]
      /\ blockHeaderBucket' =
            [blockHeaderBucket EXCEPT ![task[p].hash] = task[p].root]
      /\ UNCHANGED <<blockBucket, newestBlockHash, stateDb, boot, CurrentBlock,
                     task, crashes>>
  BY DEF AddBlockHeader
<1>2. /\ task[p].hash \in Hash /\ task[p].root \in Root /\ task[p].root # Nil
  BY <1>1, TaskFields, StoreAssumption
<1>3. /\ \A q \in Process : pc'[q] = IF q = p THEN "header" ELSE pc[q]
      /\ \A h \in Hash : blockHeaderBucket'[h] =
            IF h = task[p].hash THEN task[p].root ELSE blockHeaderBucket[h]
  BY <1>1, <1>2 DEF StoreInv, TypeOK
<1>4. TypeOK'
  BY <1>1, <1>2 DEF StoreInv, TypeOK
<1>5. WriterIsCovered'
  <2>1. \A q \in Process : pc[q] # "idle" => task[q].hash \in Hash
    BY TaskFields
  <2> QED
    BY <1>1, <1>2, <1>3, <2>1 DEF StoreInv, WriterIsCovered
<1>6. StoredRootsExist'
  BY <1>1 DEF StoreInv, StoredRootsExist
<1>7. Recoverable'
  BY <1>1, <1>2, <1>3 DEF StoreInv, TypeOK, Recoverable
<1> QED
  BY <1>4, <1>5, <1>6, <1>7 DEF StoreInv

LEMMA UpdateNewestBlockHashKeeps ==
    ASSUME StoreInv, NEW p \in Process, UpdateNewestBlockHash(p)
    PROVE  StoreInv'
<1> DEFINE st == IF p = Main THEN "stored" ELSE "idle"
           b == IF p = Main THEN task[p] ELSE Nil
<1>1. /\ pc[p] = "header" /\ pc' = [pc EXCEPT ![p] = st]
      /\ newestBlockHash' = task[p].hash
      /\ task' = [task EXCEPT ![p] = b]
      /\ UNCHANGED <<blockBucket, blockHeaderBucket, stateDb, boot,
                     CurrentBlock, crashes>>
  BY DEF UpdateNewestBlockHash
<1>2. task[p] \in Block /\ task[p] # Nil /\ task[p].hash \in Hash
  BY <1>1, TaskFields
<1>3. task[p].hash # Nil
  BY <1>2, StoreAssumption
<1>4. /\ blockBucket[task[p].hash] \in stateDb
      /\ blockHeaderBucket[task[p].hash] # Nil
  BY <1>1, <1>2 DEF StoreInv, WriterIsCovered, StoredRootsExist
<1>5. /\ \A q \in Process : pc'[q] = IF q = p THEN st ELSE pc[q]
      /\ \A q \in Process : task'[q] = IF q = p THEN b ELSE task[q]
  BY <1>1 DEF StoreInv, TypeOK
<1>6. TypeOK'
  BY <1>1, <1>2 DEF StoreInv, TypeOK
<1>7. WriterIsCovered'
  BY <1>1, <1>3, <1>5 DEF StoreInv, WriterIsCovered
<1>8. StoredRootsExist'
  BY <1>1 DEF StoreInv, StoredRootsExist
<1>9. Recoverable'
  BY <1>1, <1>4 DEF StoreInv, Recoverable
<1> QED
  BY <1>6, <1>7, <1>8, <1>9 DEF StoreInv

-----------------------------------------------------------------------------
LEMMA CrashKeeps ==
    ASSUME StoreInv, Crash
    PROVE  StoreInv'
<1>1. TypeOK'
  BY DEF StoreInv, TypeOK, Crash, disk
<1>2. WriterIsCovered' /\ StoredRootsExist' /\ Recoverable'
  BY DEF StoreInv, WriterIsCovered, StoredRootsExist, Recoverable, Crash, disk
<1> QED
  BY <1>1, <1>2 DEF StoreInv

LEMMA StoreNext == StoreInv /\ [Next]_vars => StoreInv'
<1> SUFFICES ASSUME StoreInv, [Next]_vars PROVE StoreInv'
  OBVIOUS
<1>1. ASSUME NEW p \in Process, StorageStep(p) PROVE StoreInv'
  BY <1>1, AddBlockKeeps, AddBlockHeaderKeeps, UpdateNewestBlockHashKeeps
     DEF StorageStep
<1>2. CASE BootStep
  BY <1>1, <1>2, GenesisKeeps, GenesisReadKeeps, LoadChainKeeps
     DEF BootStep, Process
<1>3. ASSUME NEW w \in Writer,
             \/ \E h \in Hash : CommitStates(w, h)
             \/ SetCurrentBlock(w)
             \/ StorageStep(w)
      PROVE  StoreInv'
  BY <1>1, <1>3, CommitStatesKeeps, SetCurrentBlockKeeps DEF Process
<1>4. CASE UNCHANGED vars
  BY <1>4 DEF vars, disk, StoreInv, TypeOK, WriterIsCovered, StoredRootsExist,
     Recoverable
<1> QED
  BY <1>2, <1>3, <1>4, CrashKeeps DEF Next

\* No bucket ever points to a block or a root that is not on disk yet,
\* whatever goroutines run CommitBlock and wherever the process dies.
THEOREM StoreInvariance == Spec => []StoreInv
BY StoreInit, StoreNext, PTL DEF Spec

\* The disk is always one on which NewBlockChain comes up, and the trie that
\* CommitStates opens always exists.
THEOREM AlwaysRecoverable == Spec => []Recoverable
<1>1. StoreInv => Recoverable
  BY DEF StoreInv
<1> QED
  BY <1>1, StoreInvariance, PTL
=============================================================================
