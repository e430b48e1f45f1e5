----------------------------- MODULE BlockStore -----------------------------
(***************************************************************************)
(* The chain of one node on disk: NewBlockChain and CommitBlock            *)
(* (blockchain.go), CommitStates (stateManager.go) and the bolt buckets    *)
(* they write (storage.go), with crashes of the process at any point.      *)
(*                                                                         *)
(* CommitBlock takes no lock and handleCommit may run it in two goroutines *)
(* of a node at once (module Pbft, ExecutedOnce), so                       *)
(* there are several writers.  AddBlock is three bolt transactions, each   *)
(* durable and atomic by itself.                                           *)
(*                                                                         *)
(* A block is its hash and the state root CommitBlock gives it: the hash   *)
(* is computed before the root and never again.  The trie is abstracted to *)
(* its root; which root a commit produces is left open.                    *)
(***************************************************************************)
EXTENDS Naturals

CONSTANTS
    Writer,        \* goroutines that run CommitBlock
    Main,          \* the goroutine that runs NewBlockChain
    Hash,          \* block hashes
    Root,          \* state roots
    EmptyRoot,     \* the root of the empty trie
    Nil,           \* a key that a bucket does not hold
    TxVerifyTime,  \* config.TxVerifyTime: execution is only simulated
    MaxCrash       \* bound on the number of crashes

\* A block, as far as the store tells blocks apart.
Block == [hash : Hash, root : Root]

ASSUME StoreAssumption == /\ Main \notin Writer
                          /\ EmptyRoot \in Root
                          /\ Nil \notin Hash \cup Root \cup Block
                          /\ TxVerifyTime \in BOOLEAN
                          /\ MaxCrash \in Nat

VARIABLES
    blockBucket,        \* Hash -> state root of the stored block, or Nil
    blockHeaderBucket,  \* Hash -> state root of the stored header, or Nil
    newestBlockHash,    \* the one key of newestBlockHashBucket, or Nil
    stateDb,            \* roots whose trie is in leveldb
    boot,               \* "down", "genesis" (being created) or "up"
    CurrentBlock,       \* bc.CurrentBlock, or Nil
    pc,                 \* goroutine -> the last step it has taken
    task,               \* goroutine -> the block it is adding, or Nil
    crashes

disk == <<blockBucket, blockHeaderBucket, newestBlockHash, stateDb>>
vars == <<disk, boot, CurrentBlock, pc, task, crashes>>

Process == Writer \cup {Main}

Init ==
    /\ blockBucket = [h \in Hash |-> Nil]
    /\ blockHeaderBucket = [h \in Hash |-> Nil]
    /\ newestBlockHash = Nil
    /\ stateDb = {EmptyRoot}
    /\ boot = "down"
    /\ CurrentBlock = Nil
    /\ pc = [p \in Process |-> "idle"]
    /\ task = [p \in Process |-> Nil]
    /\ crashes = 0

-----------------------------------------------------------------------------
(* NewBlockChain.                                                          *)

\* No newest hash on disk: NewGenisisBlock, whose timestamp makes every
\* genesis block a new one.
NewGenisisBlock(h) ==
    /\ boot = "down"
    /\ newestBlockHash = Nil
    /\ boot' = "genesis"
    /\ task' = [task EXCEPT ![Main] = [hash |-> h, root |-> EmptyRoot]]
    /\ pc' = [pc EXCEPT ![Main] = "current"]
    /\ UNCHANGED <<disk, CurrentBlock, crashes>>

\* The rest of AddGenesisBlock: what was stored is read back.
GenesisRead ==
    /\ boot = "genesis"
    /\ pc[Main] = "stored"
    /\ CurrentBlock' = [hash |-> newestBlockHash,
                        root |-> blockBucket[newestBlockHash]]
    /\ boot' = "up"
    /\ task' = [task EXCEPT ![Main] = Nil]
    /\ pc' = [pc EXCEPT ![Main] = "idle"]
    /\ UNCHANGED <<disk, crashes>>

\* A chain on disk: NewBlockChain panics, and the node stays down, when the
\* newest block is missing or the trie of its state root is.
LoadChain ==
    /\ boot = "down"
    /\ newestBlockHash # Nil
    /\ blockBucket[newestBlockHash] # Nil
    /\ blockBucket[newestBlockHash] \in stateDb
    /\ CurrentBlock' = [hash |-> newestBlockHash,
                        root |-> blockBucket[newestBlockHash]]
    /\ boot' = "up"
    /\ UNCHANGED <<disk, pc, task, crashes>>

-----------------------------------------------------------------------------
(* CommitBlock, by writer w.                                               *)

\* Mutant of triedbCommit: the trie stays in the cache of the database.
triedbCommitCached(roots, root) == roots
\* triedb.Commit writes the trie of a root to leveldb.
triedbCommit(roots, root) == roots \cup {root}

\* CommitStates: the root of the current block, or a new one.
CommitStates(w, h) ==
    /\ boot = "up"
    /\ pc[w] = "idle"
    /\ CurrentBlock.root \in stateDb
    /\ \E root \in IF TxVerifyTime THEN {CurrentBlock.root} ELSE Root :
          /\ task' = [task EXCEPT ![w] = [hash |-> h, root |-> root]]
          /\ stateDb' = IF TxVerifyTime THEN stateDb
                        ELSE triedbCommit(stateDb, root)
    /\ pc' = [pc EXCEPT ![w] = "states"]
    /\ UNCHANGED <<blockBucket, blockHeaderBucket, newestBlockHash, boot,
                   CurrentBlock, crashes>>

SetCurrentBlock(w) ==
    /\ pc[w] = "states"
    /\ CurrentBlock' = task[w]
    /\ pc' = [pc EXCEPT ![w] = "current"]
    /\ UNCHANGED <<disk, boot, task, crashes>>

-----------------------------------------------------------------------------
(* Storage.AddBlock, by a writer or by AddGenesisBlock.                    *)

AddBlock(p) ==
    /\ pc[p] = "current"
    /\ blockBucket' = [blockBucket EXCEPT ![task[p].hash] = task[p].root]
    /\ pc' = [pc EXCEPT ![p] = "block"]
    /\ UNCHANGED <<blockHeaderBucket, newestBlockHash, stateDb, boot,
                   CurrentBlock, task, crashes>>

AddBlockHeader(p) ==
    /\ pc[p] = "block"
    /\ blockHeaderBucket' =
          [blockHeaderBucket EXCEPT ![task[p].hash] = task[p].root]
    /\ pc' = [pc EXCEPT ![p] = "header"]
    /\ UNCHANGED <<blockBucket, newestBlockHash, stateDb, boot, CurrentBlock,
                   task, crashes>>

\* A writer returns from CommitBlock; Main goes on in AddGenesisBlock.
UpdateNewestBlockHash(p) ==
    /\ pc[p] = "header"
    /\ newestBlockHash' = task[p].hash
    /\ pc' = [pc EXCEPT ![p] = IF p = Main THEN "stored" ELSE "idle"]
    /\ task' = [task EXCEPT ![p] = IF p = Main THEN @ ELSE Nil]
    /\ UNCHANGED <<blockBucket, blockHeaderBucket, stateDb, boot, CurrentBlock,
                   crashes>>

-----------------------------------------------------------------------------
\* The process dies; only the buckets and leveldb survive.
Crash ==
    /\ boot # "down"
    /\ crashes < MaxCrash
    /\ boot' = "down"
    /\ CurrentBlock' = Nil
    /\ pc' = [p \in Process |-> "idle"]
    /\ task' = [p \in Process |-> Nil]
    /\ crashes' = crashes + 1
    /\ UNCHANGED disk

StorageStep(p) == AddBlock(p) \/ AddBlockHeader(p) \/ UpdateNewestBlockHash(p)

BootStep ==
    \/ \E h \in Hash : NewGenisisBlock(h)
    \/ GenesisRead
    \/ LoadChain
    \/ StorageStep(Main)

Next ==
    \/ BootStep
    \/ \E w \in Writer : \/ \E h \in Hash : CommitStates(w, h)
                         \/ SetCurrentBlock(w)
                         \/ StorageStep(w)
    \/ Crash

Spec == Init /\ [][Next]_vars

\* main() runs NewBlockChain to its end unless the process dies.
FairSpec == Spec /\ WF_vars(BootStep)

-----------------------------------------------------------------------------
\* The buckets (storage.go) hold roots and hashes, CurrentBlock a block.
TypeOK ==
    /\ blockBucket \in [Hash -> Root \cup {Nil}]
    /\ blockHeaderBucket \in [Hash -> Root \cup {Nil}]
    /\ newestBlockHash \in Hash \cup {Nil}
    /\ stateDb \subseteq Root
    /\ boot \in {"down", "genesis", "up"}
    /\ CurrentBlock \in Block \cup {Nil}
    /\ pc \in [Process -> {"idle", "states", "current", "block", "header",
                           "stored"}]
    /\ task \in [Process -> Block \cup {Nil}]
    /\ crashes \in Nat

\* Whenever the process dies, NewBlockChain finds what it needs: the block
\* and the header of the newest hash and the trie of its state root, although
\* CommitBlock writes them in four separate transactions; and CommitStates
\* of a running node finds the trie of the current block.
Recoverable ==
    /\ newestBlockHash # Nil =>
          /\ blockBucket[newestBlockHash] \in stateDb
          /\ blockHeaderBucket[newestBlockHash] # Nil
    /\ boot = "up" => CurrentBlock # Nil /\ CurrentBlock.root \in stateDb

\* A goroutine in CommitBlock or AddGenesisBlock has a block whose trie is on
\* disk, and has stored what it has to store before its next step.
WriterIsCovered ==
    \A p \in Process :
        /\ pc[p] # "idle" => /\ boot # "down"
                             /\ task[p] # Nil /\ task[p].root \in stateDb
        /\ pc[p] \in {"block", "header", "stored"} =>
              blockBucket[task[p].hash] # Nil
        /\ pc[p] \in {"header", "stored"} => blockHeaderBucket[task[p].hash] # Nil
        /\ pc[p] = "stored" => newestBlockHash # Nil

\* The trie of a stored block is on disk, and the empty trie always is.
StoredRootsExist == /\ EmptyRoot \in stateDb
                    /\ \A h \in Hash : blockBucket[h] \in stateDb \cup {Nil}

\* The inductive invariant behind Recoverable: no bucket ever points to a
\* root or a block that is not on disk yet.
StoreInv ==
    /\ TypeOK
    /\ WriterIsCovered
    /\ StoredRootsExist
    /\ Recoverable

\* A node that starts comes up, if it does not die for ever: no crash leaves
\* a disk on which NewBlockChain panics.
BootCompletes == boot = "down" ~> boot = "up"
=============================================================================
