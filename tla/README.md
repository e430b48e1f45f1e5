# Verification of BlockChainSimulator

TLA+ models, TLC runs and TLAPS proofs about the code in `src/`. The models
follow the source: every definition that stands for code is listed in
`PROJECT.json` under `map` with the lines it models.

## 1. The system

A simulator starts one process per node. Nodes are grouped in shards; one
shard id is reserved for the client. A process (`main.go`, `node.go`) builds
the attributes of its node, a p2p module and a list of *running modules*
chosen by the configured protocol (`protocols.go`), registers their message
handlers and runs each module in a goroutine until the context is cancelled.

| Component | State it keeps | Operations | What makes it correct |
|---|---|---|---|
| PBFT consensus (`consensusMod/pbft`) | request queue, request pool (votes and flags per digest), round, `consensusDone` | `handlePropose`, `handlePrePrepare`, `handlePrepare`, `handleCommit`, `Run`; two addons, Simple and TBD | votes are counted once and never lost; commits and decisions are backed by votes; requests run one at a time and in order; a decision is reached |
| Block proposer (`proposeBlock.go`) | transaction pool | `TryProposeBlock`, `handleInject` | blocks extend the chain; no transaction is lost or proposed twice |
| Block chain and storage (`blockchain.go`, `storage.go`) | `CurrentBlock`, three bolt buckets, the state trie | `NewBlockChain`, `CommitBlock`, `AddBlock` | a crash leaves a disk from which the node starts; disk and memory agree |
| State manager (`stateManager.go`) | `DirtyState`, trie | `UpdateStates`, `CommitStates` | a block's state root is the effect of the chain up to it |
| Dolev-Strong (`consensusMod/ds`) | extracted set, start time, commit value | init, propose, forward, query handlers, two timers | agreement and validity after f + 1 ticks, from a lost message or a malicious node on |
| TBB, 1Δ-BB (`consensusMod/tbb`) | propose, vote, certificate and BADS sets, three commit points, timers | init, propose, forward, vote, query handlers | the commit points of all nodes agree, and the last one has a value |
| String proposer (`proposeString.go`) | string queue, `consensusDone` | inject, consensus-done, `Run` | one session at a time, every string gets one |
| Transaction proposer (`proposeTxs.go`) | transaction pool | inject, `Run` | as the block proposer |
| P2P (`node/p2p`) | handler map, connection pools | `Send`, `Broadcast`, `handleConnection` | what is sent to a process that listens arrives |
| Node life cycle (`main.go`, `node.go`, `startLocalSystem.go`, `stopSystem.go`) | contexts, wait groups, processes | start, listen, stop | a node runs until it is stopped, and then ends |
| Client (`clientMod`) | counters, query answers, latencies, result files | load generators, query, measure | the client shows what the session committed; the report matches the replies |
| Utilities | queue, set, atomic value, pool | locked operations | FIFO, no lost element |
| Coding, signatures, config, logging, stubs | none or pure | | see section 8 |

**Interaction.** Modules of a node call each other through
`p2pMod.MsgHandlerMap` and share `nodeAttr` (with the chain); nodes exchange
messages over TCP. `handleConnection` starts *one goroutine per message* and
`Broadcast` one per destination, so messages are unordered even between two
nodes, and handlers of one node interleave at every lock release.

**What is hard.** Handlers read a flag, release the lock and act on the flag
later; votes may come before the request they are about; the view node closes
a round while messages of it are under way; a wake-up is sent on an unbuffered
channel without blocking; the TBD addon uses one flag per node for all blocks
and polls it; a block is stored in four transactions and the process may die
between any two; commits of two blocks run at once without a lock. The string
protocols use timers where other protocols use messages: two timers may run out
together, a message may cross a tick or come late, the loops that should wait
for a round test the opposite, and nothing but Init separates two sessions.
1Δ-BB counts votes in maps without a lock and compares the count by `==`.
Batches of transactions overtake each other and are pooled while the proposer
cuts the pool; replies are recorded while the results are being written. The
interrupt may come while nodes are starting, and two senders share the pool of
connections through which the stop messages go.
`PROJECT.json` lists these hazards at their lines, with the properties that
cover them.

## 2. Plan

Order of work, most important behaviour first. (done) marks what is here.

1. `Pbft` with both addons and the block proposer, abstract specification
   `ShardConsensus`, proofs (done).
2. `BlockStore`: chain, storage, crash and restart, proofs (done).
3. `TxFlow`: load generators, `TxPool`, `handleInject`, both proposers, the
   replies and the measure module; theorem: no transaction is lost, doubled or
   overtaken in the pool (done).
4. `StringRounds` (clock, network, interactive client, `ProposeString`) and on
   it `DolevStrong`, composed with the querying client in `DsSystem` (done).
5. `OneDeltaBB` and `Tbb` on the same timing model, with their client (done).
6. `NodeLife`: start, readiness, connection pool, cancellation and the
   `WaitGroup` (done).
7. Theorems about the newer modules: types of `NodeLife`,
   `StaysUpUntilStopped`, `SessionsDoNotOverlap` (done).
8. For `Pbft` with one backup, `RoundsInOrder`, `CommitAfterStateUpdate` and
   `BlocksBuildOnChain`; for Dolev-Strong, `Agreement`, `Validity` and
   `ClientSeesSession`; the types of `TxFlow` and `ReportMatchesReplies` (done).
9. For `Tbb`, its types, and `CommitPointsAgree` and `ClientConfirmsString` in
   sessions that do not overlap (done).
10. For `Tbb`, `LastPointHasValue`, with the counting argument of Dolev-Strong (done).
11. The types of `DsSystem`; for both string deployments, that a session always
    has an end to come and a string one session at most; the abstract
    specification `StringBroadcast` of the Dolev-Strong deployment and its
    refinement; the first two sessions of TBB without an assumption about their
    ends (done).
12. That a round is not left before its request is decided, with one backup
    (`RoundsAwaitDecision`), and where it fails; the Dolev-Strong theorems about sets and client for any
    number of losses but those of an Init (done).

A model of account states was planned and dropped, for the reason in section 8.

## 3. Modules

| Module | What it is |
|---|---|
| `ShardConsensus` | abstract specification of the consensus of one shard |
| `Pbft` | the PBFT module of all nodes of a shard, the Run loop and the proposer of the view node |
| `MCPbft` | symmetry sets for TLC; the constants are in the `.cfg` files |
| `PbftProofs` | type correctness, the inductive invariant, certificates, no lost votes; `Pbft` implements `ShardConsensus` |
| `PbftRoundsProofs` | order of rounds, no round left before its request is decided, execution before commit and blocks on the chain, with one backup |
| `BlockStore`, `MCBlockStore`, `BlockStoreProofs` | chain on disk, crash and restart |
| `StringRounds`, `StringRoundsProofs` | what the string protocols share: clock, timers, network, interactive client, string proposer; lemmas about these, among them that a string is in one place |
| `StringBroadcast` | abstract specification of the Dolev-Strong deployment: a timed broadcast per string |
| `DolevStrong` | the Dolev-Strong module of the nodes |
| `DsSystem`, `MCDsSystem`, `DsSystemProofs` | the Dolev-Strong deployment with the querying client; scenarios; types, sessions neither overlap nor hang, Dolev-Strong agrees and is valid, the client is shown the session; `DsSystem` implements `StringBroadcast` |
| `OneDeltaBB` | the 1Δ-BB module of the nodes, with BADS |
| `Tbb`, `MCTbb`, `TbbProofs` | the TBB deployment: TBB drives both modules above; its client; scenarios; types, ends of sessions, agreement of the commit points, what the client confirms and a value at the last point |
| `TxFlow`, `MCTxFlow`, `TxFlowProofs` | a transaction from the generator to the report |
| `NodeLife`, `MCNodeLife`, `NodeLifeProofs` | start, connections and end of the processes |

### Pbft

*State.* `requestQueue`, `requestPool` (one `RequestInfo` per node and digest),
`currentRound`, `stateUpdateDone` are the fields of the Go structs.
`executed[n]` is the sequence of requests for which `HandleCommitAddon` did its
work on node n: with the TBD addon, its chain. `block` and `draft` hold what
`NewBlock` put, and is about to put, into headers. `runPc` is the place of the
Run loop.

*Handlers.* `PbftMessage` holds a request and a round but no sender, so the
handlers of one kind for one request on one node cannot be told apart.
`prepare[n][r]` and `commit[n][r]` therefore count handlers per stage; `"net"`
is a message that has not been read. `prePrepare[n][r]` is a stage, since there
is exactly one PrePrepare per node and request.

*Steps.* A handler is cut where it releases a lock that others take, or waits:

| Code | Actions |
|---|---|
| `TryProposeBlock`, `NewBlock`, `handlePropose` | `ProposeRead` (parent hash), `ProposeEnqueue` (height, pool entry, queue) |
| `Run` | `RunDispatch`, `RunWait`, `RunStop` |
| `handlePrePrepare` | `HandlePrePrepare`; with TBD `ExecPrePrepare` |
| `handlePrepare` | `HandlePrepare`, with TBD `PrepareWait`, `PrepareCount`, `PrepareBroadcast` |
| `handleCommit` | `HandleCommit`, `CommitCount`, `CommitReply`, with TBD `CommitAddon`, `CommitBlock`, `CommitStored`, then on the view node `CommitRound`, `CommitNotify` |

Four steps are merged, each for a reason given at its definition or here:
the round check of `handlePrePrepare` with the creation of the entry (creating
an entry commutes with every other step, because each of them creates a missing
entry itself); a broadcast with the local step before it (delivery is
asynchronous, so a message may stay in `"net"` as long as it likes); the read
of `isCommitBroadcast` with the round check when no wait lies between them; and
the count of a Commit handler that has read `isReply = TRUE` (its count decides
nothing).

*Abstractions.* Requests are model values, the digest is the identity. The
decoding errors of the handlers are not modelled (messages come from the same
program). Silent nodes (`Down`) never take a step; a lost message between live
nodes is one that stays in `"net"`, which safety runs allow and the liveness
runs exclude.

### BlockStore

`CommitBlock` is `CommitStates`, `SetCurrentBlock` and the three bolt
transactions `AddBlock`, `AddBlockHeader`, `UpdateNewestBlockHash`;
`NewBlockChain` is `LoadChain`, or `NewGenisisBlock`, the same three
transactions and `GenesisRead`. `Crash` may come between any two steps and
keeps only the buckets and leveldb. A trie is its root, and any root may result
from a commit. A write that bolt or leveldb has acknowledged survives; this is
a crash of the process, not of the machine.

### StringRounds

*Time* is counted in ticks of `config.TickInterval`; `StartTimeWait` has the
same default and is one tick. A timer is a record in `timers` with the tick at
which it runs out, a message has a deadline `due`, and `Tick` is enabled only
when nothing is due, ripe or able to run: everything that happens at a tick
happens, in any order, before the next. A hop takes less than a tick, so a
message of the kinds in `crossKind` sent during a tick may arrive in the next
one. `Synchronous` says that no hop so far took longer; agreement is claimed
only then, as the protocols do.

*Scenarios.* What may go wrong is a bound, chosen in `Init` from the constant
`Scenarios` and kept in `setup`: the strings typed, the malicious processes, the
number of lost and late messages and their kinds, the kinds whose messages may
cross a tick, the handlers that interleave, and whether the view may be
stopped. A handler that is not `racing` runs to its end, or to its waiting loop,
before anything else (`Urgent`), and messages of the kinds in `ordered` are
taken in the order of their receivers; timers that touch only their own node's
state fire node by node. These choices cut the interleavings, and different
scenarios of one run make different ones.

*Proposer.* `Run` is `RunPoll`, `RunInit` (dequeue, Init to everybody and the
own Init handler), `RunPropose` at the start time, `RunDone` at a token of
`consensusDone`, and `RunStop`. The tokens come from timers of the consensus
modules (`HandleConsensusDone`).

### DolevStrong and DsSystem

A handler of a value is cut between `Contains` and `Add` of `ExtrSet`, which are
two lock sections, and at its waiting loop. The loop leaves *while* the round is
below the number of signatures, and otherwise spins until an Init moves
`startTime`: `ForwardOrSpin`. A signature list is its length, because
`checkSigList` accepts every list and a wrong length is only logged. A
malicious node other than the view registers handlers that return at once; a
malicious view proposes "bad" to nodes 1 and 2. `DsSystem` adds the handlers
that involve several modules, and `queryMod` of the client.

`StringBroadcast` says what all this is for, without messages, sets or timers:
sessions N + 7 ticks apart (`Open`), decisions of honest nodes F + 1 ticks after
the start of the running session and at no other time (`Decide`), values shown
to the client (`Show`), and the clock. `Refines` maps the clock, the sessions,
what honest nodes commit and the client's results to it. The abstract promise is
conditional: `kept` is mapped to `Calmly`, which is `Synchronous` and
`Tolerated` (what the faults may be, section 6), and a step is bound to be one of
the broadcast only while `kept` holds after it. Once a hop is late or a loss too
many has occurred, nothing is promised, and `ds_stale_forward` shows why.

### OneDeltaBB and Tbb

`voteMap` and `BAproposeMap` are maps of sets that handlers and timers use
without a lock. A use looks the entry up, creates it if it saw none, adds and
counts: three steps here (`BbHandleVote` or `BbInputBA`, `BbTally`,
`BbCountVote` or `BbCountBA`), so a vote may vanish and a count may jump over
the threshold. The fatal error with which the Go runtime may answer two
concurrent writes of a map ends the process and is left out. `BABlckSet` is a
locked set whose `Contains` and `Add` are one step. A QC message changes nothing
at its receivers and is not sent in the model. TBB calls the Init and Propose
handlers of both modules, reads their sets at its reference and commit points
and is told of an early commit through `trigger`. The client asks twice, and
once more when the first answer is empty (`ClientReply`).

### TxFlow

Transactions are numbered. `GenTick` distributes those of one tick over the
shards, `HandleInject` pools, `TakeTxs` and `Propose` are the two halves of a
turn of the proposer, and `GetEnoughTxs` and `GetBatchofTxs` say how many are
taken. `PbftDispatch`, `PbftApply` and `PbftApplyAgain` are what neighbours see
of `Pbft`: it may stop for good, and it may apply a request twice (section 5).
The measure module makes its addons one by one, updates them reply by reply
under one lock per addon and writes them after the interrupt. The protocol is
part of the scenario; "ProposeTxs" stands for the proposer of that name, which
no predefined protocol uses.

### NodeLife

The client starts the nodes, waits for them, sends load and, after an
interrupt, one `MsgStop` per node. `Send` is cut at its two `pool.Get` and its
write; the generator and the stop module use the same pools. A node's modules
return at once unless it is a view node; `NodeExit` needs the cancelled context
and the modules' end. Time is not counted, so the readiness wait may give up
whenever the node it looks at does not listen. `NodeUp` merges the creation of a
node with `StartListen`; the branch in which the port is taken (p2p.go:37, log
and go on) is left out, and no property speaks of a node that cannot listen.

## 4. Runs that pass

| Run | Instance | Shows |
|---|---|---|
| `pbft_votes` | 4 nodes, 1 silent, 1 request, Simple, fair | certificates, the inductive invariant, refinement of `ShardConsensus`, no vote lost, the view node decides the first request it dispatches |
| `pbft_tbd` | 2 nodes, 3 blocks, TBD, may stop | the inductive invariant, order, no round left before its block is decided, execution before commit, blocks built on the chain |
| `store_crash` | 2 writers, 3 hashes, 2 roots, 2 crashes, fair | the disk is always recoverable, the node comes up |
| `ds_session` | 3 nodes, F = 1, 2 strings, fair | agreement and validity, the client sees the session's value, sessions do not overlap and always have an end to come, a string gets one session at most, every queued string gets one, refinement of `StringBroadcast` |
| `tbb_session` | 3 nodes, F = 1, T1 = 1, 1 or 2 strings | the commit points agree, the last one has a value, the client confirms the string, sessions always have an end to come |
| `txflow` | 1 or 2 shards, 2 transactions per tick, requests of 2 or 3, fair | order and conservation in the pool, draining, the report matches the replies and is written |
| `node_life` | 3 nodes, 1 view, 2 ticks, 1 node may fail, fair | nodes run until stopped, those that listen at the interrupt end, the client ends |

*Bounds.* Four nodes with one silent one are the smallest shard with f = 1; one
request suffices for the properties of `pbft_votes` about the votes of a
request, since requests share only the round, and none of these depends on what
another request does to it. The decision of a request does depend on it: with
one request `ViewDecides` is about the first only, and from the second on it may
fail with more than one backup (section 5). Two nodes and three requests reach
the interleavings between rounds: the last Commit of one request against the
dispatch of the next. Two crashes allow a crash during the recovery from a
crash; a third hash allows a genesis block that a crash left behind. Three nodes
are the fewest in which a node can hear of a value from a third one only, and F
= 1 gives two forwarding rounds; two strings give a second session on what the
first one left. The scenarios of `ds_session` are a malicious view, a silent
node, and one lost Propose or Forward or late Init, each with all handlers
interleaving, every message crossing ticks and the view stopping anywhere. Those
of `tbb_session` (`MCTbb`) are racing tallies, a malicious view, a lost Propose,
a late vote at a silent node, and two sessions. A late vote ends `Synchronous`,
so that scenario says something about the types and the end of sessions only.
`LastTyped` bounds when strings are typed; 12 lets the second one come in any
part of the first session. In `txflow` the thresholds 2 and 3 stand for 100 and
500: pools below, at and between them occur. In `node_life` the last node may
fail, and the generator is in the middle of a `Send` when the stop module
starts.

*Deadlock* checking is off where a finite set of requests runs out or a panic of
`NewBlockChain` would end the node, where the view may be stopped
(`ds_session`), and where the run ends with all processes (`txflow`,
`node_life`). In `tbb_session`, as in the program, the proposer polls for ever.

*Symmetry* (live backups and requests) is used only in `pbft_tbd` and
`pbft_executed_once`, which check invariants.

*Fairness.* `FairSpec` of `Pbft` is weak fairness of all steps of goroutines
together: the Go scheduler runs some runnable goroutine. A handler only moves
forward and there are finitely many, so no handler is starved. It includes that
a message between live nodes arrives. Proposing and cancelling are not fair:
they come from outside. `FairSpec` of `BlockStore` says that `NewBlockChain`
goes on unless the process dies, which happens at most `MaxCrash` times.
`DsSystem` has weak fairness of `Progress`: timers run out, messages arrive and
handlers go on; typing and stopping are left to the user. `TxFlow` is fair to
the proposer's loop and the measure module's loop only, nothing being assumed of
the network or of PBFT. `NodeLife` is fair to every goroutine, but not to the
interrupt, a failing node or the ticks.

Each property has a mutant of the code in `PROJECT.json` that breaks it: a
broadcast that includes the sender, a pool entry created without looking, a
threshold that is off by one, a trie that is never written to disk, a set that
Init does not empty, a timer that is too short, a slice that grows without its
contents, a wait without a timeout.

## 5. Runs that refute a statement of the repository

| Run | Statement | What happens |
|---|---|---|
| `pbft_executed_once` | structs.go:19, `isReply` | two handlers read the flag before one sets it |
| `pbft_run_resumes` | handler_pbft.go:39, `consensusDone` | the notification is dropped before Run waits |
| `pbft_chains_agree` | addon_tbd.go:65, synchronized in the same PBFT round | two nodes commit in different orders |
| `ds_stale_forward` | handler_ds.go:52, the extracted set is initially empty; :122, wait until round 1 | the handler of a late Propose spins until the next Init and forwards the old value into the new session |
| `tbb_overlap` | proposeString.go:127, wait for the consensus to be done | both modules of the view signal the end; the second token ends the next session at once |

`RoundsInOrder`, `RoundEndsWithDecision` and `CommitAfterStateUpdate` are stated
for the instances in which the code keeps them, with one backup.
`SessionsDoNotOverlap` holds of Dolev-Strong alone and is refuted for TBB.

Reading and modelling the code turned up more, for which no run is kept:

- The view node ends a round on 2f Commits, and drops what is still under way,
  its own Commit included (handler_pbft.go:250); a backup may stay short of
  votes although no more than f nodes are silent (handler_pbft.go:33).
- With two backups the second Commit handler that has read `isReply` FALSE
  (handler_pbft.go:232) raises the round again (:250), possibly after Run has
  dispatched the next request. The view node then drops the messages of that
  request as outdated (:113, :159, :224), so it may never decide it: TLC refutes
  `RoundEndsWithDecision` with three nodes, two requests and the Simple addon.
  Hence `ViewDecides` is about the first request only.
- `stateUpdateDone` is one flag for all blocks. A backup that has committed one
  block clears the flag (addon_tbd.go:85) after the next block was executed and
  has set it; the Prepare handler of that block waits for ever, although line 62
  says "Wait until the state update is done", and so does the view node. Two
  nodes and two blocks are enough for this.
- A block whose parent or height is stale when it is executed is only logged
  (addon_tbd.go:47).
- A node whose port is taken logs it and goes on without listening
  (p2p.go:37-41).
- Two goroutines in `CommitBlock` may leave an older hash as the newest one
  (blockchain.go:126, storage.go:105).
- handler_pbft.go:187 says that the view node will not send a Prepare (Run
  starts its own `handlePrePrepare`, which broadcasts one), and
  handler_pbft.go:208 that a Commit stands for usually 2/3 of the Prepares (a
  backup of four commits on 2f - 1 = 1 of them).
- A client that is interrupted while it still starts nodes loses the stop
  message of those that do not listen yet; they stay, although README.md:39 says
  that Ctrl+C will "automatically shutdown the network".
- `TxInjectCount` is never enforced, and `BlockSize` is not used by
  `TryProposeBlock` (100 to 500 transactions).
- ClassicPBFT names no addon and ends with a panic.
- AvgTPS is NaN until the first second with a transaction
  (measureAddon_TPS.go:82), and a repeated reply is counted twice.

## 6. What is proved

For every shard (any finite set of nodes, any silent nodes, any set of requests,
both addons, stopping or not):

- `TypeCorrect`, `Invariance`, `PrepareCertified`, `DecisionCertified`,
  `NoVoteLost` and `Implements` (`Spec => Refines`) in `PbftProofs`.

For every such shard with one backup, and any number of requests:

- `RoundsAreInOrder`, `RoundsAwaitDecision` (`RoundEndsWithDecision`),
  `CommitsFollowExecution` and `BlocksAreBuiltOnChain` in `PbftRoundsProofs`.

For every number of writers, hashes, roots and crashes:

- `StoreInvariance` and `AlwaysRecoverable` in `BlockStoreProofs`.

For every set of shards, injection speed, thresholds, batch size and scenario:

- `FlowTyped`, `FlowKeepsOrder` (`Spec => []PoolKeepsOrder`),
  `RequestsAreApart` (no transaction is in two requests of a shard) and
  `ReportIsRight` (`Spec => []ReportMatchesReplies`) in `TxFlowProofs`.

For every number of nodes and of malicious ones, any strings and any scenario:

- `DsTyped` (`Spec => []TypeOK`), `SessionsApart` (`SessionsDoNotOverlap`),
  `SessionsAreEnded` (`EndIsTimed`), `CommandsProposedOnce` (`ProposedOnce`) and
  `Implements` (`Spec => Refines`) for the Dolev-Strong deployment; as long as no
  hop takes a tick or more and no Init is lost, `ClientIsShownSession` and
  `SetsStartEmpty`; and, as long as the faults are also `Tolerated`,
  `HonestNodesAgree` and `HonestViewPrevails`, in `DsSystemProofs`;
- `TbbTyped` (`TypeOK`), `SessionsAreEnded`, `CommandsProposedOnce` and, for two
  sessions, `FirstSessionsApart` and `FirstSessionsAgree` for the TBB deployment
  and, as long as the execution is `Undisturbed`, `PointsAgree` and
  `ClientIsRight`, and as long as it is `Tolerated`, `LastPointSupplied`
  (`LastPointHasValue`) in `TbbProofs`.

For every number of nodes, any views and any nodes that fail to start:

- `LifeTyped` and `StaysUp` (`Spec => []StaysUpUntilStopped`) in
  `NodeLifeProofs`.

*Assumptions*: the named `ASSUME`s of `Pbft` (finitely many nodes, the view node
is one of them and is not silent, `Genesis` and `Nil` are no requests), of
`BlockStore` (`Nil` is no hash, root or block; the empty trie has a root) and of
`TxFlow` (positive speed, batch size and minimum, the minimum not above the
maximum), `StringRounds` (at least one node, fewer faulty ones than nodes, the strings
typed, "0", "bad" and the empty one all different), `Tbb` (the ratio for point 2
is at most 1) and `NodeLife` (at least one node).

*Argument for the certificates.* A node commits on a *number* of Prepares;
nothing in a message says who sent it. `IndInv` therefore relates numbers to
sets. `VotesAreBacked`: Prepares in flight to a node, being handled there and
already counted together are at most the other nodes that have accepted; a
node joins this set in the very step that sends its Prepare to everybody.
`CommitterHasVotes`: a handler about to broadcast, and a node that has, counted
enough. To keep these through the creation of pool entries one needs
`MissingEntryIsEmpty` (an absent entry hides no vote) and, for the
unconditional `NewRequestInfo` of `handlePropose`, `UndispatchedIsUntouched`
and `QueueIsFresh` (nobody has heard of a request that is still queued).
`CommitHasSender` carries a commit back to its sender for decisions. The same
invariant maps every step to a step of `ShardConsensus` or to a stutter.

*Argument for the store.* Nothing points to what is not on disk yet: a
goroutine in `CommitBlock` has its trie on disk (`WriterIsCovered`), a stored
block has its trie on disk (`StoredRootsExist`), and the newest hash is written
only when block and header are. It holds for any number of concurrent writers,
since no key is ever deleted.

*Argument for the flow.* `FlowInv` is `PoolKeepsOrder` with the types it needs:
the four places a transaction passes are sequences of numbers. `HandleInject`
appends what it decodes to both sides; `TakeTxs` cuts the pool in two pieces
whose concatenation is the pool, because neither `GetEnoughTxs` nor
`GetBatchofTxs` asks for more than its length (`CountFits`); `Propose` moves a
piece from one place to its neighbour; every other step leaves the four alone.

*Argument for the report.* `ReportMatchesReplies` compares sums over sets of
replies, which the library defines by a fold. The module starts with what a fold
of + computes: the library's induction theorems take a predicate, which the
provers cannot instantiate, but least elements of *sets* of numbers
(`LeastNat`, from `WFMin`) give induction over a set of subsets
(`SubsetInduction`), and with it the solution of the recursion (`SumsEquation`),
the sum over a set with one element more (`SumWithout`) and over a set embedded
in another (`SumInjection`). The flow then needs three facts. A transaction
arrives at a shard once (`ArrivesOnce`), so by `PoolKeepsOrder` no two requests
share one (`RequestsDiffer`) and what PBFT applies is new (`CurrentIsNew`). So
shard, request and first or second application identify a reply
(`RepliesDiffer`). And there is a set of replies, those whose first turn is
done, whose transactions are the sum of the TPS slice (`Counted`): it contains
what all addons have recorded, from which the lower bound follows, and it is
embedded in the applications, from which the upper one does. The slice may grow
in between (`TPSSumUpdated`). After `ctx.Done` no reply joins `handled`, so what
is written stays right while the handlers go on (`FilesStayRight`).

*Argument for the sessions.* The proposer is freed by a token, so the invariant
follows the token back to its timer. `OneSignal`: while a session runs there is
the one done timer that its Init has set, at N + 6 ticks after the start, or the
token it has left, and never both; no other node sets one, because an Init is
never sent to the view (`AllGood`) and only the view's handler sets it.
`StartPending`: the clock does not pass a start timer, so the end cannot be
signalled before the proposal. `SessionHadTime` is what a token then means.
`OneSignal` is exactly what fails in TBB, where both modules set a timer.

*Argument for the end of a session.* `EndIsTimed` is what `QueuedIsProposed`
needs of every state: `Run` never waits without a token or the timer that will
leave one. In Dolev-Strong it follows from the same invariant. In TBB a token
left over may end the next session early, and a timer of an old session may be
that of another module; what is kept is that the Init handler of the view sets
the timer of *this* session in the step that opens it, and only its expiry
removes it, leaving a token in a channel that is full or becomes so. Only the
proposer takes a token, and then the session is over. `RunInv` of `TbbProofs`
holds this together with the timers that exist.

*Argument for one session per command.* A string passes from what is left to be
typed into an Inject, into `stringQueue`, into `sessions`. `OnePlace` says that
these four are disjoint, and that no two Injects, no two entries of the queue and
no two sessions hold the same string: the pairwise facts one needs to add a place
at either end. It is proved once for the proposer, the network being allowed to
lose and delay (`Wire`), and carried to both deployments by their steps. It
assumes that the user types a string once, as the constants say, so that a
string stands for a command.

*Argument for the types of Dolev-Strong.* The lists of signatures have no bound
(a late forward of one session may be extended in the next), so `TypeOK` says
what is true of every instance. To show that a forward carries two signatures at
least, `TypeInv` adds that a handler at its waiting loop holds one (a Propose) or
more, to which it adds its own, and that timers belong to nodes.

*Argument for the rounds.* With two nodes `malicious_num` is 0, one vote is
enough and a broadcast has one receiver. Three nodes already reach the same
thresholds with more messages, so that a request can be executed twice
(`pbft_executed_once`) and the properties fail; `OneBackup` is therefore a
hypothesis of the theorems and not an assumption on the constants. `RoundInv`
counts: the handlers that a node's Prepare for a request sets going at the other
node, and the answer at the node itself, are together at most one
(`OneInFlight`), so no Commit of an old round can meet the dispatch of the next
(`PastRoundsFinished`, `DispatchWaits`). `ChainInv` says of each block, drafted,
queued or dispatched, which prefix of the chain its parent and its height were
read from. TLC checks both on the instance of `pbft_tbd`. `RoundsAwaitDecision`
adds to `RoundInv` that what a node has executed it has decided
(`ExecutedIsDecided`): the view node executes one request per round, so a round
that is past has had its decision.

*Argument for agreement.* The properties speak of executions in which no hop has
taken longer than a tick (`Synchronous`), and the proofs assume that no Init is
lost, since nothing repeats an Init; together this is `Prompt`. In a prompt
state `Good` holds, for any F and any number of other losses: whatever is in the
network, in a handler or in a timer belongs to the running session and carries
its proposal (`NetOK`, `TasksOK`, `TimersOK`). What bounds the life of a message
is the length of its list: a forward with s signatures is on its way at most
s - 1 ticks after the start, so the inverted waiting loop never spins, and s - 1
nodes have extracted the value by then (`Holders`), so it is at most N ticks old.
Sessions are N + 7 ticks apart (`SessionInv`, from `SessionsApart`), and every
set is empty when one starts: `SetsStartEmpty`, the other side of
`ds_stale_forward`. Both hypotheses are needed. A late hop breaks it in that run;
a lost Init breaks it without one, because the node that has missed an Init has
an old start time, spins on the Propose of the session and is let go by the next
Init. The view never misses an Init, which its proposer hands to it, so it has
committed its own string when the client asks (`ViewCommits`), whatever else is
lost: `ClientIsShownSession`.

Agreement needs the values to arrive. `Tolerated` says what the losses may be, and
every scenario of `ds_session` satisfies it: the lost messages are fewer than the
honest nodes the view proposes to (none is needed when there is no such node),
and F is not 0 unless nothing goes wrong. It depends on the number of losses *so
far*, so `HonestNodesAgree` and `HonestViewPrevails` say something about every
state up to the first excess loss. `AllServed` is the counting argument: a node
without the proposal, and without one coming, has lost a message to or from every
node whose Propose has been handled, which is more than the losses there were.
Hence at the commit timer every honest node holds exactly the proposal
(`DecidedOK`). TLC checks the invariant `DsInv` on the scenarios of `ds_session`,
on three nodes with F = 0 and F = 1 and up to six lost messages, and partly for
four nodes.

*Argument for the refinement.* Under the assumptions the invariant `DsInv` says
in a state what the abstract specification says of a step, so each step is
mapped where it happens: `RunInit` opens a session after N + 7 ticks
(`SessionsApart`), the commit timer of an honest node runs out F + 1 ticks after
the start of the running session and the node then holds the one proposal
(`AllServed`), `ClientReply` shows what an honest view has committed, `Tick` is
the tick, and everything else, the malicious commits included, is a stutter
(`OnlyThese`). The invariant is used after the step: `Calmly'` implies `Calmly`,
since faults and late hops are only counted up.

*Argument for the commit points.* `Undisturbed` says what the theorems take for
granted of an execution so far, and every scenario of `tbb_session` starts that
way: hops take less than a tick; no Init is lost; sessions do not overlap; and if
the view is malicious, a certificate takes two votes. Any number of other
messages may be lost. That sessions do not overlap is a hypothesis here, where
it is a theorem for Dolev-Strong, because in TBB it fails from the third session
on (`tbb_overlap`). Up to the second it is proved (`FirstSessionsApart`): the
first session finds an empty channel, so it is ended by a timer, N + 6 ticks
after its start, and what is left over after it can only end the second one
early, not start it (`FirstTimed`, `FirstApart`). `FirstSessionsAgree` is agreement
and confirmation without the hypothesis. The quorum matters because a malicious view votes for the
string that it withholds from the others, and with F = N - 1 that vote alone
would be a certificate. `Good` then holds: an honest node has heard of no value
but the proposal of the session it is in, in the sets, references and commit
points of its modules, and has no other vote for anything else than the view's
(`NodesOK`, `NodeHas`). The proposals, forwards and votes that travel, wait in a
handler or in a timer are of the running session (`NetOK`, `TasksOK`,
`TimersOK`). How long they can be under way follows from their length: a list
of s signatures left its last sender at most s - 1 ticks after the start, and
s - 1 nodes have extracted the value by then, so N + 6 ticks after the start
nothing is left of the session (`NothingLeft`). Nothing needs to be said of
BADS: its result goes into `CommitValue` of a node that has not committed, and
commit point 1 reads only that of a node that has. The types come first
(`TypeInv`), since the guards compare numbers and sets. TLC checks the invariant
on the scenarios of `tbb_session` and on one more with N = 3 and F = 1.

*Argument for the last commit point.* It rests on `LateInv`, on top of the one
above. `Tolerated` of `TbbProofs` is `Undisturbed` with what Dolev-Strong needs
(as above: fewer losses than targets, F not 0 unless nothing goes wrong, some
honest node proposed to), F <= N - 2, since with F = N - 1 the second reference
point and the commit of Dolev-Strong fall on one tick in either order, and a view
that runs, since one that is stopped has no timers left. A value gets to the last
point through a chain of four timers, so each link says: either the timer of the
running session is still there, or its effect is. `AllServed` brings the proposal
to every honest node before its commit timer (`AllHave`); `CommitOK`: after it
the node has committed the one value it has extracted; `RefOK`: after the second
reference point it has a reference; `CpOK`: after the third commit point it has a
value. `Ahead`, that the clock has passed no timer, orders the links, also
against a node that has not had the Init of the next session. TLC checks
`LateInv` on the scenarios of `tbb_session` and on one more with lost proposals
or forwards of a malicious view.

*Argument for the life cycle.* `StopIsSent`: a `Send` of the stop module, a
`MsgStop` on its way and a cancelled context of a node each mean that the
interrupt has come and that the stop module has passed the node.

## 7. What is only model-checked

Liveness is outside the prover's reach, as is `ENABLED`: `ViewDecides` (of the first
request),
`BootCompletes`, `QueuedIsProposed`, `PoolDrains`, `ResultsWritten`,
`StopReachesListeners`, `ClientEnds`. For the string deployments a part of it is
proved as safety (`SessionsAreEnded`). Every safety property of a passing run is
a theorem; where a hypothesis was needed (`Prompt`, `Tolerated`, `Undisturbed`,
`OneBackup`) section 6 says what it is, and the run satisfies it.

## 8. What is not modelled

- *Account states.* With `config.TxVerifyTime`, as the source sets it,
  `UpdateStates` only sleeps and `CommitStates` returns the root it is given;
  without it an account's `DirtyBalance` is a nil `big.Int` whose first use ends
  the node. No account balance is ever reached, so there is nothing to model but
  the root, which `BlockStore` has.
- *Signatures* are calls of a BLS library. The *coding* package has no caller
  and is pure arithmetic; neither have `SaveChunks` (which writes to the bucket
  of coding schemas), `SaveCodingSchema` and `WaitForShardReady`.
- *Messages*, *blocks* and *transactions* are records; a conversion that fails
  on what the same program has encoded does not occur. The hash of a block is
  not recomputed when its state root is set; the models identify a block by it.
- *Configuration* and *logging* have no behaviour of their own; configuration
  values are the CONSTANTS. `vm`, `utxo_set`, `hotstuff` and `syncPubKeys` are
  stubs. `sendTxTest` belongs to ClassicPBFT, which cannot run.
- Failing to create a result file, and the fatal error of the Go runtime on a
  concurrent map write, end a process and are left out.
