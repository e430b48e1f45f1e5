-------------------------------- MODULE Pbft --------------------------------
(***************************************************************************)
(* One shard running the PBFT consensus module (consensusMod/pbft) with    *)
(* the block proposer of its view node (proposeBlock.go).                  *)
(*                                                                         *)
(* Every message is handled by a goroutine of its own (p2p.go: `go         *)
(* handler(msg)`), so two handlers of one node interleave wherever a       *)
(* handler releases roundLock or requestPoolLock, or waits.  A handler is  *)
(* therefore split at those points and nowhere else.  PbftMessage carries  *)
(* a request and a round but not its sender, so the messages and handlers  *)
(* of one kind for one request at one node are interchangeable: prepare    *)
(* and commit count them per stage, "net" being a message in flight.  A    *)
(* handler that has returned is no longer counted.  A broadcast is merged  *)
(* with the local step before it, since delivery is asynchronous.          *)
(*                                                                         *)
(* Loss of a message is indistinguishable, for safety, from a message that *)
(* stays in stage "net" for ever.  Down nodes never start.                 *)
(***************************************************************************)
EXTENDS Integers, Sequences, FiniteSets

CONSTANTS
    Node,       \* the nodes of the shard (config.NodeNum of them)
    View,       \* the view node, config.ViewNodeId
    Down,       \* nodes that are not running
    Request,    \* requests, identified by their digest
    Genesis,    \* the genesis block
    Nil,        \* no draft block
    TBD,        \* TRUE: PbftTBDAddon, FALSE: PbftSimpleAddon
    MayStop     \* whether the context of the node may be cancelled

ASSUME NodeAssumption == /\ IsFiniteSet(Node)
                         /\ View \in Node \ Down
ASSUME ValueAssumption == /\ Genesis \notin Request
                          /\ Nil \notin Request \cup {Genesis}
                          /\ TBD \in BOOLEAN
                          /\ MayStop \in BOOLEAN

VARIABLES
    block,           \* Request -> the header of the block it proposes
    draft,           \* the parent hash NewBlock has read, or Nil
    requestQueue,    \* requests of the view node waiting for consensus
    runPc,           \* where the Run loop of the view node is
    currentRound,    \* Node -> round counter
    roundOf,         \* Request -> Round field of its PBFT messages
    requestPool,     \* Node -> Request -> RequestInfo
    prePrepare,      \* Node -> Request -> stage of the one handler
    prepare,         \* Node -> Request -> stage -> number of handlers
    commit,          \* Node -> Request -> stage -> number of handlers
    stateUpdateDone, \* Node -> flag of the TBD addon
    executed         \* Node -> requests HandleCommitAddon has applied

vars == <<block, draft, requestQueue, runPc, currentRound, roundOf,
          requestPool, prePrepare, prepare, commit, stateUpdateDone, executed>>
proposeVars == <<block, draft>>
runVars     == <<requestQueue, runPc, roundOf>>
addonVars   == <<stateUpdateDone, executed>>

Live == Node \ Down

malicious_num == (Cardinality(Node) - 1) \div 3

PrePrepareStage == {"unsent", "net", "exec", "done", "dropped"}
PrepareStage == {"net", "wait", "count", "bcast"}
CommitStage == {"net", "count", "reply", "addon", "commit", "store", "round",
                "notify"}

\* One handler counted in h goes from one stage to another, or returns.
Move(h, from, to) == [st \in DOMAIN h |-> h[st] - (IF st = from THEN 1 ELSE 0)
                                                + (IF st = to THEN 1 ELSE 0)]

\* Mutant of getNeighbours: the node itself is not skipped.
getNeighboursAndSelf(n) == Live
\* The nodes a broadcast of n reaches.
getNeighbours(n) == Live \ {n}

\* A message for r is on its way to the neighbours of n.
Deliver(h, n, r) ==
    [d \in Node |-> IF d \in getNeighbours(n)
                    THEN [h[d] EXCEPT ![r]["net"] = @ + 1] ELSE h[d]]

(***************************************************************************)
(* RequestInfo; `known' is FALSE where the Go map has no entry, which the  *)
(* readers treat as the zero flags.                                        *)
(***************************************************************************)
RequestInfo == [known : BOOLEAN, cntPrepareConfirm : Nat,
                cntCommitConfirm : Nat, isCommitBroadcast : BOOLEAN,
                isReply : BOOLEAN]
NewRequestInfo == [known |-> TRUE, cntPrepareConfirm |-> 0,
                   cntCommitConfirm |-> 0, isCommitBroadcast |-> FALSE,
                   isReply |-> FALSE]
NoRequestInfo == [known |-> FALSE, cntPrepareConfirm |-> 0,
                  cntCommitConfirm |-> 0, isCommitBroadcast |-> FALSE,
                  isReply |-> FALSE]

\* Mutant of EnsureRequestInfo: the entry is created without looking.
EnsureRequestInfoAlways(info) == NewRequestInfo
\* The entry of a request, created where it is missing.
EnsureRequestInfo(info) == IF info.known THEN info ELSE NewRequestInfo

addPrepareConfirm(info) ==
    [EnsureRequestInfo(info) EXCEPT !.cntPrepareConfirm = @ + 1]
addCommitConfirm(info) ==
    [EnsureRequestInfo(info) EXCEPT !.cntCommitConfirm = @ + 1]

\* These two set the flag without testing it.
setCommitBroadcasted(info) == [info EXCEPT !.isCommitBroadcast = TRUE]
setReplySent(info) == [info EXCEPT !.isReply = TRUE]

\* Mutant of needCnt: the vote a view node needs more is forgotten.
needCntSameForAll(n) == 2 * malicious_num - 1

\* The prepares a node wants before it broadcasts its commit.
needCnt(n) == IF n = View THEN 2 * malicious_num ELSE 2 * malicious_num - 1

\* Mutant of enoughCommits: one more than the others can send is wanted.
enoughCommitsPlusOne(cnt) == cnt > 2 * malicious_num
enoughCommits(cnt) == cnt >= 2 * malicious_num

\* Mutants of IncCurrentRound: the round goes back, or stays.
IncCurrentRoundBack(round) == round - 1
IncCurrentRoundStays(round) == round
IncCurrentRound(round) == round + 1

\* BlockChain.CurrentBlock; the simple addon never commits a block.
CurrentBlock(n) == IF TBD /\ executed[n] # <<>>
                   THEN executed[n][Len(executed[n])] ELSE Genesis

\* Mutant of Height: the genesis block counts as the first block.
HeightOfGenesisOne(b) == IF b = Genesis THEN 1 ELSE block[b].height
Height(b) == IF b = Genesis THEN 0 ELSE block[b].height

Init ==
    /\ block = [r \in Request |-> [prev |-> Genesis, height |-> 0]]
    /\ draft = Nil
    /\ requestQueue = <<>>
    /\ runPc = "loop"
    /\ currentRound = [n \in Node |-> 0]
    /\ roundOf = [r \in Request |-> 0]
    /\ requestPool = [n \in Node |-> [r \in Request |-> NoRequestInfo]]
    /\ prePrepare = [n \in Node |-> [r \in Request |-> "unsent"]]
    /\ prepare = [n \in Node |-> [r \in Request |-> [st \in PrepareStage |-> 0]]]
    /\ commit = [n \in Node |-> [r \in Request |-> [st \in CommitStage |-> 0]]]
    /\ stateUpdateDone = [n \in Node |-> FALSE]
    /\ executed = [n \in Node |-> <<>>]

-----------------------------------------------------------------------------
(* The block proposer and the Run loop of the view node.                   *)

\* Requests whose block exists; one with height 0 has not been built yet.
Proposed == {r \in Request : block[r].height > 0}

\* TryProposeBlock, NewBlock: the parent hash is read from CurChain ...
ProposeRead ==
    /\ draft = Nil
    /\ Proposed # Request
    /\ draft' = CurrentBlock(View)
    /\ UNCHANGED <<block, runVars, currentRound, requestPool, prePrepare,
                   prepare, commit, addonVars>>

\* ... then the height, without a lock; handlePropose pools and queues it.
ProposeEnqueue(r) ==
    /\ draft # Nil
    /\ r \in Request \ Proposed
    /\ block' = [block EXCEPT ![r] =
                    [prev |-> draft, height |-> Height(CurrentBlock(View)) + 1]]
    /\ draft' = Nil
    /\ requestPool' = [requestPool EXCEPT ![View][r] = NewRequestInfo]
    /\ requestQueue' = Append(requestQueue, r)
    /\ UNCHANGED <<runPc, roundOf, currentRound, prePrepare, prepare, commit,
                   addonVars>>

\* Run: dequeue, broadcast the PrePrepare and start the own handler.
RunDispatch ==
    /\ runPc = "loop"
    /\ requestQueue # <<>>
    /\ LET r == Head(requestQueue) IN
       /\ roundOf' = [roundOf EXCEPT ![r] = currentRound[View]]
       /\ prePrepare' = [n \in Node |-> [prePrepare[n] EXCEPT
                            ![r] = IF n \in Live THEN "net" ELSE @]]
    /\ requestQueue' = Tail(requestQueue)
    /\ runPc' = "sent"
    /\ UNCHANGED <<proposeVars, currentRound, requestPool, prepare, commit,
                   addonVars>>

\* Run reaches the select on consensusDone.
RunWait ==
    /\ runPc = "sent"
    /\ runPc' = "waiting"
    /\ UNCHANGED <<proposeVars, requestQueue, roundOf, currentRound,
                   requestPool, prePrepare, prepare, commit, addonVars>>

\* Run observes ctx.Done() at the top of the loop or in the select.
RunStop ==
    /\ MayStop
    /\ runPc \in {"loop", "waiting"}
    /\ runPc' = "stopped"
    /\ UNCHANGED <<proposeVars, requestQueue, roundOf, currentRound,
                   requestPool, prePrepare, prepare, commit, addonVars>>

-----------------------------------------------------------------------------
(* handlePrePrepare on node n.                                             *)

\* The round check and the pool entry; the simple addon accepts at once.
HandlePrePrepare(n, r) ==
    /\ prePrepare[n][r] = "net"
    /\ \/ /\ roundOf[r] < currentRound[n]
          /\ prePrepare' = [prePrepare EXCEPT ![n][r] = "dropped"]
          /\ UNCHANGED <<requestPool, prepare>>
       \/ /\ roundOf[r] >= currentRound[n]
          /\ requestPool' = [requestPool EXCEPT ![n][r] = EnsureRequestInfo(@)]
          /\ \/ /\ TBD
                /\ prePrepare' = [prePrepare EXCEPT ![n][r] = "exec"]
                /\ UNCHANGED prepare
             \/ /\ ~TBD
                /\ prePrepare' = [prePrepare EXCEPT ![n][r] = "done"]
                /\ prepare' = Deliver(prepare, n, r)
    /\ UNCHANGED <<proposeVars, runVars, currentRound, commit, addonVars>>

\* PbftTBDAddon.HandlePrePrepareAddon: a wrong height is logged, the states
\* are updated and the flag is set whatever the check said.
ExecPrePrepare(n, r) ==
    /\ prePrepare[n][r] = "exec"
    /\ prePrepare' = [prePrepare EXCEPT ![n][r] = "done"]
    /\ stateUpdateDone' = [stateUpdateDone EXCEPT ![n] = TRUE]
    /\ prepare' = Deliver(prepare, n, r)
    /\ UNCHANGED <<proposeVars, runVars, currentRound, requestPool, commit,
                   executed>>

-----------------------------------------------------------------------------
(* handlePrepare on node n.                                                *)

PrepareStep(n, r, from, to) ==
    /\ prepare[n][r][from] > 0
    /\ prepare' = [prepare EXCEPT ![n][r] = Move(@, from, to)]

AfterPrepareAddon(n, r) ==
    IF requestPool[n][r].isCommitBroadcast THEN "done" ELSE "count"

\* The round check; without a wait after it, the read of isCommitBroadcast
\* can be part of the same step (the flag only rises, the check only fails
\* more, and both outcomes end the handler).
HandlePrepare(n, r) ==
    /\ PrepareStep(n, r, "net",
                   IF roundOf[r] < currentRound[n] THEN "done"
                   ELSE IF TBD THEN "wait" ELSE AfterPrepareAddon(n, r))
    /\ UNCHANGED <<proposeVars, runVars, currentRound, requestPool, prePrepare,
                   commit, addonVars>>

\* PbftTBDAddon.HandlePrepareAddon spins until the flag of the node is set.
PrepareWait(n, r) ==
    /\ stateUpdateDone[n]
    /\ PrepareStep(n, r, "wait", AfterPrepareAddon(n, r))
    /\ UNCHANGED <<proposeVars, runVars, currentRound, requestPool, prePrepare,
                   commit, addonVars>>

\* Under requestPoolLock: create the entry, count, read the count.
PrepareCount(n, r) ==
    LET info == addPrepareConfirm(requestPool[n][r])
    IN  /\ PrepareStep(n, r, "count", IF info.cntPrepareConfirm >= needCnt(n)
                                      THEN "bcast" ELSE "done")
        /\ requestPool' = [requestPool EXCEPT ![n][r] = info]
        /\ UNCHANGED <<proposeVars, runVars, currentRound, prePrepare, commit,
                       addonVars>>

\* setCommitBroadcasted and the broadcast.
PrepareBroadcast(n, r) ==
    /\ PrepareStep(n, r, "bcast", "done")
    /\ requestPool' = [requestPool EXCEPT ![n][r] = setCommitBroadcasted(@)]
    /\ commit' = Deliver(commit, n, r)
    /\ UNCHANGED <<proposeVars, runVars, currentRound, prePrepare, addonVars>>

-----------------------------------------------------------------------------
(* handleCommit on node n.                                                 *)

CommitStep(n, r, from, to) ==
    /\ commit[n][r][from] > 0
    /\ commit' = [commit EXCEPT ![n][r] = Move(@, from, to)]

\* Only the view node goes on after HandleCommitAddon.
AfterCommitAddon(n) == IF n = View THEN "round" ELSE "done"

\* The round check and the read of isReply.  A handler that reads TRUE still
\* counts, but the count is past its threshold by then and decides nothing,
\* so it may count at once.
HandleCommit(n, r) ==
    /\ \/ /\ roundOf[r] < currentRound[n]
          /\ CommitStep(n, r, "net", "done")
          /\ UNCHANGED requestPool
       \/ /\ roundOf[r] >= currentRound[n]
          /\ requestPool[n][r].isReply
          /\ CommitStep(n, r, "net", "done")
          /\ requestPool' = [requestPool EXCEPT ![n][r] = addCommitConfirm(@)]
       \/ /\ roundOf[r] >= currentRound[n]
          /\ ~requestPool[n][r].isReply
          /\ CommitStep(n, r, "net", "count")
          /\ UNCHANGED requestPool
    /\ UNCHANGED <<proposeVars, runVars, currentRound, prePrepare, prepare,
                   addonVars>>

\* Under requestPoolLock: create the entry, count, read the count.
CommitCount(n, r) ==
    LET info == addCommitConfirm(requestPool[n][r])
    IN  /\ CommitStep(n, r, "count", IF enoughCommits(info.cntCommitConfirm)
                                     THEN "reply" ELSE "done")
        /\ requestPool' = [requestPool EXCEPT ![n][r] = info]
        /\ UNCHANGED <<proposeVars, runVars, currentRound, prePrepare, prepare,
                       addonVars>>

\* Mutant of CommitReply: Run is woken before the round is ended, not after.
CommitReplyNotifies(n, r) ==
    /\ CommitStep(n, r, "reply",
                  IF TBD THEN "addon" ELSE AfterCommitAddon(n))
    /\ requestPool' = [requestPool EXCEPT ![n][r] = setReplySent(@)]
    /\ executed' = IF TBD THEN executed
                   ELSE [executed EXCEPT ![n] = Append(@, r)]
    /\ runPc' = IF n = View /\ runPc = "waiting" THEN "loop" ELSE runPc
    /\ UNCHANGED <<proposeVars, requestQueue, roundOf, currentRound,
                   prePrepare, prepare, stateUpdateDone>>

\* setReplySent; the simple addon returns at once.
CommitReply(n, r) ==
    /\ CommitStep(n, r, "reply",
                  IF TBD THEN "addon" ELSE AfterCommitAddon(n))
    /\ requestPool' = [requestPool EXCEPT ![n][r] = setReplySent(@)]
    /\ executed' = IF TBD THEN executed
                   ELSE [executed EXCEPT ![n] = Append(@, r)]
    /\ UNCHANGED <<proposeVars, runVars, currentRound, prePrepare, prepare,
                   stateUpdateDone>>

\* PbftTBDAddon.HandleCommitAddon spins until the flag of the node is set ...
CommitAddon(n, r) ==
    /\ stateUpdateDone[n]
    /\ CommitStep(n, r, "addon", "commit")
    /\ UNCHANGED <<proposeVars, runVars, currentRound, requestPool, prePrepare,
                   prepare, addonVars>>

\* ... CommitBlock makes the block the current one, unconditionally ...
CommitBlock(n, r) ==
    /\ CommitStep(n, r, "commit", "store")
    /\ executed' = [executed EXCEPT ![n] = Append(@, r)]
    /\ UNCHANGED <<proposeVars, runVars, currentRound, requestPool, prePrepare,
                   prepare, stateUpdateDone>>

\* ... and, once the block is stored, the flag is cleared.
CommitStored(n, r) ==
    /\ CommitStep(n, r, "store", AfterCommitAddon(n))
    /\ stateUpdateDone' = [stateUpdateDone EXCEPT ![n] = FALSE]
    /\ UNCHANGED <<proposeVars, runVars, currentRound, requestPool, prePrepare,
                   prepare, executed>>

\* IncCurrentRound.
CommitRound(n, r) ==
    /\ CommitStep(n, r, "round", "notify")
    /\ currentRound' = [currentRound EXCEPT ![n] = IncCurrentRound(@)]
    /\ UNCHANGED <<proposeVars, runVars, requestPool, prePrepare, prepare,
                   addonVars>>

\* The send on consensusDone succeeds only if Run is in its select.
CommitNotify(n, r) ==
    /\ CommitStep(n, r, "notify", "done")
    /\ runPc' = IF runPc = "waiting" THEN "loop" ELSE runPc
    /\ UNCHANGED <<proposeVars, requestQueue, roundOf, currentRound,
                   requestPool, prePrepare, prepare, addonVars>>

-----------------------------------------------------------------------------
PrepareHandler(n, r) ==
    \/ HandlePrepare(n, r)
    \/ PrepareWait(n, r)
    \/ PrepareCount(n, r)
    \/ PrepareBroadcast(n, r)

CommitHandler(n, r) ==
    \/ HandleCommit(n, r)
    \/ CommitCount(n, r)
    \/ CommitReply(n, r)
    \/ CommitAddon(n, r)
    \/ CommitBlock(n, r)
    \/ CommitStored(n, r)
    \/ CommitRound(n, r)
    \/ CommitNotify(n, r)

\* The steps the Go scheduler takes by itself; the others come from outside.
SystemStep ==
    \/ RunDispatch
    \/ RunWait
    \/ \E n \in Node, r \in Request :
          \/ HandlePrePrepare(n, r)
          \/ ExecPrePrepare(n, r)
          \/ PrepareHandler(n, r)
          \/ CommitHandler(n, r)

Next ==
    \/ ProposeRead
    \/ \E r \in Request : ProposeEnqueue(r)
    \/ RunStop
    \/ SystemStep

Spec == Init /\ [][Next]_vars

\* Every goroutine that can run is run.  System steps only move handlers
\* forward, so weak fairness of their disjunction starves none of them.
FairSpec == Spec /\ WF_vars(SystemStep)

-----------------------------------------------------------------------------
(* Safety.                                                                 *)

\* A shard with at most one node beside the view node.  malicious_num is 0
\* there, so every vote is enough and every broadcast has one receiver.  With
\* more nodes a request can be executed twice, and what is said of rounds fails.
OneBackup == \A m, n \in Node \ {View} : m = n

\* The nodes whose Prepare for r has gone out.
Accepted(r) == {n \in Node : prePrepare[n][r] = "done"}

Dispatched == {r \in Request : prePrepare[View][r] # "unsent"}

\* The state of a shard as PbftCosensusMod keeps it: in particular the round
\* counter (IncCurrentRound) and the vote counters are never negative.
TypeOK ==
    /\ block \in [Request -> [prev : Request \cup {Genesis}, height : Nat]]
    /\ draft \in Request \cup {Genesis, Nil}
    /\ requestQueue \in Seq(Request)
    /\ runPc \in {"loop", "sent", "waiting", "stopped"}
    /\ currentRound \in [Node -> Nat]
    /\ roundOf \in [Request -> Nat]
    /\ requestPool \in [Node -> [Request -> RequestInfo]]
    /\ prePrepare \in [Node -> [Request -> PrePrepareStage]]
    /\ prepare \in [Node -> [Request -> [PrepareStage -> Nat]]]
    /\ commit \in [Node -> [Request -> [CommitStage -> Nat]]]
    /\ stateUpdateDone \in [Node -> BOOLEAN]
    /\ executed \in [Node -> Seq(Request)]

\* The Prepares a node has behind it when it commits, as the code intends:
\* 2f at the view node, one less elsewhere, and never none.
Votes == [n \in Node |->
             LET v == IF n = View THEN 2 * malicious_num ELSE 2 * malicious_num - 1
             IN  IF v > 1 THEN v ELSE 1]

\* Prepare certificate: a node has broadcast its Commit only when that many
\* DIFFERENT other nodes have accepted the request (handlePrepare counts
\* messages, not senders, lines 173-191; it still never counts one twice).
PrepareCertificate ==
    \A n \in Node, r \in Request :
        requestPool[n][r].isCommitBroadcast =>
            Cardinality(Accepted(r) \ {n}) >= Votes[n]

\* A request is decided only at the end of the chain PrePrepare, Prepare,
\* Commit that the view node started: a node that has set isReply heard a
\* Commit of another node, which holds a prepare certificate.
DecisionCertificate ==
    \A n \in Node, r \in Request :
        requestPool[n][r].isReply =>
            /\ r \in Dispatched
            /\ \E m \in Node \ {n} :
                  /\ requestPool[m][r].isCommitBroadcast
                  /\ Cardinality(Accepted(r) \ {m}) >= Votes[m]

\* A request the view node has not dispatched has left no trace anywhere.
UndispatchedIsUntouched ==
    \A n \in Node, r \in Request \ Dispatched :
        /\ prePrepare[n][r] = "unsent"
        /\ requestPool[n][r] \in {NoRequestInfo, NewRequestInfo}
        /\ \A st \in PrepareStage : prepare[n][r][st] = 0
        /\ \A st \in CommitStage : commit[n][r][st] = 0

\* The queue holds built blocks that are not dispatched, each once.
QueueIsFresh ==
    /\ \A i \in 1..Len(requestQueue) : requestQueue[i] \in Proposed \ Dispatched
    /\ \A i, j \in 1..Len(requestQueue) :
          requestQueue[i] = requestQueue[j] => i = j
    /\ Dispatched \subseteq Proposed

\* An entry that is missing from the pool has no votes and no flags.
MissingEntryIsEmpty ==
    \A n \in Node, r \in Request :
        ~requestPool[n][r].known => requestPool[n][r] = NoRequestInfo

\* Counted and pending Prepares of a node never exceed the nodes that
\* accepted the request, so cntPrepareConfirm is a count of nodes.
VotesAreBacked ==
    \A n \in Node, r \in Request :
        prepare[n][r]["net"] + prepare[n][r]["wait"] + prepare[n][r]["count"]
            + requestPool[n][r].cntPrepareConfirm
        <= Cardinality(Accepted(r) \ {n})

\* A handler about to broadcast a Commit, and a node that has, counted enough.
CommitterHasVotes ==
    \A n \in Node, r \in Request :
        prepare[n][r]["bcast"] > 0 \/ requestPool[n][r].isCommitBroadcast
            => requestPool[n][r].cntPrepareConfirm >= Votes[n]

\* A Commit at a node, in flight or handled, comes from another node.
CommitHasSender ==
    \A n \in Node, r \in Request :
        /\ (\E st \in CommitStage : commit[n][r][st] > 0)
              \/ requestPool[n][r].isReply
           => \E m \in Node \ {n} : requestPool[m][r].isCommitBroadcast
        /\ commit[n][r]["reply"] > 0 => requestPool[n][r].known

\* The inductive invariant behind both certificates and the refinement: the
\* votes counted at a node (handlePrepare) are backed by nodes that accepted,
\* and a pool entry is never created over one that holds votes.
IndInv ==
    /\ TypeOK
    /\ UndispatchedIsUntouched
    /\ QueueIsFresh
    /\ MissingEntryIsEmpty
    /\ VotesAreBacked
    /\ CommitterHasVotes
    /\ CommitHasSender

\* No vote and no flag of a request is ever lost, although handlePropose and
\* handlePrePrepare store fresh RequestInfo values in a pool that messages of
\* the same request may have reached first; rounds never go back.
VotesNeverLost ==
    [][\A n \in Node :
          /\ currentRound'[n] >= currentRound[n]
          /\ \A r \in Request :
                LET old == requestPool[n][r]
                    new == requestPool'[n][r]
                IN  /\ new.cntPrepareConfirm >= old.cntPrepareConfirm
                    /\ new.cntCommitConfirm >= old.cntCommitConfirm
                    /\ old.isCommitBroadcast => new.isCommitBroadcast
                    /\ old.isReply => new.isReply]_vars

\* With one backup no message is ever duplicated, and the round counter does
\* its job: the i-th request the view node executes is the one it dispatched
\* in round i - 1, so requests are executed one at a time and in queue order.
RoundsInOrder ==
    \A i \in 1..Len(executed[View]) : roundOf[executed[View][i]] = i - 1

\* With one backup the view node does not leave the round of a request it has
\* dispatched before it has decided the request; if it did, it would drop the
\* votes for it as outdated.  With more backups it does: two handlers that read
\* isReply before either sets it both raise the round.
RoundEndsWithDecision ==
    \A r \in Dispatched :
        ~requestPool[View][r].isReply => roundOf[r] >= currentRound[View]

\* With one backup a node commits only blocks that it has executed itself,
\* although stateUpdateDone does not say which block it is about: the Commit
\* of a block depends on the Prepare the node sends after executing it.
CommitAfterStateUpdate ==
    \A n \in Node : \A i \in 1..Len(executed[n]) :
        prePrepare[n][executed[n][i]] = "done"

\* A block is built on the chain: NewBlock reads CurrentBlock twice without a
\* lock, for the parent and for the height, while the queue may hold blocks
\* that will come before it.  Still the parent is a block the view node has
\* committed (or genesis), the height is above the parent's, and the chain is
\* never higher than it is long.
BlocksBuildOnChain ==
    \A r \in Proposed :
        /\ \/ block[r].prev = Genesis
           \/ \E i \in 1..Len(executed[View]) : executed[View][i] = block[r].prev
        /\ block[r].height > Height(block[r].prev)
        /\ block[r].height <= Len(executed[View]) + 1

-----------------------------------------------------------------------------
(* Refinement: module ShardConsensus states what this component promises.  *)

Abstract == INSTANCE ShardConsensus WITH
    queue      <- requestQueue,
    dispatched <- Dispatched,
    accepted   <- [r \in Request |-> Accepted(r)],
    committed  <- [r \in Request |->
                      {n \in Node : requestPool[n][r].isCommitBroadcast}],
    decided    <- [r \in Request |-> {n \in Node : requestPool[n][r].isReply}]

\* Every behaviour of the handlers is one of the abstract specification.
Refines == Abstract!Spec

-----------------------------------------------------------------------------
(* Liveness.                                                               *)

\* The view node gets its answer although up to malicious_num nodes never give
\* one: with the simple addon the first request it dispatches is decided there.
\* It is not said of later ones, whose messages the view node may drop as
\* outdated (RoundEndsWithDecision).
ViewDecides ==
    \A r \in Request :
        (r \in Dispatched /\ ~TBD /\ roundOf[r] = 0) ~> requestPool[View][r].isReply

-----------------------------------------------------------------------------
(* What comments and documents of the repository say and the code does not *)
(* keep; each is the property of a run that refutes it.                    *)

\* structs.go:19, isReply, "whether the reply message has been sent": the
\* flag keeps a request from being executed and answered a second time.
ExecutedOnce ==
    \A n \in Node : \A i, j \in 1..Len(executed[n]) :
        executed[n][i] = executed[n][j] => i = j

\* handler_pbft.go:39, consensusDone notifies that a round is done: a Run loop
\* that waits for it is always woken.
RunResumes == runPc = "waiting" ~> runPc # "waiting"

\* addon_tbd.go:65, "all nodes are synchronized in the same PBFT round": the
\* chain of one node is a prefix of the chain of another.
ChainsAgree ==
    \A m, n \in Node : \A i \in 1..Len(executed[m]) :
        i <= Len(executed[n]) => executed[m][i] = executed[n][i]
=============================================================================
