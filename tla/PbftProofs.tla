----------------------------- MODULE PbftProofs -----------------------------
(***************************************************************************)
(* Proofs about Pbft for every shard size, every set of silent nodes and   *)
(* every number of requests.                                               *)
(***************************************************************************)
EXTENDS Pbft, FiniteSetTheorems, SequenceTheorems, TLAPS

-----------------------------------------------------------------------------
(* The operators the handlers are built from.                              *)

LEMMA MoveType ==
    ASSUME NEW S, NEW h \in [S -> Nat], NEW from \in S, NEW to, h[from] > 0
    PROVE  /\ Move(h, from, to) \in [S -> Nat]
           /\ \A st \in S : Move(h, from, to)[st] =
                 h[st] - (IF st = from THEN 1 ELSE 0) + (IF st = to THEN 1 ELSE 0)
BY DEF Move

LEMMA DeliverType ==
    ASSUME NEW S, NEW h \in [Node -> [Request -> [S -> Nat]]], "net" \in S,
           NEW n, NEW r \in Request
    PROVE  /\ Deliver(h, n, r) \in [Node -> [Request -> [S -> Nat]]]
           /\ \A d \in Node, q \in Request, st \in S :
                 Deliver(h, n, r)[d][q][st] =
                    IF d \in Live \ {n} /\ q = r /\ st = "net"
                    THEN h[d][q][st] + 1 ELSE h[d][q][st]
BY DEF Deliver, getNeighbours

LEMMA PutType ==
    ASSUME NEW T, NEW f \in [Node -> [Request -> T]],
           NEW n \in Node, NEW r \in Request, NEW v \in T
    PROVE  /\ [f EXCEPT ![n][r] = v] \in [Node -> [Request -> T]]
           /\ \A d \in Node, q \in Request :
                 [f EXCEPT ![n][r] = v][d][q] =
                    IF d = n /\ q = r THEN v ELSE f[d][q]
OBVIOUS

LEMMA EnsureFields ==
    ASSUME NEW info \in RequestInfo
    PROVE  /\ EnsureRequestInfo(info) \in RequestInfo
           /\ EnsureRequestInfo(info).known
           /\ info.known => EnsureRequestInfo(info) = info
           /\ ~info.known => EnsureRequestInfo(info) = NewRequestInfo
           /\ NewRequestInfo \in RequestInfo
           /\ NoRequestInfo \in RequestInfo
BY DEF EnsureRequestInfo, RequestInfo, NewRequestInfo, NoRequestInfo

LEMMA PrepareConfirmFields ==
    ASSUME NEW info \in RequestInfo
    PROVE  LET e == EnsureRequestInfo(info)
               c == addPrepareConfirm(info)
           IN  /\ c \in RequestInfo
               /\ c.known
               /\ c.cntPrepareConfirm = e.cntPrepareConfirm + 1
               /\ c.cntCommitConfirm = e.cntCommitConfirm
               /\ c.isCommitBroadcast = e.isCommitBroadcast
               /\ c.isReply = e.isReply
BY EnsureFields DEF addPrepareConfirm, RequestInfo

LEMMA CommitConfirmFields ==
    ASSUME NEW info \in RequestInfo
    PROVE  LET e == EnsureRequestInfo(info)
               c == addCommitConfirm(info)
           IN  /\ c \in RequestInfo
               /\ c.known
               /\ c.cntPrepareConfirm = e.cntPrepareConfirm
               /\ c.cntCommitConfirm = e.cntCommitConfirm + 1
               /\ c.isCommitBroadcast = e.isCommitBroadcast
               /\ c.isReply = e.isReply
BY EnsureFields DEF addCommitConfirm, RequestInfo

LEMMA FlagFields ==
    ASSUME NEW info \in RequestInfo
    PROVE  LET c == setCommitBroadcasted(info)
               d == setReplySent(info)
           IN  /\ c \in RequestInfo
               /\ c.known = info.known
               /\ c.cntPrepareConfirm = info.cntPrepareConfirm
               /\ c.cntCommitConfirm = info.cntCommitConfirm
               /\ c.isCommitBroadcast
               /\ c.isReply = info.isReply
               /\ d \in RequestInfo
               /\ d.known = info.known
               /\ d.cntPrepareConfirm = info.cntPrepareConfirm
               /\ d.cntCommitConfirm = info.cntCommitConfirm
               /\ d.isCommitBroadcast = info.isCommitBroadcast
               /\ d.isReply
BY DEF setCommitBroadcasted, setReplySent, RequestInfo

LEMMA MaliciousNumType == malicious_num \in Int
<1>1. Cardinality(Node) \in Nat
  BY FS_CardinalityType, NodeAssumption
<1> QED
  BY <1>1 DEF malicious_num

LEMMA CurrentBlockType ==
    ASSUME TypeOK, NEW n \in Node
    PROVE  CurrentBlock(n) \in Request \cup {Genesis}
BY DEF CurrentBlock, TypeOK

-----------------------------------------------------------------------------
(* Type correctness.                                                       *)

LEMMA TypeInit == Init => TypeOK
<1> SUFFICES ASSUME Init PROVE TypeOK
  OBVIOUS
<1>1. NoRequestInfo \in RequestInfo
  BY DEF NoRequestInfo, RequestInfo
<1>2. requestPool \in [Node -> [Request -> RequestInfo]]
  BY <1>1 DEF Init
<1>3. prePrepare \in [Node -> [Request -> PrePrepareStage]]
  BY DEF Init, PrePrepareStage
<1> QED
  BY <1>2, <1>3 DEF Init, TypeOK

\* The part of TypeOK that each handler step can disturb.
LEMMA PrepareStepType ==
    ASSUME TypeOK, NEW n \in Node, NEW r \in Request,
           NEW from \in PrepareStage, NEW to, PrepareStep(n, r, from, to)
    PROVE  /\ prepare' \in [Node -> [Request -> [PrepareStage -> Nat]]]
           /\ \A d \in Node, q \in Request, st \in PrepareStage :
                 prepare'[d][q][st] =
                    IF d = n /\ q = r
                    THEN prepare[n][r][st] - (IF st = from THEN 1 ELSE 0)
                                           + (IF st = to THEN 1 ELSE 0)
                    ELSE prepare[d][q][st]
<1>1. prepare \in [Node -> [Request -> [PrepareStage -> Nat]]]
  BY DEF TypeOK
<1>2. prepare[n][r] \in [PrepareStage -> Nat] /\ prepare[n][r][from] > 0
  BY <1>1 DEF PrepareStep
<1>3. /\ Move(prepare[n][r], from, to) \in [PrepareStage -> Nat]
      /\ \A st \in PrepareStage : Move(prepare[n][r], from, to)[st] =
            prepare[n][r][st] - (IF st = from THEN 1 ELSE 0)
                              + (IF st = to THEN 1 ELSE 0)
  BY <1>2, MoveType
<1>4. prepare' = [prepare EXCEPT ![n][r] = Move(prepare[n][r], from, to)]
  BY <1>1 DEF PrepareStep
<1> QED
  BY <1>1, <1>3, <1>4, PutType

LEMMA CommitStepType ==
    ASSUME TypeOK, NEW n \in Node, NEW r \in Request,
           NEW from \in CommitStage, NEW to, CommitStep(n, r, from, to)
    PROVE  /\ commit' \in [Node -> [Request -> [CommitStage -> Nat]]]
           /\ \A d \in Node, q \in Request, st \in CommitStage :
                 commit'[d][q][st] =
                    IF d = n /\ q = r
                    THEN commit[n][r][st] - (IF st = from THEN 1 ELSE 0)
                                          + (IF st = to THEN 1 ELSE 0)
                    ELSE commit[d][q][st]
<1>1. commit \in [Node -> [Request -> [CommitStage -> Nat]]]
  BY DEF TypeOK
<1>2. commit[n][r] \in [CommitStage -> Nat] /\ commit[n][r][from] > 0
  BY <1>1 DEF CommitStep
<1>3. /\ Move(commit[n][r], from, to) \in [CommitStage -> Nat]
      /\ \A st \in CommitStage : Move(commit[n][r], from, to)[st] =
            commit[n][r][st] - (IF st = from THEN 1 ELSE 0)
                             + (IF st = to THEN 1 ELSE 0)
  BY <1>2, MoveType
<1>4. commit' = [commit EXCEPT ![n][r] = Move(commit[n][r], from, to)]
  BY <1>1 DEF CommitStep
<1> QED
  BY <1>1, <1>3, <1>4, PutType

LEMMA TypeNext == TypeOK /\ [Next]_vars => TypeOK'
<1> SUFFICES ASSUME TypeOK, [Next]_vars PROVE TypeOK'
  OBVIOUS
<1> USE DEF proposeVars, runVars, addonVars
<1>0. View \in Node
  BY NodeAssumption
<1>p. requestPool \in [Node -> [Request -> RequestInfo]]
  BY DEF TypeOK
<1>s. /\ PrepareStage = {"net", "wait", "count", "bcast"}
      /\ CommitStage = {"net", "count", "reply", "addon", "commit", "store",
                        "round", "notify"}
  BY DEF PrepareStage, CommitStage
<1>1. CASE ProposeRead
  BY <1>0, <1>1, CurrentBlockType DEF ProposeRead, TypeOK
<1>2. ASSUME NEW r \in Request, ProposeEnqueue(r) PROVE TypeOK'
  <2>1. CurrentBlock(View) \in Request \cup {Genesis}
    BY <1>0, CurrentBlockType
  <2>2. Height(CurrentBlock(View)) \in Nat
    BY <2>1 DEF Height, TypeOK
  <2>3. block' \in [Request -> [prev : Request \cup {Genesis}, height : Nat]]
    BY <1>2, <2>2 DEF ProposeEnqueue, TypeOK
  <2>4. NewRequestInfo \in RequestInfo
    BY DEF NewRequestInfo, RequestInfo
  <2>5. requestPool' \in [Node -> [Request -> RequestInfo]]
    BY <1>0, <1>2, <1>p, <2>4 DEF ProposeEnqueue
  <2>6. requestQueue' \in Seq(Request)
    BY <1>2 DEF ProposeEnqueue, TypeOK
  <2> QED
    BY <1>2, <2>3, <2>5, <2>6 DEF ProposeEnqueue, TypeOK
<1>3. CASE RunDispatch
  <2>1. Head(requestQueue) \in Request /\ Tail(requestQueue) \in Seq(Request)
    BY <1>3 DEF RunDispatch, TypeOK
  <2>2. roundOf' \in [Request -> Nat]
    BY <1>0, <1>3, <2>1 DEF RunDispatch, TypeOK
  <2>3. prePrepare' \in [Node -> [Request -> PrePrepareStage]]
    BY <1>3, <2>1 DEF RunDispatch, PrePrepareStage, TypeOK
  <2> QED
    BY <1>3, <2>1, <2>2, <2>3 DEF RunDispatch, TypeOK
<1>4. CASE RunWait
  BY <1>4 DEF RunWait, TypeOK
<1>5. CASE RunStop
  BY <1>5 DEF RunStop, TypeOK
<1>6. ASSUME NEW n \in Node, NEW r \in Request, HandlePrePrepare(n, r)
      PROVE  TypeOK'
  <2>1. Deliver(prepare, n, r) \in [Node -> [Request -> [PrepareStage -> Nat]]]
    BY <1>s, DeliverType DEF TypeOK
  <2>2. EnsureRequestInfo(requestPool[n][r]) \in RequestInfo
    BY <1>p, EnsureFields
  <2>3. [requestPool EXCEPT ![n][r] = EnsureRequestInfo(requestPool[n][r])]
           \in [Node -> [Request -> RequestInfo]]
    BY <1>p, <2>2, PutType
  <2>4. requestPool' \in [Node -> [Request -> RequestInfo]]
    BY <1>6, <1>p, <2>3 DEF HandlePrePrepare
  <2>5. /\ prePrepare' \in [Node -> [Request -> PrePrepareStage]]
        /\ prepare' \in [Node -> [Request -> [PrepareStage -> Nat]]]
    <3>1. prePrepare \in [Node -> [Request -> PrePrepareStage]]
      BY DEF TypeOK
    <3>2. ASSUME NEW st \in {"dropped", "exec", "done"}
          PROVE  [prePrepare EXCEPT ![n][r] = st]
                    \in [Node -> [Request -> PrePrepareStage]]
      BY <3>1 DEF PrePrepareStage
    <3>3. prepare \in [Node -> [Request -> [PrepareStage -> Nat]]]
      BY DEF TypeOK
    <3> QED
      BY <1>6, <2>1, <3>2, <3>3 DEF HandlePrePrepare
  <2> QED
    BY <1>6, <2>4, <2>5 DEF HandlePrePrepare, TypeOK
<1>7. ASSUME NEW n \in Node, NEW r \in Request, ExecPrePrepare(n, r)
      PROVE  TypeOK'
  <2>1. Deliver(prepare, n, r) \in [Node -> [Request -> [PrepareStage -> Nat]]]
    BY <1>s, DeliverType DEF TypeOK
  <2>2. prePrepare' \in [Node -> [Request -> PrePrepareStage]]
    BY <1>7 DEF ExecPrePrepare, PrePrepareStage, TypeOK
  <2> QED
    BY <1>7, <2>1, <2>2 DEF ExecPrePrepare, TypeOK
<1>8. ASSUME NEW n \in Node, NEW r \in Request, PrepareHandler(n, r)
      PROVE  TypeOK'
  <2>1. CASE HandlePrepare(n, r)
    <3>1. prepare' \in [Node -> [Request -> [PrepareStage -> Nat]]]
      BY <1>s, <2>1, PrepareStepType DEF HandlePrepare
    <3> QED
      BY <2>1, <3>1 DEF HandlePrepare, TypeOK
  <2>2. CASE PrepareWait(n, r)
    <3>1. prepare' \in [Node -> [Request -> [PrepareStage -> Nat]]]
      BY <1>s, <2>2, PrepareStepType DEF PrepareWait
    <3> QED
      BY <2>2, <3>1 DEF PrepareWait, TypeOK
  <2>3. CASE PrepareCount(n, r)
    <3>1. addPrepareConfirm(requestPool[n][r]) \in RequestInfo
      BY <1>p, PrepareConfirmFields
    <3>2. requestPool' \in [Node -> [Request -> RequestInfo]]
      BY <1>p, <2>3, <3>1, PutType DEF PrepareCount
    <3>3. prepare' \in [Node -> [Request -> [PrepareStage -> Nat]]]
      BY <1>s, <2>3, PrepareStepType DEF PrepareCount
    <3> QED
      BY <2>3, <3>2, <3>3 DEF PrepareCount, TypeOK
  <2>4. CASE PrepareBroadcast(n, r)
    <3>1. Deliver(commit, n, r) \in [Node -> [Request -> [CommitStage -> Nat]]]
      BY <1>s, DeliverType DEF TypeOK
    <3>2. setCommitBroadcasted(requestPool[n][r]) \in RequestInfo
      BY <1>p, FlagFields
    <3>3. requestPool' \in [Node -> [Request -> RequestInfo]]
      BY <1>p, <2>4, <3>2, PutType DEF PrepareBroadcast
    <3>4. prepare' \in [Node -> [Request -> [PrepareStage -> Nat]]]
      BY <1>s, <2>4, PrepareStepType DEF PrepareBroadcast
    <3> QED
      BY <2>4, <3>1, <3>3, <3>4 DEF PrepareBroadcast, TypeOK
  <2> QED
    BY <1>8, <2>1, <2>2, <2>3, <2>4 DEF PrepareHandler
<1>9. ASSUME NEW n \in Node, NEW r \in Request, CommitHandler(n, r)
      PROVE  TypeOK'
  <2>1. addCommitConfirm(requestPool[n][r]) \in RequestInfo
    BY <1>p, CommitConfirmFields
  <2>2. setReplySent(requestPool[n][r]) \in RequestInfo
    BY <1>p, FlagFields
  <2>3. CASE HandleCommit(n, r)
    <3>1. requestPool' \in [Node -> [Request -> RequestInfo]]
      BY <1>p, <2>1, <2>3, PutType DEF HandleCommit
    <3>2. commit' \in [Node -> [Request -> [CommitStage -> Nat]]]
      BY <1>s, <2>3, CommitStepType DEF HandleCommit
    <3> QED
      BY <2>3, <3>1, <3>2 DEF HandleCommit, TypeOK
  <2>4. CASE CommitCount(n, r)
    <3>1. requestPool' \in [Node -> [Request -> RequestInfo]]
      BY <1>p, <2>1, <2>4, PutType DEF CommitCount
    <3>2. commit' \in [Node -> [Request -> [CommitStage -> Nat]]]
      BY <1>s, <2>4, CommitStepType DEF CommitCount
    <3> QED
      BY <2>4, <3>1, <3>2 DEF CommitCount, TypeOK
  <2>5. CASE CommitReply(n, r)
    <3>1. requestPool' \in [Node -> [Request -> RequestInfo]]
      BY <1>p, <2>2, <2>5, PutType DEF CommitReply
    <3>2. commit' \in [Node -> [Request -> [CommitStage -> Nat]]]
      BY <1>s, <2>5, CommitStepType DEF CommitReply
    <3>3. executed' \in [Node -> Seq(Request)]
      BY <2>5 DEF CommitReply, TypeOK
    <3> QED
      BY <2>5, <3>1, <3>2, <3>3 DEF CommitReply, TypeOK
  <2>6. CASE CommitAddon(n, r)
    <3>1. commit' \in [Node -> [Request -> [CommitStage -> Nat]]]
      BY <1>s, <2>6, CommitStepType DEF CommitAddon
    <3> QED
      BY <2>6, <3>1 DEF CommitAddon, TypeOK
  <2>7. CASE CommitBlock(n, r)
    <3>1. commit' \in [Node -> [Request -> [CommitStage -> Nat]]]
      BY <1>s, <2>7, CommitStepType DEF CommitBlock
    <3>2. executed' \in [Node -> Seq(Request)]
      BY <2>7 DEF CommitBlock, TypeOK
    <3> QED
      BY <2>7, <3>1, <3>2 DEF CommitBlock, TypeOK
  <2>8. CASE CommitStored(n, r)
    <3>1. commit' \in [Node -> [Request -> [CommitStage -> Nat]]]
      BY <1>s, <2>8, CommitStepType DEF CommitStored
    <3> QED
      BY <2>8, <3>1 DEF CommitStored, TypeOK
  <2>9. CASE CommitRound(n, r)
    <3>1. commit' \in [Node -> [Request -> [CommitStage -> Nat]]]
      BY <1>s, <2>9, CommitStepType DEF CommitRound
    <3>2. currentRound' \in [Node -> Nat]
      BY <2>9 DEF CommitRound, IncCurrentRound, TypeOK
    <3> QED
      BY <2>9, <3>1, <3>2 DEF CommitRound, TypeOK
  <2>10. CASE CommitNotify(n, r)
    <3>1. commit' \in [Node -> [Request -> [CommitStage -> Nat]]]
      BY <1>s, <2>10, CommitStepType DEF CommitNotify
    <3> QED
      BY <2>10, <3>1 DEF CommitNotify, TypeOK
  <2> QED
    BY <1>9, <2>3, <2>4, <2>5, <2>6, <2>7, <2>8, <2>9, <2>10 DEF CommitHandler
<1>10. CASE UNCHANGED vars
  BY <1>10 DEF vars, TypeOK
<1> QED
  BY <1>1, <1>2, <1>3, <1>4, <1>5, <1>6, <1>7, <1>8, <1>9, <1>10
     DEF Next, SystemStep

\* Type correctness of the PBFT component: in particular no stage of
\* handlePrepare or handleCommit is left by more handlers than entered it,
\* and rounds and vote counts stay natural numbers.
THEOREM TypeCorrect == Spec => []TypeOK
BY TypeInit, TypeNext, PTL DEF Spec

-----------------------------------------------------------------------------
(* The inductive invariant.                                                *)

LEMMA FieldTypes ==
    ASSUME TypeOK, NEW n \in Node, NEW r \in Request
    PROVE  /\ requestPool[n][r] \in RequestInfo
           /\ requestPool[n][r].known \in BOOLEAN
           /\ requestPool[n][r].cntPrepareConfirm \in Nat
           /\ requestPool[n][r].cntCommitConfirm \in Nat
           /\ requestPool[n][r].isCommitBroadcast \in BOOLEAN
           /\ requestPool[n][r].isReply \in BOOLEAN
           /\ prepare[n][r]["net"] \in Nat
           /\ prepare[n][r]["wait"] \in Nat
           /\ prepare[n][r]["count"] \in Nat
           /\ prepare[n][r]["bcast"] \in Nat
           /\ \A st \in CommitStage : commit[n][r][st] \in Nat
<1>1. requestPool[n][r] \in RequestInfo
  BY DEF TypeOK
<1>2. prepare[n][r] \in [PrepareStage -> Nat] /\ commit[n][r] \in [CommitStage -> Nat]
  BY DEF TypeOK
<1>3. \A st \in {"net", "wait", "count", "bcast"} : prepare[n][r][st] \in Nat
  BY <1>2 DEF PrepareStage
<1> QED
  BY <1>1, <1>2, <1>3 DEF RequestInfo

LEMMA VotesType ==
    ASSUME NEW n \in Node
    PROVE  /\ Votes[n] \in Int
           /\ Votes[n] >= 1
           /\ \A c \in Nat : c >= 1 /\ c >= needCnt(n) => c >= Votes[n]
BY MaliciousNumType DEF Votes, needCnt

LEMMA BackersType ==
    ASSUME NEW n, NEW r
    PROVE  /\ IsFiniteSet(Accepted(r) \ {n})
           /\ Cardinality(Accepted(r) \ {n}) \in Nat
<1>1. Accepted(r) \ {n} \subseteq Node
  BY DEF Accepted
<1>2. IsFiniteSet(Accepted(r) \ {n})
  BY <1>1, NodeAssumption, FS_Subset
<1> QED
  BY <1>2, FS_CardinalityType

\* Where the pool has no entry, creating one changes no vote and no flag.
LEMMA EnsureKeeps ==
    ASSUME NEW info \in RequestInfo, ~info.known => info = NoRequestInfo
    PROVE  /\ EnsureRequestInfo(info).cntPrepareConfirm = info.cntPrepareConfirm
           /\ EnsureRequestInfo(info).cntCommitConfirm = info.cntCommitConfirm
           /\ EnsureRequestInfo(info).isCommitBroadcast = info.isCommitBroadcast
           /\ EnsureRequestInfo(info).isReply = info.isReply
<1>1. CASE info.known
  BY <1>1 DEF EnsureRequestInfo
<1>2. CASE ~info.known
  <2>1. info = NoRequestInfo /\ EnsureRequestInfo(info) = NewRequestInfo
    BY <1>2 DEF EnsureRequestInfo
  <2>2. /\ NoRequestInfo.cntPrepareConfirm = NewRequestInfo.cntPrepareConfirm
        /\ NoRequestInfo.cntCommitConfirm = NewRequestInfo.cntCommitConfirm
        /\ NoRequestInfo.isCommitBroadcast = NewRequestInfo.isCommitBroadcast
        /\ NoRequestInfo.isReply = NewRequestInfo.isReply
    BY DEF NoRequestInfo, NewRequestInfo
  <2> QED
    BY <2>1, <2>2
<1> QED
  BY <1>1, <1>2

LEMMA IndInit == Init => IndInv
<1> SUFFICES ASSUME Init PROVE IndInv
  OBVIOUS
<1>1. TypeOK
  BY TypeInit
<1>2. UndispatchedIsUntouched
  BY DEF Init, UndispatchedIsUntouched, Dispatched
<1>3. QueueIsFresh
  BY NodeAssumption DEF Init, QueueIsFresh, Dispatched
<1>4. MissingEntryIsEmpty
  BY DEF Init, MissingEntryIsEmpty
<1>5. VotesAreBacked
  <2> SUFFICES ASSUME NEW n \in Node, NEW r \in Request
               PROVE  prepare[n][r]["net"] + prepare[n][r]["wait"]
                         + prepare[n][r]["count"]
                         + requestPool[n][r].cntPrepareConfirm
                      <= Cardinality(Accepted(r) \ {n})
    BY DEF VotesAreBacked
  <2>1. /\ prepare[n][r]["net"] = 0 /\ prepare[n][r]["wait"] = 0
        /\ prepare[n][r]["count"] = 0
        /\ requestPool[n][r].cntPrepareConfirm = 0
    BY DEF Init, PrepareStage, NoRequestInfo
  <2>2. Cardinality(Accepted(r) \ {n}) \in Nat
    BY BackersType
  <2> QED
    BY <2>1, <2>2
<1>6. CommitterHasVotes
  BY DEF Init, CommitterHasVotes, PrepareStage, NoRequestInfo
<1>7. CommitHasSender
  BY DEF Init, CommitHasSender, CommitStage, NoRequestInfo
<1> QED
  BY <1>1, <1>2, <1>3, <1>4, <1>5, <1>6, <1>7 DEF IndInv

\* A handler runs only for a request that was dispatched.
LEMMA HandlersAreDispatched ==
    ASSUME IndInv, NEW n \in Node, NEW r \in Request
    PROVE  /\ prePrepare[n][r] # "unsent" => r \in Dispatched
           /\ \A st \in PrepareStage : prepare[n][r][st] > 0 => r \in Dispatched
           /\ \A st \in CommitStage : commit[n][r][st] > 0 => r \in Dispatched
BY DEF IndInv, UndispatchedIsUntouched

\* Prepare handlers that only wait or return: HandlePrepare, PrepareWait.
LEMMA PrepareAdvances ==
    ASSUME IndInv, NEW n \in Node, NEW r \in Request,
           NEW from \in {"net", "wait"}, NEW to \in {"wait", "count", "done"},
           PrepareStep(n, r, from, to), TypeOK',
           UNCHANGED <<block, requestQueue, requestPool, prePrepare, commit>>
    PROVE  IndInv'
<1>1. from \in PrepareStage /\ TypeOK
  BY DEF PrepareStage, IndInv
<1>2. \A d \in Node, q \in Request, st \in PrepareStage :
         prepare'[d][q][st] =
            IF d = n /\ q = r
            THEN prepare[n][r][st] - (IF st = from THEN 1 ELSE 0)
                                   + (IF st = to THEN 1 ELSE 0)
            ELSE prepare[d][q][st]
  BY <1>1, PrepareStepType
<1>3. r \in Dispatched
  BY <1>1, HandlersAreDispatched DEF PrepareStep
<1>4. Dispatched' = Dispatched /\ Proposed' = Proposed
  BY DEF Dispatched, Proposed
<1>5. \A q \in Request : Accepted(q)' = Accepted(q)
  BY DEF Accepted
<1>6. UndispatchedIsUntouched'
  BY <1>2, <1>3, <1>4 DEF IndInv, UndispatchedIsUntouched
<1>7. QueueIsFresh'
  BY <1>4 DEF IndInv, QueueIsFresh
<1>8. MissingEntryIsEmpty'
  BY DEF IndInv, MissingEntryIsEmpty
<1>9. VotesAreBacked'
  <2> SUFFICES ASSUME NEW d \in Node, NEW q \in Request
               PROVE  prepare'[d][q]["net"] + prepare'[d][q]["wait"]
                         + prepare'[d][q]["count"]
                         + requestPool[d][q].cntPrepareConfirm
                      <= Cardinality(Accepted(q) \ {d})
    BY <1>5 DEF VotesAreBacked
  <2>1. prepare[d][q]["net"] + prepare[d][q]["wait"] + prepare[d][q]["count"]
           + requestPool[d][q].cntPrepareConfirm
        <= Cardinality(Accepted(q) \ {d})
    BY DEF IndInv, VotesAreBacked
  <2>2. /\ prepare[d][q]["net"] \in Nat /\ prepare[d][q]["wait"] \in Nat
        /\ prepare[d][q]["count"] \in Nat
        /\ requestPool[d][q].cntPrepareConfirm \in Nat
        /\ Cardinality(Accepted(q) \ {d}) \in Nat
    BY <1>1, BackersType, FieldTypes
  <2>3. "net" \in PrepareStage /\ "wait" \in PrepareStage /\ "count" \in PrepareStage
    BY DEF PrepareStage
  <2>4. CASE ~(d = n /\ q = r)
    <3>1. /\ prepare'[d][q]["net"] = prepare[d][q]["net"]
          /\ prepare'[d][q]["wait"] = prepare[d][q]["wait"]
          /\ prepare'[d][q]["count"] = prepare[d][q]["count"]
      BY <1>2, <2>3, <2>4
    <3> QED
      BY <2>1, <3>1
  <2>5. CASE d = n /\ q = r
    <3>1. ASSUME NEW st \in {"net", "wait", "count"}
          PROVE  prepare'[d][q][st] =
                    prepare[d][q][st] - (IF st = from THEN 1 ELSE 0)
                                      + (IF st = to THEN 1 ELSE 0)
      BY <1>2, <2>3, <2>5
    <3>2. /\ prepare'[d][q]["net"] =
                prepare[d][q]["net"] - (IF "net" = from THEN 1 ELSE 0)
          /\ prepare'[d][q]["wait"] =
                prepare[d][q]["wait"] - (IF "wait" = from THEN 1 ELSE 0)
                                      + (IF "wait" = to THEN 1 ELSE 0)
          /\ prepare'[d][q]["count"] =
                prepare[d][q]["count"] + (IF "count" = to THEN 1 ELSE 0)
      BY <2>2, <3>1
    <3>3. CASE from = "net"
      BY <2>1, <2>2, <3>2, <3>3
    <3>4. CASE from = "wait"
      BY <2>1, <2>2, <3>2, <3>4
    <3> QED
      BY <3>3, <3>4
  <2> QED
    BY <2>4, <2>5
<1>10. CommitterHasVotes'
  <2>1. \A d \in Node, q \in Request :
           prepare'[d][q]["bcast"] = prepare[d][q]["bcast"]
    <3>1. "bcast" \in PrepareStage /\ from # "bcast" /\ to # "bcast"
      BY DEF PrepareStage
    <3>2. ASSUME NEW d \in Node, NEW q \in Request
          PROVE  prepare'[d][q]["bcast"] = prepare[d][q]["bcast"]
      BY <1>1, <1>2, <3>1, FieldTypes
    <3> QED
      BY <3>2
  <2> QED
    BY <2>1 DEF IndInv, CommitterHasVotes
<1>11. CommitHasSender'
  BY DEF IndInv, CommitHasSender
<1> QED
  BY <1>6, <1>7, <1>8, <1>9, <1>10, <1>11 DEF IndInv

\* Commit handlers after the reply, and those that return early.
LEMMA CommitAdvances ==
    ASSUME IndInv, NEW n \in Node, NEW r \in Request,
           NEW from \in CommitStage, NEW to, to # "reply",
           CommitStep(n, r, from, to), TypeOK',
           UNCHANGED <<block, requestQueue, requestPool, prePrepare, prepare>>
    PROVE  IndInv'
<1>1. TypeOK /\ "reply" \in CommitStage
  BY DEF IndInv, CommitStage
<1>2. \A d \in Node, q \in Request, st \in CommitStage :
         commit'[d][q][st] =
            IF d = n /\ q = r
            THEN commit[n][r][st] - (IF st = from THEN 1 ELSE 0)
                                  + (IF st = to THEN 1 ELSE 0)
            ELSE commit[d][q][st]
  BY <1>1, CommitStepType
<1>3. r \in Dispatched /\ commit[n][r][from] > 0
  BY HandlersAreDispatched DEF CommitStep
<1>4. Dispatched' = Dispatched /\ Proposed' = Proposed
  BY DEF Dispatched, Proposed
<1>5. UndispatchedIsUntouched'
  BY <1>2, <1>3, <1>4 DEF IndInv, UndispatchedIsUntouched
<1>6. QueueIsFresh'
  BY <1>4 DEF IndInv, QueueIsFresh
<1>7. MissingEntryIsEmpty' /\ CommitterHasVotes'
  BY DEF IndInv, MissingEntryIsEmpty, CommitterHasVotes
<1>8. VotesAreBacked'
  BY DEF IndInv, VotesAreBacked, Accepted
<1>9. CommitHasSender'
  <2> SUFFICES ASSUME NEW d \in Node, NEW q \in Request
               PROVE  /\ (\E st \in CommitStage : commit'[d][q][st] > 0)
                            \/ requestPool[d][q].isReply
                         => \E m \in Node \ {d} : requestPool[m][q].isCommitBroadcast
                      /\ commit'[d][q]["reply"] > 0 => requestPool[d][q].known
    BY DEF CommitHasSender
  <2>1. commit[d][q] \in [CommitStage -> Nat]
    BY <1>1 DEF TypeOK
  <2>2. (\E st \in CommitStage : commit'[d][q][st] > 0)
           => \E st \in CommitStage : commit[d][q][st] > 0
    BY <1>2, <1>3, <2>1
  <2>3. commit'[d][q]["reply"] > 0 => commit[d][q]["reply"] > 0
    BY <1>1, <1>2, <2>1
  <2> QED
    BY <2>2, <2>3 DEF IndInv, CommitHasSender
<1> QED
  BY <1>5, <1>6, <1>7, <1>8, <1>9 DEF IndInv

\* A handler of r that updates the pool entry (n, r) to v and takes back no
\* flag keeps the parts of the invariant that are not about message counts.
LEMMA PoolUpdate ==
    ASSUME IndInv, NEW n \in Node, NEW r \in Dispatched, NEW v \in RequestInfo,
           requestPool' = [requestPool EXCEPT ![n][r] = v], v.known,
           UNCHANGED <<block, requestQueue, prePrepare>>
    PROVE  /\ \A d \in Node, q \in Request : requestPool'[d][q] =
                 IF d = n /\ q = r THEN v ELSE requestPool[d][q]
           /\ Dispatched' = Dispatched
           /\ \A q \in Request : Accepted(q)' = Accepted(q)
           /\ QueueIsFresh'
           /\ MissingEntryIsEmpty'
<1>1. r \in Request
  BY DEF Dispatched
<1>2. \A d \in Node, q \in Request : requestPool'[d][q] =
         IF d = n /\ q = r THEN v ELSE requestPool[d][q]
  BY <1>1, PutType DEF IndInv, TypeOK
<1>3. Dispatched' = Dispatched /\ Proposed' = Proposed
  BY DEF Dispatched, Proposed
<1>4. \A q \in Request : Accepted(q)' = Accepted(q)
  BY DEF Accepted
<1>5. QueueIsFresh'
  BY <1>3 DEF IndInv, QueueIsFresh
<1>6. MissingEntryIsEmpty'
  BY <1>2 DEF IndInv, MissingEntryIsEmpty
<1> QED
  BY <1>2, <1>3, <1>4, <1>5, <1>6

LEMMA PrepareCountKeeps ==
    ASSUME IndInv, NEW n \in Node, NEW r \in Request, PrepareCount(n, r), TypeOK'
    PROVE  IndInv'
<1> DEFINE old == requestPool[n][r]
           v   == addPrepareConfirm(old)
           to  == IF v.cntPrepareConfirm >= needCnt(n) THEN "bcast" ELSE "done"
<1>1. /\ PrepareStep(n, r, "count", to)
      /\ requestPool' = [requestPool EXCEPT ![n][r] = v]
      /\ UNCHANGED <<block, requestQueue, prePrepare, commit>>
  BY DEF PrepareCount, proposeVars, runVars
<1>2. TypeOK /\ "count" \in PrepareStage /\ old \in RequestInfo
  BY FieldTypes DEF IndInv, PrepareStage
<1>3. ~old.known => old = NoRequestInfo
  BY DEF IndInv, MissingEntryIsEmpty
<1>4. /\ v \in RequestInfo /\ v.known
      /\ v.cntPrepareConfirm = old.cntPrepareConfirm + 1
      /\ v.isCommitBroadcast = old.isCommitBroadcast
      /\ v.isReply = old.isReply
  BY <1>2, <1>3, PrepareConfirmFields, EnsureKeeps
<1> HIDE DEF v, to
<1>5. \A d \in Node, q \in Request, st \in PrepareStage :
         prepare'[d][q][st] =
            IF d = n /\ q = r
            THEN prepare[n][r][st] - (IF st = "count" THEN 1 ELSE 0)
                                   + (IF st = to THEN 1 ELSE 0)
            ELSE prepare[d][q][st]
  BY <1>1, <1>2, PrepareStepType
<1>6. r \in Dispatched
  BY <1>1, <1>2, HandlersAreDispatched DEF PrepareStep
<1>7. /\ \A d \in Node, q \in Request : requestPool'[d][q] =
            IF d = n /\ q = r THEN v ELSE requestPool[d][q]
      /\ Dispatched' = Dispatched
      /\ \A q \in Request : Accepted(q)' = Accepted(q)
      /\ QueueIsFresh'
      /\ MissingEntryIsEmpty'
  BY <1>1, <1>4, <1>6, PoolUpdate
<1>8. UndispatchedIsUntouched'
  BY <1>1, <1>5, <1>6, <1>7 DEF IndInv, UndispatchedIsUntouched
<1>9. to \in {"bcast", "done"}
  BY DEF to
<1>10. VotesAreBacked'
  <2> SUFFICES ASSUME NEW d \in Node, NEW q \in Request
               PROVE  prepare'[d][q]["net"] + prepare'[d][q]["wait"]
                         + prepare'[d][q]["count"]
                         + requestPool'[d][q].cntPrepareConfirm
                      <= Cardinality(Accepted(q) \ {d})
    BY <1>7 DEF VotesAreBacked
  <2>1. prepare[d][q]["net"] + prepare[d][q]["wait"] + prepare[d][q]["count"]
           + requestPool[d][q].cntPrepareConfirm
        <= Cardinality(Accepted(q) \ {d})
    BY DEF IndInv, VotesAreBacked
  <2>2. /\ prepare[d][q]["net"] \in Nat /\ prepare[d][q]["wait"] \in Nat
        /\ prepare[d][q]["count"] \in Nat
        /\ requestPool[d][q].cntPrepareConfirm \in Nat
        /\ Cardinality(Accepted(q) \ {d}) \in Nat
    BY <1>2, BackersType, FieldTypes
  <2>3. {"net", "wait", "count"} \subseteq PrepareStage
    BY DEF PrepareStage
  <2>4. CASE d = n /\ q = r
    <3>1. /\ prepare'[d][q]["net"] = prepare[d][q]["net"]
          /\ prepare'[d][q]["wait"] = prepare[d][q]["wait"]
          /\ prepare'[d][q]["count"] = prepare[d][q]["count"] - 1
      BY <1>5, <1>9, <2>2, <2>3, <2>4
    <3>2. requestPool'[d][q].cntPrepareConfirm =
             requestPool[d][q].cntPrepareConfirm + 1
      BY <1>4, <1>7, <2>4
    <3> QED
      BY <2>1, <2>2, <3>1, <3>2
  <2>5. CASE ~(d = n /\ q = r)
    BY <1>5, <1>7, <2>1, <2>3, <2>5
  <2> QED
    BY <2>4, <2>5
<1>11. CommitterHasVotes'
  <2> SUFFICES ASSUME NEW d \in Node, NEW q \in Request,
                      \/ prepare'[d][q]["bcast"] > 0
                      \/ requestPool'[d][q].isCommitBroadcast
               PROVE  requestPool'[d][q].cntPrepareConfirm >= Votes[d]
    BY DEF CommitterHasVotes, Votes
  <2>1. "bcast" \in PrepareStage /\ prepare[d][q]["bcast"] \in Nat
    BY <1>2, FieldTypes DEF PrepareStage
  <2>2. \/ prepare[d][q]["bcast"] > 0
        \/ requestPool[d][q].isCommitBroadcast
        => requestPool[d][q].cntPrepareConfirm >= Votes[d]
    BY DEF IndInv, CommitterHasVotes
  <2>3. CASE d = n /\ q = r
    <3>1. old.cntPrepareConfirm \in Nat /\ Votes[n] \in Int
      BY <1>2, FieldTypes, VotesType
    <3>2. CASE to = "bcast"
      <4>1. v.cntPrepareConfirm >= needCnt(n)
        BY <3>2 DEF to
      <4>2. v.cntPrepareConfirm >= Votes[n]
        BY <1>4, <3>1, <4>1, VotesType
      <4> QED
        BY <1>7, <2>3, <4>2
    <3>3. CASE to = "done"
      <4>1. prepare'[d][q]["bcast"] = prepare[d][q]["bcast"]
        BY <1>5, <2>1, <2>3, <3>3
      <4>2. old.cntPrepareConfirm >= Votes[n]
        BY <1>4, <1>7, <2>2, <2>3, <4>1
      <4> QED
        BY <1>4, <1>7, <2>3, <3>1, <4>2
    <3> QED
      BY <1>9, <3>2, <3>3
  <2>4. CASE ~(d = n /\ q = r)
    BY <1>5, <1>7, <2>1, <2>2, <2>4
  <2> QED
    BY <2>3, <2>4
<1>12. CommitHasSender'
  <2>1. \A d \in Node, q \in Request :
           /\ requestPool'[d][q].isCommitBroadcast
                 = requestPool[d][q].isCommitBroadcast
           /\ requestPool'[d][q].isReply = requestPool[d][q].isReply
           /\ requestPool[d][q].known => requestPool'[d][q].known
    BY <1>4, <1>7
  <2> QED
    BY <1>1, <2>1 DEF IndInv, CommitHasSender
<1> QED
  BY <1>7, <1>8, <1>10, <1>11, <1>12 DEF IndInv

LEMMA PrepareBroadcastKeeps ==
    ASSUME IndInv, NEW n \in Node, NEW r \in Request, PrepareBroadcast(n, r),
           TypeOK'
    PROVE  IndInv'
<1> DEFINE old == requestPool[n][r]
           v   == setCommitBroadcasted(old)
<1>1. /\ PrepareStep(n, r, "bcast", "done")
      /\ requestPool' = [requestPool EXCEPT ![n][r] = v]
      /\ commit' = Deliver(commit, n, r)
      /\ UNCHANGED <<block, requestQueue, prePrepare>>
  BY DEF PrepareBroadcast, proposeVars, runVars
<1>2. TypeOK /\ "bcast" \in PrepareStage /\ old \in RequestInfo
  BY FieldTypes DEF IndInv, PrepareStage
<1>3. prepare[n][r]["bcast"] > 0
  BY <1>1 DEF PrepareStep
<1>4. old.cntPrepareConfirm >= Votes[n] /\ old.cntPrepareConfirm \in Nat
  BY <1>2, <1>3, FieldTypes DEF IndInv, CommitterHasVotes
<1>5. old.known
  <2>1. old # NoRequestInfo
    BY <1>4, VotesType DEF NoRequestInfo
  <2> QED
    BY <2>1 DEF IndInv, MissingEntryIsEmpty
<1>6. /\ v \in RequestInfo /\ v.known
      /\ v.cntPrepareConfirm = old.cntPrepareConfirm
      /\ v.isCommitBroadcast
      /\ v.isReply = old.isReply
  BY <1>2, <1>5, FlagFields
<1> HIDE DEF v
<1>7. \A d \in Node, q \in Request, st \in PrepareStage :
         prepare'[d][q][st] =
            IF d = n /\ q = r
            THEN prepare[n][r][st] - (IF st = "bcast" THEN 1 ELSE 0)
                                   + (IF st = "done" THEN 1 ELSE 0)
            ELSE prepare[d][q][st]
  BY <1>1, <1>2, PrepareStepType
<1>8. r \in Dispatched
  BY <1>2, <1>3, HandlersAreDispatched
<1>9. /\ \A d \in Node, q \in Request : requestPool'[d][q] =
            IF d = n /\ q = r THEN v ELSE requestPool[d][q]
      /\ Dispatched' = Dispatched
      /\ \A q \in Request : Accepted(q)' = Accepted(q)
      /\ QueueIsFresh'
      /\ MissingEntryIsEmpty'
  BY <1>1, <1>6, <1>8, PoolUpdate
<1>10. \A d \in Node, q \in Request, st \in CommitStage :
          commit'[d][q][st] = IF d \in Live \ {n} /\ q = r /\ st = "net"
                              THEN commit[d][q][st] + 1 ELSE commit[d][q][st]
  <2>1. "net" \in CommitStage /\ commit \in [Node -> [Request -> [CommitStage -> Nat]]]
    BY <1>2 DEF CommitStage, TypeOK
  <2> QED
    BY <1>1, <2>1, DeliverType
<1>11. UndispatchedIsUntouched'
  BY <1>1, <1>7, <1>8, <1>9, <1>10 DEF IndInv, UndispatchedIsUntouched
<1>12. VotesAreBacked'
  <2>1. ASSUME NEW d \in Node, NEW q \in Request
        PROVE  /\ prepare'[d][q]["net"] = prepare[d][q]["net"]
               /\ prepare'[d][q]["wait"] = prepare[d][q]["wait"]
               /\ prepare'[d][q]["count"] = prepare[d][q]["count"]
    BY <1>2, <1>7, FieldTypes DEF PrepareStage
  <2>2. \A d \in Node, q \in Request :
           requestPool'[d][q].cntPrepareConfirm = requestPool[d][q].cntPrepareConfirm
    BY <1>6, <1>9
  <2> QED
    BY <1>9, <2>1, <2>2 DEF IndInv, VotesAreBacked
<1>13. CommitterHasVotes'
  <2> SUFFICES ASSUME NEW d \in Node, NEW q \in Request,
                      \/ prepare'[d][q]["bcast"] > 0
                      \/ requestPool'[d][q].isCommitBroadcast
               PROVE  requestPool'[d][q].cntPrepareConfirm >= Votes[d]
    BY DEF CommitterHasVotes, Votes
  <2>1. CASE d = n /\ q = r
    BY <1>4, <1>6, <1>9, <2>1
  <2>2. CASE ~(d = n /\ q = r)
    BY <1>2, <1>7, <1>9, <2>2 DEF IndInv, CommitterHasVotes
  <2> QED
    BY <2>1, <2>2
<1>14. CommitHasSender'
  <2> SUFFICES ASSUME NEW d \in Node, NEW q \in Request
               PROVE  /\ (\E st \in CommitStage : commit'[d][q][st] > 0)
                            \/ requestPool'[d][q].isReply
                         => \E m \in Node \ {d} :
                               requestPool'[m][q].isCommitBroadcast
                      /\ commit'[d][q]["reply"] > 0 => requestPool'[d][q].known
    BY DEF CommitHasSender
  <2>1. /\ (\E st \in CommitStage : commit[d][q][st] > 0)
              \/ requestPool[d][q].isReply
           => \E m \in Node \ {d} : requestPool[m][q].isCommitBroadcast
        /\ commit[d][q]["reply"] > 0 => requestPool[d][q].known
    BY DEF IndInv, CommitHasSender
  <2>2. \A m \in Node : requestPool[m][q].isCommitBroadcast
                           => requestPool'[m][q].isCommitBroadcast
    BY <1>6, <1>9
  <2>3. requestPool'[d][q].isReply = requestPool[d][q].isReply
    BY <1>6, <1>9
  <2>4. commit'[d][q]["reply"] = commit[d][q]["reply"]
    BY <1>10 DEF CommitStage
  <2>5. requestPool[d][q].known => requestPool'[d][q].known
    BY <1>6, <1>9
  <2>6. CASE d \in Live \ {n} /\ q = r
    BY <1>6, <1>9, <2>1, <2>4, <2>5, <2>6
  <2>7. CASE ~(d \in Live \ {n} /\ q = r)
    BY <1>10, <2>1, <2>2, <2>3, <2>4, <2>5, <2>7
  <2> QED
    BY <2>6, <2>7
<1> QED
  BY <1>9, <1>11, <1>12, <1>13, <1>14 DEF IndInv

\* The steps of handleCommit that update the pool: HandleCommit of a replied
\* request, CommitCount and CommitReply.  They leave the Prepare votes alone.
LEMMA CommitPoolStepKeeps ==
    ASSUME IndInv, NEW n \in Node, NEW r \in Request, NEW v \in RequestInfo,
           NEW from \in CommitStage, NEW to, CommitStep(n, r, from, to),
           requestPool' = [requestPool EXCEPT ![n][r] = v],
           UNCHANGED <<block, requestQueue, prePrepare, prepare>>,
           v.known,
           v.cntPrepareConfirm = requestPool[n][r].cntPrepareConfirm,
           v.isCommitBroadcast = requestPool[n][r].isCommitBroadcast,
           TypeOK'
    PROVE  IndInv'
<1>1. TypeOK /\ "reply" \in CommitStage
  BY DEF IndInv, CommitStage
<1>2. \A d \in Node, q \in Request, st \in CommitStage :
         commit'[d][q][st] =
            IF d = n /\ q = r
            THEN commit[n][r][st] - (IF st = from THEN 1 ELSE 0)
                                  + (IF st = to THEN 1 ELSE 0)
            ELSE commit[d][q][st]
  BY <1>1, CommitStepType
<1>3. r \in Dispatched /\ commit[n][r][from] > 0
  BY HandlersAreDispatched DEF CommitStep
<1>4. /\ \A d \in Node, q \in Request : requestPool'[d][q] =
            IF d = n /\ q = r THEN v ELSE requestPool[d][q]
      /\ Dispatched' = Dispatched
      /\ \A q \in Request : Accepted(q)' = Accepted(q)
      /\ QueueIsFresh'
      /\ MissingEntryIsEmpty'
  BY <1>3, PoolUpdate
<1>5. \A d \in Node, q \in Request :
         /\ requestPool'[d][q].cntPrepareConfirm = requestPool[d][q].cntPrepareConfirm
         /\ requestPool'[d][q].isCommitBroadcast = requestPool[d][q].isCommitBroadcast
  BY <1>4
<1>6. UndispatchedIsUntouched'
  BY <1>2, <1>3, <1>4 DEF IndInv, UndispatchedIsUntouched
<1>7. VotesAreBacked'
  BY <1>4, <1>5 DEF IndInv, VotesAreBacked
<1>8. CommitterHasVotes'
  BY <1>5 DEF IndInv, CommitterHasVotes, Votes
<1>9. CommitHasSender'
  <2> SUFFICES ASSUME NEW d \in Node, NEW q \in Request
               PROVE  /\ (\E st \in CommitStage : commit'[d][q][st] > 0)
                            \/ requestPool'[d][q].isReply
                         => \E m \in Node \ {d} :
                               requestPool'[m][q].isCommitBroadcast
                      /\ commit'[d][q]["reply"] > 0 => requestPool'[d][q].known
    BY DEF CommitHasSender
  <2>1. /\ (\E st \in CommitStage : commit[d][q][st] > 0)
              \/ requestPool[d][q].isReply
           => \E m \in Node \ {d} : requestPool[m][q].isCommitBroadcast
        /\ commit[d][q]["reply"] > 0 => requestPool[d][q].known
    BY DEF IndInv, CommitHasSender
  <2>2. CASE d = n /\ q = r
    <3>1. PICK m \in Node \ {d} : requestPool[m][q].isCommitBroadcast
      BY <1>3, <2>1, <2>2
    <3>2. requestPool'[m][q].isCommitBroadcast
      BY <1>5, <3>1
    <3> QED
      BY <1>4, <2>2, <3>2
  <2>3. CASE ~(d = n /\ q = r)
    <3>1. /\ requestPool'[d][q] = requestPool[d][q]
          /\ \A st \in CommitStage : commit'[d][q][st] = commit[d][q][st]
      BY <1>2, <1>4, <2>3
    <3> QED
      BY <1>1, <1>5, <2>1, <3>1
  <2> QED
    BY <2>2, <2>3
<1> QED
  BY <1>4, <1>6, <1>7, <1>8, <1>9 DEF IndInv

LEMMA CommitHandlerKeeps ==
    ASSUME IndInv, NEW n \in Node, NEW r \in Request, CommitHandler(n, r), TypeOK'
    PROVE  IndInv'
<1> USE DEF proposeVars, runVars, addonVars
<1> DEFINE old == requestPool[n][r]
<1>1. TypeOK /\ old \in RequestInfo
  BY FieldTypes DEF IndInv
<1>2. ~old.known => old = NoRequestInfo
  BY DEF IndInv, MissingEntryIsEmpty
<1>3. CommitStage = {"net", "count", "reply", "addon", "commit", "store",
                     "round", "notify"}
  BY DEF CommitStage
<1>4. LET v == addCommitConfirm(old)
      IN  /\ v \in RequestInfo /\ v.known
          /\ v.cntPrepareConfirm = old.cntPrepareConfirm
          /\ v.isCommitBroadcast = old.isCommitBroadcast
  BY <1>1, <1>2, CommitConfirmFields, EnsureKeeps
<1>5. CASE HandleCommit(n, r)
  <2>1. CASE UNCHANGED requestPool
    <3>1. PICK to \in {"done", "count"} : CommitStep(n, r, "net", to)
      BY <1>5 DEF HandleCommit
    <3> QED
      BY <1>3, <1>5, <2>1, <3>1, CommitAdvances DEF HandleCommit
  <2>2. CASE requestPool' = [requestPool EXCEPT ![n][r] = addCommitConfirm(old)]
    <3>1. PICK to \in {"done", "count"} : CommitStep(n, r, "net", to)
      BY <1>5 DEF HandleCommit
    <3> QED
      BY <1>3, <1>4, <1>5, <2>2, <3>1, CommitPoolStepKeeps DEF HandleCommit
  <2> QED
    BY <1>5, <2>1, <2>2 DEF HandleCommit
<1>6. CASE CommitCount(n, r)
  <2>1. PICK to \in {"done", "reply"} : CommitStep(n, r, "count", to)
    BY <1>6 DEF CommitCount
  <2> QED
    BY <1>3, <1>4, <1>6, <2>1, CommitPoolStepKeeps DEF CommitCount
<1>7. CASE CommitReply(n, r)
  <2>1. PICK to : CommitStep(n, r, "reply", to)
    BY <1>7 DEF CommitReply
  <2>2. old.known
    BY <2>1 DEF IndInv, CommitHasSender, CommitStep
  <2>3. LET v == setReplySent(old)
        IN  /\ v \in RequestInfo /\ v.known
            /\ v.cntPrepareConfirm = old.cntPrepareConfirm
            /\ v.isCommitBroadcast = old.isCommitBroadcast
    BY <1>1, <2>2, FlagFields
  <2> QED
    BY <1>3, <1>7, <2>1, <2>3, CommitPoolStepKeeps DEF CommitReply
<1>8. CASE CommitAddon(n, r)
  BY <1>3, <1>8, CommitAdvances DEF CommitAddon
<1>9. CASE CommitBlock(n, r)
  BY <1>3, <1>9, CommitAdvances DEF CommitBlock
<1>10. CASE CommitStored(n, r)
  BY <1>3, <1>10, CommitAdvances DEF CommitStored, AfterCommitAddon
<1>11. CASE CommitRound(n, r)
  BY <1>3, <1>11, CommitAdvances DEF CommitRound
<1>12. CASE CommitNotify(n, r)
  BY <1>3, <1>12, CommitAdvances DEF CommitNotify
<1> QED
  BY <1>5, <1>6, <1>7, <1>8, <1>9, <1>10, <1>11, <1>12 DEF CommitHandler

\* The pool as handlePrePrepare may leave it: an entry may have been created.
PoolEnsured(n, r) ==
    \/ UNCHANGED requestPool
    \/ requestPool' = [requestPool EXCEPT ![n][r] =
                          EnsureRequestInfo(requestPool[n][r])]

LEMMA PoolEnsuredFields ==
    ASSUME IndInv, NEW n \in Node, NEW r \in Request, PoolEnsured(n, r),
           r \in Dispatched
    PROVE  /\ \A d \in Node, q \in Request :
                 /\ requestPool'[d][q].cntPrepareConfirm
                       = requestPool[d][q].cntPrepareConfirm
                 /\ requestPool'[d][q].isCommitBroadcast
                       = requestPool[d][q].isCommitBroadcast
                 /\ requestPool'[d][q].isReply = requestPool[d][q].isReply
                 /\ requestPool[d][q].known => requestPool'[d][q].known
                 /\ q # r => requestPool'[d][q] = requestPool[d][q]
           /\ MissingEntryIsEmpty'
<1>1. CASE UNCHANGED requestPool
  BY <1>1 DEF IndInv, MissingEntryIsEmpty
<1>2. CASE requestPool' = [requestPool EXCEPT ![n][r] =
                              EnsureRequestInfo(requestPool[n][r])]
  <2> DEFINE v == EnsureRequestInfo(requestPool[n][r])
  <2>1. /\ requestPool \in [Node -> [Request -> RequestInfo]]
        /\ requestPool[n][r] \in RequestInfo
        /\ ~requestPool[n][r].known => requestPool[n][r] = NoRequestInfo
    BY DEF IndInv, TypeOK, MissingEntryIsEmpty
  <2>2. /\ v \in RequestInfo /\ v.known
        /\ v.cntPrepareConfirm = requestPool[n][r].cntPrepareConfirm
        /\ v.isCommitBroadcast = requestPool[n][r].isCommitBroadcast
        /\ v.isReply = requestPool[n][r].isReply
    BY <2>1, EnsureFields, EnsureKeeps
  <2> HIDE DEF v
  <2>3. \A d \in Node, q \in Request : requestPool'[d][q] =
           IF d = n /\ q = r THEN v ELSE requestPool[d][q]
    BY <1>2, <2>1, <2>2, PutType DEF v
  <2> QED
    BY <2>2, <2>3 DEF IndInv, MissingEntryIsEmpty
<1> QED
  BY <1>1, <1>2 DEF PoolEnsured

\* A PrePrepare that is dropped, or that waits for the TBD execution.
LEMMA PrePrepareWaits ==
    ASSUME IndInv, NEW n \in Node, NEW r \in Request,
           prePrepare[n][r] = "net", NEW to \in {"dropped", "exec"},
           prePrepare' = [prePrepare EXCEPT ![n][r] = to],
           PoolEnsured(n, r),
           UNCHANGED <<block, requestQueue, prepare, commit>>, TypeOK'
    PROVE  IndInv'
<1>1. r \in Dispatched
  BY HandlersAreDispatched
<1>2. \A d \in Node, q \in Request :
         prePrepare'[d][q] = IF d = n /\ q = r THEN to ELSE prePrepare[d][q]
  BY DEF IndInv, TypeOK
<1>3. Dispatched' = Dispatched /\ Proposed' = Proposed
  BY <1>1, <1>2, NodeAssumption DEF Dispatched, Proposed
<1>4. \A q \in Request : Accepted(q)' = Accepted(q)
  BY <1>2 DEF Accepted
<1>5. UndispatchedIsUntouched'
  BY <1>1, <1>2, <1>3, PoolEnsuredFields DEF IndInv, UndispatchedIsUntouched
<1>6. QueueIsFresh'
  BY <1>3 DEF IndInv, QueueIsFresh
<1>7. MissingEntryIsEmpty'
  BY <1>1, PoolEnsuredFields
<1>8. VotesAreBacked'
  BY <1>1, <1>4, PoolEnsuredFields DEF IndInv, VotesAreBacked
<1>9. CommitterHasVotes'
  BY <1>1, PoolEnsuredFields DEF IndInv, CommitterHasVotes, Votes
<1>10. CommitHasSender'
  BY <1>1, PoolEnsuredFields DEF IndInv, CommitHasSender
<1> QED
  BY <1>5, <1>6, <1>7, <1>8, <1>9, <1>10 DEF IndInv

\* A PrePrepare that is accepted: the Prepare goes out.  The node joins
\* Accepted(r) in the step in which every other live node is sent its vote.
LEMMA PrePrepareAccepts ==
    ASSUME IndInv, NEW n \in Node, NEW r \in Request,
           prePrepare[n][r] \in {"net", "exec"},
           prePrepare' = [prePrepare EXCEPT ![n][r] = "done"],
           prepare' = Deliver(prepare, n, r),
           PoolEnsured(n, r),
           UNCHANGED <<block, requestQueue, commit>>, TypeOK'
    PROVE  IndInv'
<1>1. r \in Dispatched /\ TypeOK
  BY HandlersAreDispatched DEF IndInv
<1>2. \A d \in Node, q \in Request :
         prePrepare'[d][q] = IF d = n /\ q = r THEN "done" ELSE prePrepare[d][q]
  BY DEF IndInv, TypeOK
<1>3. Dispatched' = Dispatched /\ Proposed' = Proposed
  BY <1>1, <1>2, NodeAssumption DEF Dispatched, Proposed
<1>4. \A d \in Node, q \in Request, st \in PrepareStage :
         prepare'[d][q][st] = IF d \in Live \ {n} /\ q = r /\ st = "net"
                              THEN prepare[d][q][st] + 1 ELSE prepare[d][q][st]
  <2>1. "net" \in PrepareStage
        /\ prepare \in [Node -> [Request -> [PrepareStage -> Nat]]]
    BY <1>1 DEF PrepareStage, TypeOK
  <2> QED
    BY <2>1, DeliverType
<1>5. UndispatchedIsUntouched'
  BY <1>1, <1>2, <1>3, <1>4, PoolEnsuredFields DEF IndInv, UndispatchedIsUntouched
<1>6. QueueIsFresh'
  BY <1>3 DEF IndInv, QueueIsFresh
<1>7. MissingEntryIsEmpty'
  BY <1>1, PoolEnsuredFields
<1>8. VotesAreBacked'
  <2> SUFFICES ASSUME NEW d \in Node, NEW q \in Request
               PROVE  prepare'[d][q]["net"] + prepare'[d][q]["wait"]
                         + prepare'[d][q]["count"]
                         + requestPool'[d][q].cntPrepareConfirm
                      <= Cardinality(Accepted(q)' \ {d})
    BY DEF VotesAreBacked
  <2>1. prepare[d][q]["net"] + prepare[d][q]["wait"] + prepare[d][q]["count"]
           + requestPool[d][q].cntPrepareConfirm
        <= Cardinality(Accepted(q) \ {d})
    BY DEF IndInv, VotesAreBacked
  <2>2. /\ prepare[d][q]["net"] \in Nat /\ prepare[d][q]["wait"] \in Nat
        /\ prepare[d][q]["count"] \in Nat
        /\ requestPool[d][q].cntPrepareConfirm \in Nat
        /\ Cardinality(Accepted(q) \ {d}) \in Nat
        /\ IsFiniteSet(Accepted(q) \ {d})
    BY <1>1, BackersType, FieldTypes
  <2>3. requestPool'[d][q].cntPrepareConfirm = requestPool[d][q].cntPrepareConfirm
    BY <1>1, PoolEnsuredFields
  <2>4. {"net", "wait", "count"} \subseteq PrepareStage
    BY DEF PrepareStage
  <2>5. CASE q = r /\ d # n
    <3>1. Accepted(q)' \ {d} = (Accepted(q) \ {d}) \cup {n}
      BY <1>2, <2>5 DEF Accepted
    <3>2. n \notin Accepted(q) \ {d}
      BY <2>5 DEF Accepted
    <3>3. Cardinality(Accepted(q)' \ {d}) = Cardinality(Accepted(q) \ {d}) + 1
      BY <2>2, <3>1, <3>2, FS_AddElement
    <3>4. /\ prepare'[d][q]["net"] <= prepare[d][q]["net"] + 1
          /\ prepare'[d][q]["net"] \in Nat
          /\ prepare'[d][q]["wait"] = prepare[d][q]["wait"]
          /\ prepare'[d][q]["count"] = prepare[d][q]["count"]
      BY <1>4, <2>2, <2>4
    <3> QED
      BY <2>1, <2>2, <2>3, <3>3, <3>4
  <2>6. CASE ~(q = r /\ d # n)
    <3>1. Accepted(q)' \ {d} = Accepted(q) \ {d}
      BY <1>2, <2>6 DEF Accepted
    <3>2. /\ prepare'[d][q]["net"] = prepare[d][q]["net"]
          /\ prepare'[d][q]["wait"] = prepare[d][q]["wait"]
          /\ prepare'[d][q]["count"] = prepare[d][q]["count"]
      BY <1>4, <2>4, <2>6
    <3> QED
      BY <2>1, <2>3, <3>1, <3>2
  <2> QED
    BY <2>5, <2>6
<1>9. CommitterHasVotes'
  <2>1. \A d \in Node, q \in Request :
           prepare'[d][q]["bcast"] = prepare[d][q]["bcast"]
    BY <1>4 DEF PrepareStage
  <2> QED
    BY <1>1, <2>1, PoolEnsuredFields DEF IndInv, CommitterHasVotes, Votes
<1>10. CommitHasSender'
  BY <1>1, PoolEnsuredFields DEF IndInv, CommitHasSender
<1> QED
  BY <1>5, <1>6, <1>7, <1>8, <1>9, <1>10 DEF IndInv

LEMMA ProposeEnqueueKeeps ==
    ASSUME IndInv, NEW r \in Request, ProposeEnqueue(r), TypeOK'
    PROVE  IndInv'
<1>1. /\ r \notin Proposed
      /\ requestQueue' = Append(requestQueue, r)
      /\ requestPool' = [requestPool EXCEPT ![View][r] = NewRequestInfo]
      /\ UNCHANGED <<prePrepare, prepare, commit>>
  BY DEF ProposeEnqueue
<1>2. TypeOK /\ View \in Node
  BY NodeAssumption DEF IndInv
<1>3. r \notin Dispatched /\ Dispatched' = Dispatched
  BY <1>1 DEF IndInv, QueueIsFresh, Dispatched
<1>4. Proposed' = Proposed \cup {r}
  <2>1. CurrentBlock(View) \in Request \cup {Genesis}
    BY <1>2, CurrentBlockType
  <2>2. Height(CurrentBlock(View)) \in Nat
    BY <1>2, <2>1 DEF Height, TypeOK
  <2>3. \A q \in Request : block'[q].height =
           IF q = r THEN Height(CurrentBlock(View)) + 1 ELSE block[q].height
    BY <1>2 DEF ProposeEnqueue, TypeOK
  <2> QED
    BY <2>2, <2>3 DEF Proposed
<1>5. NewRequestInfo \in RequestInfo
  BY DEF NewRequestInfo, RequestInfo
<1>6. \A d \in Node, q \in Request : requestPool'[d][q] =
         IF d = View /\ q = r THEN NewRequestInfo ELSE requestPool[d][q]
  BY <1>1, <1>2, <1>5, PutType DEF TypeOK
<1>7. requestPool[View][r] \in {NoRequestInfo, NewRequestInfo}
  BY <1>2, <1>3 DEF IndInv, UndispatchedIsUntouched
<1>8. \A d \in Node, q \in Request :
         /\ requestPool'[d][q].cntPrepareConfirm = requestPool[d][q].cntPrepareConfirm
         /\ requestPool'[d][q].isCommitBroadcast = requestPool[d][q].isCommitBroadcast
         /\ requestPool'[d][q].isReply = requestPool[d][q].isReply
         /\ requestPool[d][q].known => requestPool'[d][q].known
  <2>1. /\ NewRequestInfo.cntPrepareConfirm = 0 /\ ~NewRequestInfo.isCommitBroadcast
        /\ ~NewRequestInfo.isReply /\ NewRequestInfo.known
        /\ NewRequestInfo.isCommitBroadcast = FALSE
        /\ NewRequestInfo.isReply = FALSE
        /\ NoRequestInfo.cntPrepareConfirm = 0
        /\ NoRequestInfo.isCommitBroadcast = FALSE
        /\ NoRequestInfo.isReply = FALSE
    BY DEF NewRequestInfo, NoRequestInfo
  <2> QED
    BY <1>6, <1>7, <2>1
<1>9. UndispatchedIsUntouched'
  BY <1>1, <1>3, <1>6 DEF IndInv, UndispatchedIsUntouched
<1>10. QueueIsFresh'
  <2>1. /\ requestQueue \in Seq(Request)
        /\ Len(requestQueue') = Len(requestQueue) + 1
        /\ requestQueue'[Len(requestQueue) + 1] = r
        /\ \A i \in 1..Len(requestQueue) : requestQueue'[i] = requestQueue[i]
    <3>1. requestQueue \in Seq(Request)
      BY <1>2 DEF TypeOK
    <3> QED
      BY <1>1, <3>1, AppendProperties
  <2>2. \A i \in 1..Len(requestQueue) : requestQueue[i] # r
    BY <1>1 DEF IndInv, QueueIsFresh
  <2>3. \A i \in 1..Len(requestQueue') :
           i = Len(requestQueue) + 1 \/ i \in 1..Len(requestQueue)
    BY <2>1
  <2>4. \A i \in 1..Len(requestQueue') :
           requestQueue'[i] \in Proposed' \ Dispatched'
    BY <1>3, <1>4, <2>1, <2>3 DEF IndInv, QueueIsFresh
  <2>5. \A i, j \in 1..Len(requestQueue') :
           requestQueue'[i] = requestQueue'[j] => i = j
    BY <2>1, <2>2, <2>3 DEF IndInv, QueueIsFresh
  <2>6. (Dispatched \subseteq Proposed)'
    BY <1>3, <1>4 DEF IndInv, QueueIsFresh
  <2> QED
    BY <2>4, <2>5, <2>6 DEF QueueIsFresh
<1>11. MissingEntryIsEmpty'
  BY <1>6 DEF IndInv, MissingEntryIsEmpty, NewRequestInfo
<1>12. VotesAreBacked'
  BY <1>1, <1>8 DEF IndInv, VotesAreBacked, Accepted
<1>13. CommitterHasVotes'
  BY <1>1, <1>8 DEF IndInv, CommitterHasVotes, Votes
<1>14. CommitHasSender'
  BY <1>1, <1>8 DEF IndInv, CommitHasSender
<1> QED
  BY <1>9, <1>10, <1>11, <1>12, <1>13, <1>14 DEF IndInv

LEMMA RunDispatchKeeps ==
    ASSUME IndInv, RunDispatch, TypeOK'
    PROVE  IndInv'
<1> DEFINE r == Head(requestQueue)
<1>1. /\ requestQueue # <<>>
      /\ prePrepare' = [n \in Node |-> [prePrepare[n] EXCEPT
                            ![r] = IF n \in Live THEN "net" ELSE @]]
      /\ requestQueue' = Tail(requestQueue)
      /\ UNCHANGED <<block, requestPool, prepare, commit>>
  BY DEF RunDispatch, proposeVars
<1>2. TypeOK /\ View \in Node /\ View \in Live /\ requestQueue \in Seq(Request)
  BY NodeAssumption DEF IndInv, Live, TypeOK
<1>3. r = requestQueue[1] /\ r \in Request /\ Len(requestQueue) >= 1
  BY <1>1, <1>2
<1> HIDE DEF r
<1>4. r \in Proposed /\ r \notin Dispatched
  BY <1>2, <1>3 DEF IndInv, QueueIsFresh
<1>5. \A d \in Node, q \in Request : prePrepare'[d][q] =
         IF q = r /\ d \in Live THEN "net" ELSE prePrepare[d][q]
  BY <1>1, <1>2, <1>3 DEF TypeOK
<1>6. Dispatched' = Dispatched \cup {r} /\ Proposed' = Proposed
  BY <1>1, <1>2, <1>3, <1>5 DEF Dispatched, Proposed
<1>7. \A q \in Request : Accepted(q)' = Accepted(q)
  <2>1. \A d \in Node : prePrepare[d][r] = "unsent"
    BY <1>3, <1>4 DEF IndInv, UndispatchedIsUntouched
  <2> QED
    BY <1>5, <2>1 DEF Accepted
<1>8. UndispatchedIsUntouched'
  BY <1>1, <1>5, <1>6 DEF IndInv, UndispatchedIsUntouched
<1>9. QueueIsFresh'
  <2>1. /\ Len(requestQueue') = Len(requestQueue) - 1
        /\ \A i \in 1..Len(requestQueue') :
              requestQueue'[i] = requestQueue[i + 1]
                /\ i + 1 \in 1..Len(requestQueue) /\ i + 1 # 1
    BY <1>1, <1>2
  <2>2. 1 \in 1..Len(requestQueue)
    BY <1>2, <1>3
  <2>3. \A i \in 1..Len(requestQueue') : requestQueue'[i] # r
    BY <1>3, <2>1, <2>2 DEF IndInv, QueueIsFresh
  <2>4. \A i \in 1..Len(requestQueue') :
           requestQueue'[i] \in Proposed' \ Dispatched'
    BY <1>6, <2>1, <2>3 DEF IndInv, QueueIsFresh
  <2>5. \A i, j \in 1..Len(requestQueue') :
           requestQueue'[i] = requestQueue'[j] => i = j
    BY <2>1 DEF IndInv, QueueIsFresh
  <2>6. (Dispatched \subseteq Proposed)'
    BY <1>4, <1>6 DEF IndInv, QueueIsFresh
  <2> QED
    BY <2>4, <2>5, <2>6 DEF QueueIsFresh
<1>10. MissingEntryIsEmpty' /\ CommitHasSender' /\ CommitterHasVotes'
  BY <1>1 DEF IndInv, MissingEntryIsEmpty, CommitHasSender, CommitterHasVotes,
              Votes
<1>11. VotesAreBacked'
  BY <1>1, <1>7 DEF IndInv, VotesAreBacked
<1> QED
  BY <1>8, <1>9, <1>10, <1>11 DEF IndInv

\* A step that leaves the variables of the invariant alone.
LEMMA OtherStepKeeps ==
    ASSUME IndInv, TypeOK',
           UNCHANGED <<block, requestQueue, requestPool, prePrepare, prepare, commit>>
    PROVE  IndInv'
<1>1. UndispatchedIsUntouched' /\ QueueIsFresh' /\ MissingEntryIsEmpty'
  BY DEF IndInv, UndispatchedIsUntouched, QueueIsFresh, MissingEntryIsEmpty,
         Dispatched, Proposed
<1>2. VotesAreBacked' /\ CommitterHasVotes' /\ CommitHasSender'
  BY DEF IndInv, VotesAreBacked, CommitterHasVotes, CommitHasSender, Accepted,
         Votes
<1> QED
  BY <1>1, <1>2 DEF IndInv

LEMMA IndNext == IndInv /\ [Next]_vars => IndInv'
<1> SUFFICES ASSUME IndInv, [Next]_vars PROVE IndInv'
  OBVIOUS
<1> USE DEF proposeVars, runVars, addonVars
<1>0. TypeOK'
  BY TypeNext DEF IndInv
<1>1. CASE ProposeRead
  BY <1>0, <1>1, OtherStepKeeps DEF ProposeRead
<1>2. ASSUME NEW r \in Request, ProposeEnqueue(r) PROVE IndInv'
  BY <1>0, <1>2, ProposeEnqueueKeeps
<1>3. CASE RunDispatch
  BY <1>0, <1>3, RunDispatchKeeps
<1>4. CASE RunWait
  BY <1>0, <1>4, OtherStepKeeps DEF RunWait
<1>5. CASE RunStop
  BY <1>0, <1>5, OtherStepKeeps DEF RunStop
<1>6. ASSUME NEW n \in Node, NEW r \in Request, HandlePrePrepare(n, r)
      PROVE  IndInv'
  <2>1. PoolEnsured(n, r) /\ UNCHANGED <<block, requestQueue, commit>>
    BY <1>6 DEF HandlePrePrepare, PoolEnsured
  <2>2. CASE prePrepare' = [prePrepare EXCEPT ![n][r] = "dropped"] /\ UNCHANGED prepare
    BY <1>0, <1>6, <2>1, <2>2, PrePrepareWaits DEF HandlePrePrepare
  <2>3. CASE prePrepare' = [prePrepare EXCEPT ![n][r] = "exec"] /\ UNCHANGED prepare
    BY <1>0, <1>6, <2>1, <2>3, PrePrepareWaits DEF HandlePrePrepare
  <2>4. CASE /\ prePrepare' = [prePrepare EXCEPT ![n][r] = "done"]
             /\ prepare' = Deliver(prepare, n, r)
    BY <1>0, <1>6, <2>1, <2>4, PrePrepareAccepts DEF HandlePrePrepare
  <2> QED
    BY <1>6, <2>2, <2>3, <2>4 DEF HandlePrePrepare
<1>7. ASSUME NEW n \in Node, NEW r \in Request, ExecPrePrepare(n, r)
      PROVE  IndInv'
  <2>1. PoolEnsured(n, r)
    BY <1>7 DEF ExecPrePrepare, PoolEnsured
  <2> QED
    BY <1>0, <1>7, <2>1, PrePrepareAccepts DEF ExecPrePrepare
<1>8. ASSUME NEW n \in Node, NEW r \in Request, PrepareHandler(n, r)
      PROVE  IndInv'
  <2>1. CASE HandlePrepare(n, r)
    <3>1. PICK to \in {"wait", "count", "done"} : PrepareStep(n, r, "net", to)
      BY <2>1 DEF HandlePrepare, AfterPrepareAddon
    <3> QED
      BY <1>0, <2>1, <3>1, PrepareAdvances DEF HandlePrepare
  <2>2. CASE PrepareWait(n, r)
    <3>1. PICK to \in {"wait", "count", "done"} : PrepareStep(n, r, "wait", to)
      BY <2>2 DEF PrepareWait, AfterPrepareAddon
    <3> QED
      BY <1>0, <2>2, <3>1, PrepareAdvances DEF PrepareWait
  <2> QED
    BY <1>0, <1>8, <2>1, <2>2, PrepareCountKeeps, PrepareBroadcastKeeps
       DEF PrepareHandler
<1>9. ASSUME NEW n \in Node, NEW r \in Request, CommitHandler(n, r)
      PROVE  IndInv'
  BY <1>0, <1>9, CommitHandlerKeeps
<1>10. CASE UNCHANGED vars
  BY <1>0, <1>10, OtherStepKeeps DEF vars
<1> QED
  BY <1>1, <1>2, <1>3, <1>4, <1>5, <1>6, <1>7, <1>8, <1>9, <1>10
     DEF Next, SystemStep

\* The inductive invariant holds in every shard: the votes handlePrepare
\* counts are backed by nodes, and no pool entry is created over votes.
THEOREM Invariance == Spec => []IndInv
BY IndInit, IndNext, PTL DEF Spec

-----------------------------------------------------------------------------
(* The certificates.                                                       *)

LEMMA IndImpliesPrepareCertificate == IndInv => PrepareCertificate
<1> SUFFICES ASSUME IndInv, NEW n \in Node, NEW r \in Request,
                    requestPool[n][r].isCommitBroadcast
             PROVE  Cardinality(Accepted(r) \ {n}) >= Votes[n]
  BY DEF PrepareCertificate
<1>1. requestPool[n][r].cntPrepareConfirm >= Votes[n]
  BY DEF IndInv, CommitterHasVotes
<1>2. prepare[n][r]["net"] + prepare[n][r]["wait"] + prepare[n][r]["count"]
         + requestPool[n][r].cntPrepareConfirm
      <= Cardinality(Accepted(r) \ {n})
  BY DEF IndInv, VotesAreBacked
<1>3. /\ prepare[n][r]["net"] \in Nat /\ prepare[n][r]["wait"] \in Nat
      /\ prepare[n][r]["count"] \in Nat
      /\ requestPool[n][r].cntPrepareConfirm \in Nat
      /\ Cardinality(Accepted(r) \ {n}) \in Nat
      /\ Votes[n] \in Int
  BY BackersType, FieldTypes, VotesType DEF IndInv
<1> QED
  BY <1>1, <1>2, <1>3

\* handlePrepare counts messages without looking at their senders, yet for
\* every shard a node broadcasts its Commit only when 2f (2f - 1 at a backup)
\* different other nodes have accepted the request.
THEOREM PrepareCertified == Spec => []PrepareCertificate
BY Invariance, IndImpliesPrepareCertificate, PTL

LEMMA IndImpliesDecisionCertificate == IndInv => DecisionCertificate
<1> SUFFICES ASSUME IndInv, NEW n \in Node, NEW r \in Request,
                    requestPool[n][r].isReply
             PROVE  /\ r \in Dispatched
                    /\ \E m \in Node \ {n} :
                          /\ requestPool[m][r].isCommitBroadcast
                          /\ Cardinality(Accepted(r) \ {m}) >= Votes[m]
  BY DEF DecisionCertificate
<1>1. ~NoRequestInfo.isReply /\ ~NewRequestInfo.isReply
  BY DEF NoRequestInfo, NewRequestInfo
<1>2. r \in Dispatched
  BY <1>1 DEF IndInv, UndispatchedIsUntouched
<1>3. PICK m \in Node \ {n} : requestPool[m][r].isCommitBroadcast
  BY DEF IndInv, CommitHasSender
<1>4. Cardinality(Accepted(r) \ {m}) >= Votes[m]
  BY <1>3, IndImpliesPrepareCertificate DEF PrepareCertificate
<1> QED
  BY <1>2, <1>3, <1>4

\* A node sets isReply (handleCommit) only for a request the view node has
\* dispatched and to which another node, holding a prepare certificate, has
\* committed.
THEOREM DecisionCertified == Spec => []DecisionCertificate
BY Invariance, IndImpliesDecisionCertificate, PTL

-----------------------------------------------------------------------------
(* No vote is lost, and the refinement.                                    *)

\* The entry of a request in the pool of a node after a step.
Grows(old, new) ==
    /\ new.cntPrepareConfirm >= old.cntPrepareConfirm
    /\ new.cntCommitConfirm >= old.cntCommitConfirm
    /\ old.isCommitBroadcast => new.isCommitBroadcast
    /\ old.isReply => new.isReply

LEMMA GrowsReflexive ==
    ASSUME TypeOK, NEW n \in Node, NEW r \in Request
    PROVE  Grows(requestPool[n][r], requestPool[n][r])
BY FieldTypes DEF Grows

\* The possible updates of an entry, each with what it adds.
LEMMA UpdatesGrow ==
    ASSUME IndInv, NEW n \in Node, NEW r \in Request
    PROVE  LET old == requestPool[n][r]
           IN  /\ Grows(old, EnsureRequestInfo(old))
               /\ Grows(old, addPrepareConfirm(old))
               /\ Grows(old, addCommitConfirm(old))
               /\ Grows(old, setCommitBroadcasted(old))
               /\ Grows(old, setReplySent(old))
<1> DEFINE old == requestPool[n][r]
<1>1. /\ old \in RequestInfo
      /\ old.cntPrepareConfirm \in Nat /\ old.cntCommitConfirm \in Nat
  BY FieldTypes DEF IndInv
<1>2. ~old.known => old = NoRequestInfo
  BY DEF IndInv, MissingEntryIsEmpty
<1> HIDE DEF old
<1>3. Grows(old, EnsureRequestInfo(old))
  BY <1>1, <1>2, EnsureKeeps DEF Grows
<1>4. Grows(old, addPrepareConfirm(old)) /\ Grows(old, addCommitConfirm(old))
  BY <1>1, <1>2, EnsureKeeps, PrepareConfirmFields, CommitConfirmFields DEF Grows
<1>5. Grows(old, setCommitBroadcasted(old)) /\ Grows(old, setReplySent(old))
  BY <1>1, FlagFields DEF Grows
<1> QED
  BY <1>3, <1>4, <1>5 DEF old

\* Every step leaves the pool alone or updates one entry, and it grows.
LEMMA StepGrows ==
    ASSUME IndInv, [Next]_vars
    PROVE  \A n \in Node :
              /\ currentRound'[n] >= currentRound[n]
              /\ \A r \in Request : Grows(requestPool[n][r], requestPool'[n][r])
<1> USE DEF proposeVars, runVars, addonVars
<1>0. /\ TypeOK /\ View \in Node
      /\ requestPool \in [Node -> [Request -> RequestInfo]]
      /\ currentRound \in [Node -> Nat]
  BY NodeAssumption DEF IndInv, TypeOK
<1>1. \A n \in Node : currentRound'[n] >= currentRound[n]
  <2>1. CASE UNCHANGED currentRound
    BY <1>0, <2>1
  <2>2. CASE \E n \in Node : currentRound' =
                [currentRound EXCEPT ![n] = IncCurrentRound(@)]
    BY <1>0, <2>2 DEF IncCurrentRound
  <2>3. ASSUME NEW n \in Node, NEW r \in Request,
               \/ HandlePrePrepare(n, r) \/ ExecPrePrepare(n, r)
               \/ PrepareHandler(n, r) \/ CommitHandler(n, r)
        PROVE  \/ UNCHANGED currentRound
               \/ currentRound' = [currentRound EXCEPT ![n] = IncCurrentRound(@)]
    BY <2>3 DEF HandlePrePrepare, ExecPrePrepare, PrepareHandler, HandlePrepare,
         PrepareWait, PrepareCount, PrepareBroadcast, CommitHandler, HandleCommit,
         CommitCount, CommitReply, CommitAddon, CommitBlock, CommitStored,
         CommitRound, CommitNotify
  <2> QED
    BY <2>1, <2>2, <2>3 DEF Next, SystemStep, ProposeRead, ProposeEnqueue,
       RunDispatch, RunWait, RunStop, vars
<1>2. ASSUME NEW n \in Node, NEW r \in Request
      PROVE  Grows(requestPool[n][r], requestPool'[n][r])
  <2>1. CASE UNCHANGED requestPool
    BY <1>0, <2>1, GrowsReflexive
  <2>2. ASSUME NEW d \in Node, NEW q \in Request, NEW v,
               Grows(requestPool[d][q], v),
               requestPool' = [requestPool EXCEPT ![d][q] = v]
        PROVE  Grows(requestPool[n][r], requestPool'[n][r])
    <3>1. requestPool'[n][r] = IF n = d /\ r = q THEN v ELSE requestPool[n][r]
      BY <1>0, <2>2
    <3> QED
      BY <1>0, <2>2, <3>1, GrowsReflexive
  <2>3. ASSUME NEW q \in Request, ProposeEnqueue(q)
        PROVE  Grows(requestPool[n][r], requestPool'[n][r])
    <3>1. q \notin Dispatched
      BY <2>3 DEF ProposeEnqueue, IndInv, QueueIsFresh
    <3>2. requestPool[View][q] \in {NoRequestInfo, NewRequestInfo}
      BY <1>0, <3>1 DEF IndInv, UndispatchedIsUntouched
    <3>3. Grows(requestPool[View][q], NewRequestInfo)
      BY <3>2 DEF Grows, NoRequestInfo, NewRequestInfo
    <3> QED
      BY <1>0, <2>2, <2>3, <3>3 DEF ProposeEnqueue
  <2>4. ASSUME NEW d \in Node, NEW q \in Request,
               HandlePrePrepare(d, q) \/ ExecPrePrepare(d, q)
        PROVE  Grows(requestPool[n][r], requestPool'[n][r])
    BY <2>1, <2>2, <2>4, UpdatesGrow DEF HandlePrePrepare, ExecPrePrepare
  <2>5. ASSUME NEW d \in Node, NEW q \in Request, PrepareHandler(d, q)
        PROVE  Grows(requestPool[n][r], requestPool'[n][r])
    BY <2>1, <2>2, <2>5, UpdatesGrow DEF PrepareHandler, HandlePrepare,
       PrepareWait, PrepareCount, PrepareBroadcast
  <2>6. ASSUME NEW d \in Node, NEW q \in Request, CommitHandler(d, q)
        PROVE  Grows(requestPool[n][r], requestPool'[n][r])
    BY <2>1, <2>2, <2>6, UpdatesGrow DEF CommitHandler, HandleCommit, CommitCount,
       CommitReply, CommitAddon, CommitBlock, CommitStored, CommitRound,
       CommitNotify
  <2> QED
    BY <2>1, <2>3, <2>4, <2>5, <2>6 DEF Next, SystemStep, ProposeRead,
       RunDispatch, RunWait, RunStop, vars
<1> QED
  BY <1>1, <1>2

\* The pool of a node never loses a vote or a flag, although handlePropose
\* and handlePrePrepare store fresh entries in it.
THEOREM NoVoteLost == Spec => VotesNeverLost
<1>1. IndInv /\ [Next]_vars =>
         [\A n \in Node :
             /\ currentRound'[n] >= currentRound[n]
             /\ \A r \in Request :
                   LET old == requestPool[n][r]
                       new == requestPool'[n][r]
                   IN  /\ new.cntPrepareConfirm >= old.cntPrepareConfirm
                       /\ new.cntCommitConfirm >= old.cntCommitConfirm
                       /\ old.isCommitBroadcast => new.isCommitBroadcast
                       /\ old.isReply => new.isReply]_vars
  BY StepGrows DEF Grows
<1> QED
  BY <1>1, Invariance, PTL DEF Spec, VotesNeverLost

-----------------------------------------------------------------------------
(* The handlers implement ShardConsensus.  The inductive invariant is what *)
(* lets a step be mapped: a node that broadcasts its Commit has counted    *)
(* votes, and VotesAreBacked turns the count into a set of nodes.          *)

Committed(r) == {n \in Node : requestPool[n][r].isCommitBroadcast}
Decided(r) == {n \in Node : requestPool[n][r].isReply}

SameAccepted == \A q \in Request : Accepted(q)' = Accepted(q)
SameCommitted == \A q \in Request : Committed(q)' = Committed(q)
SameDecided == \A q \in Request : Decided(q)' = Decided(q)
SameQueue == UNCHANGED <<requestQueue, Dispatched>>

\* The abstract state, written with the operators above.
LEMMA Mapping ==
    /\ SameAccepted => UNCHANGED [r \in Request |-> Accepted(r)]
    /\ SameCommitted => UNCHANGED [r \in Request |->
                           {n \in Node : requestPool[n][r].isCommitBroadcast}]
    /\ SameDecided => UNCHANGED [r \in Request |->
                           {n \in Node : requestPool[n][r].isReply}]
BY DEF SameAccepted, SameCommitted, SameDecided, Committed, Decided

\* A step that changes none of the five mapped variables.
LEMMA StutterMaps ==
    ASSUME SameQueue, SameAccepted, SameCommitted, SameDecided
    PROVE  UNCHANGED Abstract!vars
BY Mapping DEF SameQueue, Abstract!vars

LEMMA RefineInit == Init => Abstract!Init
<1> SUFFICES ASSUME Init PROVE Abstract!Init
  OBVIOUS
<1>1. View \in Node
  BY NodeAssumption
<1>2. Dispatched = {} /\ \A r \in Request : Accepted(r) = {}
  BY <1>1 DEF Init, Dispatched, Accepted
<1>3. \A n \in Node, r \in Request : /\ ~requestPool[n][r].isCommitBroadcast
                                     /\ ~requestPool[n][r].isReply
  BY DEF Init, NoRequestInfo
<1> QED
  BY <1>2, <1>3 DEF Init, Abstract!Init

-----------------------------------------------------------------------------
(* How an update of one pool entry shows in the abstract state.            *)

LEMMA FlagsKept ==
    ASSUME IndInv, NEW n \in Node, NEW r \in Request, NEW v \in RequestInfo,
           requestPool' = [requestPool EXCEPT ![n][r] = v]
    PROVE  /\ v.isCommitBroadcast = requestPool[n][r].isCommitBroadcast
                 => SameCommitted
           /\ v.isReply = requestPool[n][r].isReply => SameDecided
           /\ v.isCommitBroadcast => \A q \in Request : Committed(q)' =
                 IF q = r THEN Committed(q) \cup {n} ELSE Committed(q)
           /\ v.isReply => \A q \in Request : Decided(q)' =
                 IF q = r THEN Decided(q) \cup {n} ELSE Decided(q)
<1>1. \A d \in Node, q \in Request : requestPool'[d][q] =
         IF d = n /\ q = r THEN v ELSE requestPool[d][q]
  <2>1. requestPool \in [Node -> [Request -> RequestInfo]]
    BY DEF IndInv, TypeOK
  <2> QED
    BY <2>1, PutType
<1> QED
  BY <1>1 DEF SameCommitted, SameDecided, Committed, Decided

LEMMA PoolSame ==
    ASSUME UNCHANGED requestPool
    PROVE  SameCommitted /\ SameDecided
BY DEF SameCommitted, SameDecided, Committed, Decided

LEMMA PrePrepareSame ==
    ASSUME UNCHANGED prePrepare
    PROVE  SameAccepted /\ UNCHANGED Dispatched
BY DEF SameAccepted, Accepted, Dispatched

\* Creating an entry or counting a vote shows nowhere.
LEMMA CountingIsInvisible ==
    ASSUME IndInv, NEW n \in Node, NEW r \in Request,
           \E v \in {EnsureRequestInfo(requestPool[n][r]),
                     addPrepareConfirm(requestPool[n][r]),
                     addCommitConfirm(requestPool[n][r])} :
              requestPool' = [requestPool EXCEPT ![n][r] = v]
    PROVE  SameCommitted /\ SameDecided
<1> DEFINE info == requestPool[n][r]
<1>1. info \in RequestInfo /\ (~info.known => info = NoRequestInfo)
  BY FieldTypes DEF IndInv, MissingEntryIsEmpty
<1>2. PICK v \in {EnsureRequestInfo(info), addPrepareConfirm(info),
                  addCommitConfirm(info)} :
         requestPool' = [requestPool EXCEPT ![n][r] = v]
  OBVIOUS
<1> HIDE DEF info
<1>3. /\ v \in RequestInfo
      /\ v.isCommitBroadcast = info.isCommitBroadcast
      /\ v.isReply = info.isReply
  BY <1>1, <1>2, EnsureFields, EnsureKeeps, PrepareConfirmFields,
     CommitConfirmFields
<1> QED
  BY <1>2, <1>3, FlagsKept DEF info

-----------------------------------------------------------------------------
(* The steps that show.                                                    *)

LEMMA SubmitMaps ==
    ASSUME IndInv, NEW r \in Request, ProposeEnqueue(r)
    PROVE  Abstract!Submit(r)
<1>1. /\ r \notin Proposed
      /\ requestQueue' = Append(requestQueue, r)
      /\ requestPool' = [requestPool EXCEPT ![View][r] = NewRequestInfo]
      /\ UNCHANGED prePrepare
  BY DEF ProposeEnqueue
<1>2. r \notin Dispatched /\ ~Abstract!Queued(r)
  BY <1>1 DEF IndInv, QueueIsFresh, Abstract!Queued
<1>3. View \in Node
  BY NodeAssumption
<1>4. requestPool[View][r] \in {NoRequestInfo, NewRequestInfo}
  BY <1>2, <1>3 DEF IndInv, UndispatchedIsUntouched
<1>5. /\ NewRequestInfo \in RequestInfo
      /\ NewRequestInfo.isCommitBroadcast = requestPool[View][r].isCommitBroadcast
      /\ NewRequestInfo.isReply = requestPool[View][r].isReply
  <2>1. /\ NewRequestInfo \in RequestInfo
        /\ NewRequestInfo.isCommitBroadcast = NoRequestInfo.isCommitBroadcast
        /\ NewRequestInfo.isReply = NoRequestInfo.isReply
    BY DEF NewRequestInfo, NoRequestInfo, RequestInfo
  <2> QED
    BY <1>4, <2>1
<1>6. SameCommitted /\ SameDecided
  BY <1>1, <1>3, <1>5, FlagsKept
<1>7. SameAccepted /\ UNCHANGED Dispatched
  BY <1>1, PrePrepareSame
<1> QED
  BY <1>1, <1>2, <1>6, <1>7, Mapping DEF Abstract!Submit

LEMMA DispatchMaps ==
    ASSUME IndInv, RunDispatch
    PROVE  Abstract!Dispatch
<1> DEFINE r == Head(requestQueue)
<1>1. /\ requestQueue # <<>>
      /\ prePrepare' = [n \in Node |-> [prePrepare[n] EXCEPT
                            ![r] = IF n \in Live THEN "net" ELSE @]]
      /\ requestQueue' = Tail(requestQueue)
      /\ UNCHANGED requestPool
  BY DEF RunDispatch
<1>2. TypeOK /\ View \in Node /\ View \in Live /\ requestQueue \in Seq(Request)
  BY NodeAssumption DEF IndInv, Live, TypeOK
<1>3. r = requestQueue[1] /\ r \in Request /\ Len(requestQueue) >= 1
  BY <1>1, <1>2
<1> HIDE DEF r
<1>4. r \notin Dispatched
  BY <1>2, <1>3 DEF IndInv, QueueIsFresh
<1>5. \A d \in Node, q \in Request : prePrepare'[d][q] =
         IF q = r /\ d \in Live THEN "net" ELSE prePrepare[d][q]
  BY <1>1, <1>2, <1>3 DEF TypeOK
<1>6. Dispatched' = Dispatched \cup {r}
  BY <1>2, <1>3, <1>5 DEF Dispatched
<1>7. \A d \in Node : prePrepare[d][r] = "unsent"
  BY <1>3, <1>4 DEF IndInv, UndispatchedIsUntouched
<1>8. SameAccepted
  BY <1>5, <1>7 DEF SameAccepted, Accepted
<1>9. SameCommitted /\ SameDecided
  BY <1>1, PoolSame
<1> QED
  BY <1>1, <1>4, <1>6, <1>8, <1>9, Mapping DEF Abstract!Dispatch, r

LEMMA AcceptMaps ==
    ASSUME IndInv, NEW n \in Node, NEW r \in Request,
           prePrepare[n][r] \in {"net", "exec"},
           prePrepare' = [prePrepare EXCEPT ![n][r] = "done"],
           PoolEnsured(n, r), UNCHANGED requestQueue
    PROVE  Abstract!Accept(n, r)
<1>1. \A d \in Node, q \in Request :
         prePrepare'[d][q] = IF d = n /\ q = r THEN "done" ELSE prePrepare[d][q]
  BY DEF IndInv, TypeOK
<1>2. r \in Dispatched
  BY DEF IndInv, UndispatchedIsUntouched
<1>3. UNCHANGED Dispatched
  BY <1>1, <1>2, NodeAssumption DEF Dispatched
<1>4. n \notin Accepted(r) /\ \A q \in Request : Accepted(q)' =
         IF q = r THEN Accepted(q) \cup {n} ELSE Accepted(q)
  BY <1>1 DEF Accepted
<1>5. SameCommitted /\ SameDecided
  BY PoolSame, CountingIsInvisible DEF PoolEnsured
<1>6. [q \in Request |-> Accepted(q)]' =
         [[q \in Request |-> Accepted(q)] EXCEPT ![r] = @ \cup {n}]
  BY <1>4
<1> QED
  BY <1>2, <1>3, <1>4, <1>5, <1>6, Mapping DEF Abstract!Accept

LEMMA CommitMaps ==
    ASSUME IndInv, NEW n \in Node, NEW r \in Request, PrepareBroadcast(n, r)
    PROVE  Abstract!Commit(n, r)
<1>1. /\ prepare[n][r]["bcast"] > 0
      /\ requestPool' = [requestPool EXCEPT ![n][r] =
                            setCommitBroadcasted(requestPool[n][r])]
      /\ UNCHANGED <<requestQueue, prePrepare>>
  BY DEF PrepareBroadcast, PrepareStep, IndInv, TypeOK, runVars
<1>2. requestPool[n][r].cntPrepareConfirm >= Votes[n]
  BY <1>1 DEF IndInv, CommitterHasVotes
<1>3. prepare[n][r]["net"] + prepare[n][r]["wait"] + prepare[n][r]["count"]
         + requestPool[n][r].cntPrepareConfirm
      <= Cardinality(Accepted(r) \ {n})
  BY DEF IndInv, VotesAreBacked
<1>4. /\ prepare[n][r]["net"] \in Nat /\ prepare[n][r]["wait"] \in Nat
      /\ prepare[n][r]["count"] \in Nat
      /\ requestPool[n][r].cntPrepareConfirm \in Nat
      /\ Cardinality(Accepted(r) \ {n}) \in Nat
      /\ Votes[n] \in Int
  BY BackersType, FieldTypes, VotesType DEF IndInv
<1>5. Cardinality(Accepted(r) \ {n}) >= Votes[n]
  BY <1>2, <1>3, <1>4
<1> DEFINE v == setCommitBroadcasted(requestPool[n][r])
<1>6. /\ v \in RequestInfo /\ v.isCommitBroadcast
      /\ v.isReply = requestPool[n][r].isReply
  BY FieldTypes, FlagFields DEF IndInv
<1>7. SameDecided /\ \A q \in Request : Committed(q)' =
         IF q = r THEN Committed(q) \cup {n} ELSE Committed(q)
  BY <1>1, <1>6, FlagsKept
<1>8. [q \in Request |-> Committed(q)]' =
         [[q \in Request |-> Committed(q)] EXCEPT ![r] = @ \cup {n}]
  BY <1>7
<1>9. SameAccepted /\ UNCHANGED Dispatched
  BY <1>1, PrePrepareSame
<1>10. Abstract!Cardinality([q \in Request |-> Accepted(q)][r] \ {n}) >= Votes[n]
  <2>1. ASSUME NEW S PROVE Abstract!Cardinality(S) = Cardinality(S)
    BY DEF Abstract!Cardinality, Cardinality
  <2> QED
    BY <1>5, <2>1
<1>11. UNCHANGED <<requestQueue, Dispatched,
                   [q \in Request |-> Accepted(q)],
                   [q \in Request |-> {m \in Node : requestPool[m][q].isReply}]>>
  BY <1>1, <1>7, <1>9, Mapping
<1>12. [q \in Request |-> {m \in Node : requestPool[m][q].isCommitBroadcast}]' =
          [[q \in Request |-> {m \in Node : requestPool[m][q].isCommitBroadcast}]
              EXCEPT ![r] = @ \cup {n}]
  BY <1>8 DEF Committed
<1> QED
  BY <1>10, <1>11, <1>12 DEF Abstract!Commit

LEMMA DecideMaps ==
    ASSUME IndInv, NEW n \in Node, NEW r \in Request, CommitReply(n, r)
    PROVE  Abstract!Decide(n, r)
<1>1. /\ commit[n][r]["reply"] > 0
      /\ requestPool' = [requestPool EXCEPT ![n][r] =
                            setReplySent(requestPool[n][r])]
      /\ UNCHANGED <<requestQueue, prePrepare>>
  BY DEF CommitReply, CommitStep, IndInv, TypeOK, runVars
<1>2. "reply" \in CommitStage
  BY DEF CommitStage
<1>3. Committed(r) \ {n} # {}
  BY <1>1, <1>2 DEF IndInv, CommitHasSender, Committed
<1> DEFINE v == setReplySent(requestPool[n][r])
<1>4. /\ v \in RequestInfo /\ v.isReply
      /\ v.isCommitBroadcast = requestPool[n][r].isCommitBroadcast
  BY FieldTypes, FlagFields DEF IndInv
<1>5. SameCommitted /\ \A q \in Request : Decided(q)' =
         IF q = r THEN Decided(q) \cup {n} ELSE Decided(q)
  BY <1>1, <1>4, FlagsKept
<1>6. [q \in Request |-> Decided(q)]' =
         [[q \in Request |-> Decided(q)] EXCEPT ![r] = @ \cup {n}]
  BY <1>5
<1>7. SameAccepted /\ UNCHANGED Dispatched
  BY <1>1, PrePrepareSame
<1> QED
  BY <1>1, <1>3, <1>5, <1>6, <1>7, Mapping
     DEF Abstract!Decide, Committed, Decided

-----------------------------------------------------------------------------
LEMMA RefineNext ==
    IndInv /\ [Next]_vars => [Abstract!Next]_(Abstract!vars)
<1> SUFFICES ASSUME IndInv, [Next]_vars
             PROVE  Abstract!Next \/ UNCHANGED Abstract!vars
  OBVIOUS
<1> USE DEF proposeVars, runVars, addonVars
<1>1. CASE UNCHANGED <<requestQueue, prePrepare, requestPool>>
  BY <1>1, StutterMaps, PrePrepareSame, PoolSame DEF SameQueue
<1>2. ASSUME NEW r \in Request, ProposeEnqueue(r) PROVE Abstract!Next
  BY <1>2, SubmitMaps DEF Abstract!Next
<1>3. CASE RunDispatch
  BY <1>3, DispatchMaps DEF Abstract!Next
<1>4. ASSUME NEW n \in Node, NEW r \in Request, HandlePrePrepare(n, r)
      PROVE  Abstract!Next \/ UNCHANGED Abstract!vars
  <2>1. PoolEnsured(n, r) /\ UNCHANGED requestQueue /\ prePrepare[n][r] = "net"
    BY <1>4 DEF HandlePrePrepare, PoolEnsured
  <2>2. CASE prePrepare' = [prePrepare EXCEPT ![n][r] = "done"]
    BY <2>1, <2>2, AcceptMaps DEF Abstract!Next
  <2>3. ASSUME NEW to \in {"dropped", "exec"},
               prePrepare' = [prePrepare EXCEPT ![n][r] = to]
        PROVE  UNCHANGED Abstract!vars
    <3>1. \A d \in Node, q \in Request :
             prePrepare'[d][q] = IF d = n /\ q = r THEN to ELSE prePrepare[d][q]
      BY <2>3 DEF IndInv, TypeOK
    <3>2. r \in Dispatched
      BY <2>1 DEF IndInv, UndispatchedIsUntouched
    <3>3. SameAccepted /\ SameQueue
      BY <2>1, <3>1, <3>2, NodeAssumption
         DEF SameAccepted, SameQueue, Accepted, Dispatched
    <3>4. SameCommitted /\ SameDecided
      BY <2>1, PoolSame, CountingIsInvisible DEF PoolEnsured
    <3> QED
      BY <3>3, <3>4, StutterMaps
  <2> QED
    BY <1>4, <2>2, <2>3 DEF HandlePrePrepare
<1>5. ASSUME NEW n \in Node, NEW r \in Request, ExecPrePrepare(n, r)
      PROVE  Abstract!Next
  <2>1. PoolEnsured(n, r)
    BY <1>5 DEF ExecPrePrepare, PoolEnsured
  <2> QED
    BY <1>5, <2>1, AcceptMaps DEF ExecPrePrepare, Abstract!Next
<1>6. ASSUME NEW n \in Node, NEW r \in Request, PrepareHandler(n, r)
      PROVE  Abstract!Next \/ UNCHANGED Abstract!vars
  <2>1. CASE HandlePrepare(n, r) \/ PrepareWait(n, r)
    BY <1>1, <2>1 DEF HandlePrepare, PrepareWait
  <2>2. CASE PrepareCount(n, r)
    <3>1. SameCommitted /\ SameDecided
      BY <2>2, CountingIsInvisible DEF PrepareCount
    <3> QED
      BY <2>2, <3>1, StutterMaps, PrePrepareSame DEF PrepareCount, SameQueue
  <2>3. CASE PrepareBroadcast(n, r)
    BY <2>3, CommitMaps DEF Abstract!Next
  <2> QED
    BY <1>6, <2>1, <2>2, <2>3 DEF PrepareHandler
<1>7. ASSUME NEW n \in Node, NEW r \in Request, CommitHandler(n, r)
      PROVE  Abstract!Next \/ UNCHANGED Abstract!vars
  <2>1. CASE CommitReply(n, r)
    BY <2>1, DecideMaps DEF Abstract!Next
  <2>2. CASE HandleCommit(n, r) \/ CommitCount(n, r)
    <3>1. SameCommitted /\ SameDecided
      BY <2>2, CountingIsInvisible, PoolSame DEF HandleCommit, CommitCount
    <3> QED
      BY <2>2, <3>1, StutterMaps, PrePrepareSame
         DEF HandleCommit, CommitCount, SameQueue
  <2>3. CASE \/ CommitAddon(n, r) \/ CommitBlock(n, r) \/ CommitStored(n, r)
             \/ CommitRound(n, r) \/ CommitNotify(n, r)
    BY <1>1, <2>3 DEF CommitAddon, CommitBlock, CommitStored, CommitRound,
       CommitNotify
  <2> QED
    BY <1>7, <2>1, <2>2, <2>3 DEF CommitHandler
<1>8. CASE ProposeRead \/ RunWait \/ RunStop \/ UNCHANGED vars
  BY <1>1, <1>8 DEF ProposeRead, RunWait, RunStop, vars
<1> QED
  BY <1>2, <1>3, <1>4, <1>5, <1>6, <1>7, <1>8 DEF Next, SystemStep

\* The consensus module of every shard keeps the promise of ShardConsensus:
\* requests are dispatched once and in queue order, a node commits only on the
\* acceptances of enough others (handlePrepare) and decides only after another
\* node has committed (handleCommit), and nothing is taken back.
THEOREM Implements == Spec => Refines
BY RefineInit, RefineNext, Invariance, PTL DEF Spec, Refines, Abstract!Spec
=============================================================================
