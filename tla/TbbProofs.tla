----------------------------- MODULE TbbProofs -----------------------------
(* Proofs about the TBB deployment, for any number of nodes and of         *)
(* malicious ones, any strings and any scenario.                           *)
EXTENDS Tbb, StringRoundsProofs

-----------------------------------------------------------------------------
(* Types.                                                                  *)

\* What is known of every message, late ones included.
MsgOK(m) ==
  /\ {"kind", "to", "due"} \subseteq DOMAIN m
  /\ m.kind = "Init" =>
       "start" \in DOMAIN m /\ m.start \in Nat /\ m.to \in (Node \ {View}) \cup {Client}
  /\ m.kind = "Inject" => "val" \in DOMAIN m /\ m.val \in String
  /\ m.kind \in {"Propose", "Forward", "Forward1", "Vote", "Forward2"} =>
       "val" \in DOMAIN m /\ m.val \in Value /\ m.to \in Node
  /\ m.kind = "Vote" => "from" \in DOMAIN m /\ m.from \in Node
AllOK(msgs) == \A m \in msgs : MsgOK(m)

TaskOK(k) ==
  /\ k.node \in Node /\ k.val \in Value
  /\ k.at \in {"tally", "count"} /\ k.for = "vote" => k.signer \in Node
TimerOK(t) ==
  /\ t.what \in {"vote", "baStart", "baSend", "bbFinal", "ref", "cp", "dsCommit"} =>
       t.node \in Node
  /\ t.what = "baSend" => t.val \in Value
  /\ t.what = "ref" => t.point \in {1, 2}
  /\ t.what = "cp" => t.point \in {2, 3}
  /\ t.what = "start" => sessions # <<>>

RunTyped ==
  /\ now \in Nat /\ sessions \in Seq(Session) /\ stringQueue \in Seq(String)
  /\ consensusDone \in {0, 1} /\ startTime \in [Node -> Nat]
SetsTyped ==
  /\ extrSet \in [Node -> SUBSET Value] /\ commitValue \in [Node -> Value \cup {None}]
  /\ proposeSet \in [Node -> SUBSET Value] /\ baBlckSet \in [Node -> SUBSET Value]
  /\ voteMap \in [Node -> [Value -> SUBSET (0..N)]]
  /\ blckSet \in [Node -> SUBSET Value] /\ qcSet = blckSet
  /\ bbValue \in [Node -> Value \cup {None}]
PointsTyped ==
  /\ D \in [Node -> [1..3 -> Value \cup {None}]]
  /\ ref \in [Node -> [1..2 -> Value \cup {None}]]
  /\ trigger \in [Node -> {0, 1}] /\ bbCommit \in [Node -> BOOLEAN]
  /\ tbbCommit \in [Node -> BOOLEAN]
TasksTyped == \A k \in tasks : TaskOK(k)
TimersTyped == \A t \in timers : TimerOK(t)

TypeInv ==
  RunTyped /\ SetsTyped /\ PointsTyped /\ AllOK(net) /\ TasksTyped /\ TimersTyped

LEMMA TypeInit == Init => TypeInv
<1> SUFFICES ASSUME Init PROVE TypeInv
  OBVIOUS
<1>1. N \in Nat /\ 0 \in Nat /\ Client \in 0..N
  BY NatN DEF Client
<1>2. RunTyped
  BY <1>1 DEF Init, RoundsInit, RunTyped
<1>3. EmptyMap \in [Value -> SUBSET (0..N)]
  BY <1>1 DEF EmptyMap, NoVotes
<1>4. SetsTyped
  BY <1>3 DEF Init, DsInitState, BbInitState, SetsTyped
<1>5. PointsTyped
  BY DEF Init, BbInitState, PointsTyped
<1>6. AllOK(net) /\ TasksTyped /\ TimersTyped
  BY DEF Init, RoundsInit, AllOK, TasksTyped, TimersTyped
<1> QED BY <1>2, <1>4, <1>5, <1>6 DEF TypeInv

\* Losing messages and delaying them keeps what is known of them.
LEMMA WireTyped ==
  ASSUME NEW before, NEW msgs, AllOK(before), AllOK(msgs), Wire(before, msgs)
  PROVE  AllOK(net')
<1>1. ASSUME NEW m, MsgOK(m)
      PROVE  MsgOK([m EXCEPT !.due = @ + 1])
  BY <1>1 DEF MsgOK
<1>2. PICK sent, lost, slow :
        /\ sent \subseteq msgs /\ slow \subseteq sent
        /\ net' = before \cup (sent \ (lost \cup slow))
                         \cup {[m EXCEPT !.due = @ + 1] : m \in slow}
  BY Zenon DEF Wire
<1> SUFFICES ASSUME NEW m \in net' PROVE MsgOK(m)
  BY DEF AllOK
<1>3. CASE m \in before \cup sent
  BY <1>2, <1>3 DEF AllOK
<1>4. CASE \E o \in slow : m = [o EXCEPT !.due = @ + 1]
  BY <1>1, <1>2, <1>4 DEF AllOK
<1> QED BY <1>2, <1>3, <1>4

LEMMA SingleTyped ==
  ASSUME NEW S \in SUBSET Value
  PROVE  SingleOrZero(S) \in Value /\ Single(S) \in Value
         /\ (Cardinality(S) = 1 => SingleOrZero(S) \in S)
<1>1. ASSUME Cardinality(S) = 1 PROVE (CHOOSE v \in S : TRUE) \in S
  BY <1>1, FS_EmptySet
<1>2. Zero \in Value
  BY DEF Value
<1> QED BY <1>1, <1>2 DEF SingleOrZero, Single

LEMMA SentTyped ==
  /\ \A s \in String : MsgOK([kind |-> "Inject", to |-> View, val |-> s, due |-> Soon("Inject")])
  /\ \A n \in Node, v \in Value : \A s : AllOK(ToAll(n, ForwardMsg(n, v, s)))
  /\ \A n \in Node, v \in Value : AllOK(Forward1Msgs(n, v))
  /\ \A n \in Node, v \in Value :
       AllOK(ToAll(n, [kind |-> "Vote", to |-> Client, from |-> n, val |-> v, due |-> Soon("Vote")]))
  /\ \A n : \A v \in Value : \A f, s, d : AllOK(ToAll(n, Forward2(n, v, f, s, d)))
<1>1. \A s \in String : MsgOK([kind |-> "Inject", to |-> View, val |-> s, due |-> Soon("Inject")])
  BY DEF MsgOK
<1>2. ASSUME NEW n \in Node, NEW v \in Value, NEW s PROVE AllOK(ToAll(n, ForwardMsg(n, v, s)))
  BY DEF ToAll, AllOK, MsgOK, ForwardMsg
<1>3. ASSUME NEW n \in Node, NEW v \in Value PROVE AllOK(Forward1Msgs(n, v))
  BY DEF ToAll, AllOK, MsgOK, Forward1Msgs
<1>4. ASSUME NEW n \in Node, NEW v \in Value
      PROVE  AllOK(ToAll(n, [kind |-> "Vote", to |-> Client, from |-> n, val |-> v,
                             due |-> Soon("Vote")]))
  BY DEF ToAll, AllOK, MsgOK
<1>5. ASSUME NEW n, NEW v \in Value, NEW f, NEW s, NEW d
      PROVE  AllOK(ToAll(n, Forward2(n, v, f, s, d)))
  BY DEF ToAll, AllOK, MsgOK, Forward2
<1> QED BY <1>1, <1>2, <1>3, <1>4, <1>5

\* The proposer and the interactive client.
LEMMA TypeProposer ==
  ASSUME TypeInv, ProposerNext, UNCHANGED <<dsVars, bbVars, tbbVars, clientVars>>
  PROVE  TypeInv'
<1>1. SetsTyped' /\ PointsTyped'
  BY DEF TypeInv, SetsTyped, PointsTyped, dsVars, bbVars, tbbVars
<1>2. ASSUME UNCHANGED <<now, net, timers, tasks, startTime, sessions, stringQueue>>,
             consensusDone' \in {0, 1}
      PROVE  TypeInv'
  BY <1>1, <1>2 DEF TypeInv, RunTyped, TasksTyped, TimersTyped, TimerOK
<1>3. ASSUME NEW s \in String, HandleCmdPropose(s) PROVE TypeInv'
  <2> DEFINE m == [kind |-> "Inject", to |-> View, val |-> s, due |-> Soon("Inject")]
  <2>1. Wire(net, {m}) /\ UNCHANGED <<now, timers, tasks, startTime, sessions, stringQueue,
                                      consensusDone>>
    BY <1>3 DEF HandleCmdPropose
  <2>2. AllOK({m})
    BY SentTyped DEF AllOK
  <2> HIDE DEF m
  <2>3. AllOK(net')
    BY <2>1, <2>2, WireTyped DEF TypeInv
  <2> QED BY <1>1, <2>1, <2>3 DEF TypeInv, RunTyped, TasksTyped, TimersTyped, TimerOK
<1>4. ASSUME NEW m \in Inbox, HandleInject(m) PROVE TypeInv'
  <2>1. m \in net /\ m.kind = "Inject"
    BY <1>4 DEF Inbox, HandleInject
  <2>2. /\ net' \subseteq net /\ stringQueue' = Append(stringQueue, m.val)
        /\ UNCHANGED <<now, timers, tasks, startTime, sessions, consensusDone>>
    BY <1>4 DEF HandleInject
  <2>3. stringQueue' \in Seq(String)
    BY <2>1, <2>2, AppendProperties DEF TypeInv, AllOK, MsgOK, RunTyped
  <2> QED BY <1>1, <2>2, <2>3 DEF TypeInv, RunTyped, TasksTyped, TimersTyped, TimerOK, AllOK
<1>5. ASSUME NEW t \in Ripe, HandleConsensusDone(t) PROVE TypeInv'
  BY <1>1, <1>5 DEF HandleConsensusDone, wireVars, TypeInv, RunTyped, TasksTyped,
     TimersTyped, TimerOK, AllOK
<1>6. CASE RunPoll
  BY <1>2, <1>6 DEF RunPoll, roundVars, wireVars, proposerVars, TypeInv, RunTyped
<1>7. CASE RunDone
  BY <1>2, <1>7 DEF RunDone, wireVars
<1>8. CASE RunStop
  BY <1>1, <1>8 DEF RunStop, TypeInv, RunTyped, TasksTyped, TimersTyped, TimerOK, AllOK
<1> QED BY <1>3, <1>4, <1>5, <1>6, <1>7, <1>8 DEF ProposerNext

\* A step that leaves the proposer's life and the commit points alone.
QuietRun == UNCHANGED <<now, startTime, proposerVars>>
LEMMA TypeQuiet ==
  ASSUME TypeInv, QuietRun, SetsTyped', PointsTyped', AllOK(net'),
         \A k \in tasks' : k \in tasks \/ TaskOK(k),
         \A t \in timers' : t \in timers \/ (t.what # "start" /\ TimerOK(t))
  PROVE  TypeInv'
<1>1. RunTyped'
  BY DEF TypeInv, RunTyped, QuietRun, proposerVars
<1>2. TasksTyped'
  BY DEF TypeInv, TasksTyped
<1>3. TimersTyped'
  <2>1. sessions' = sessions
    BY DEF QuietRun, proposerVars
  <2>2. ASSUME NEW t \in timers' PROVE TimerOK(t)'
    BY <2>1 DEF TypeInv, TimersTyped, TimerOK
  <2> QED BY <2>2 DEF TimersTyped
<1> QED BY <1>1, <1>2, <1>3 DEF TypeInv

LEMMA TypeForward ==
  ASSUME NEW n \in Node, NEW val \in Value, NEW sigs, NEW netLeft, NEW tasksLeft, NEW also,
         AllOK(netLeft), AllOK(also), ForwardOrSpin(n, val, sigs, netLeft, tasksLeft, also)
  PROVE  AllOK(net') /\ \A k \in tasks' : k \in tasksLeft \/ TaskOK(k)
<1> DEFINE msgs == ToAll(n, ForwardMsg(n, val, sigs + 1))
<1>1. AllOK(also \cup msgs)
  BY SentTyped DEF AllOK
<1> HIDE DEF msgs
<1>2. CASE Wire(netLeft, also \cup msgs) /\ tasks' = tasksLeft
  BY <1>1, <1>2, WireTyped
<1>3. CASE /\ Wire(netLeft, also)
           /\ tasks' = tasksLeft \cup {[node |-> n, at |-> "spin", for |-> "Forward",
                                        val |-> val, sigs |-> sigs, limit |-> sigs]}
  BY <1>3, WireTyped DEF TaskOK
<1> QED BY <1>2, <1>3, Zenon DEF ForwardOrSpin, msgs

LEMMA TypeDs ==
  ASSUME TypeInv, DsNext, UNCHANGED <<bbVars, tbbVars, clientVars>>
  PROVE  TypeInv'
<1>1. QuietRun /\ PointsTyped'
      /\ UNCHANGED <<proposeSet, baBlckSet, voteMap, blckSet, qcSet, bbValue>>
  BY DEF DsNext, QuietRun, TypeInv, PointsTyped, bbVars, tbbVars
<1>2. ASSUME extrSet' \in [Node -> SUBSET Value], commitValue' \in [Node -> Value \cup {None}]
      PROVE  SetsTyped'
  BY <1>1, <1>2 DEF TypeInv, SetsTyped
<1>3. ASSUME NEW m \in Inbox, DsHandleForward(m) PROVE TypeInv'
  <2>1. m \in net /\ m.val \in Value /\ m.to \in Node
    BY <1>3 DEF Inbox, DsHandleForward, TypeInv, AllOK, MsgOK
  <2>2. SetsTyped'
    BY <1>2, <1>3 DEF DsHandleForward, dsVars, TypeInv, SetsTyped
  <2>3. AllOK(net') /\ timers' = timers /\ \A k \in tasks' : k \in tasks \/ TaskOK(k)
    BY <1>3, <2>1 DEF DsHandleForward, TypeInv, AllOK, TaskOK
  <2> QED BY <1>1, <2>2, <2>3, TypeQuiet
<1>4. ASSUME NEW k \in Ready PROVE k \in tasks /\ k.node \in Node /\ k.val \in Value
  BY DEF Ready, Urgent, TypeInv, TasksTyped, TaskOK
<1>5. ASSUME NEW k \in Ready, DsAdd(k) PROVE TypeInv'
  <2>1. SetsTyped'
    BY <1>2, <1>4, <1>5 DEF DsAdd, TypeInv, SetsTyped
  <2>2. ForwardOrSpin(k.node, k.val, k.sigs, net, tasks \ {k}, {}) /\ timers' = timers
    BY <1>5 DEF DsAdd
  <2>3. AllOK(net) /\ AllOK({})
    BY DEF TypeInv, AllOK
  <2>4. AllOK(net') /\ \A o \in tasks' : o \in tasks \ {k} \/ TaskOK(o)
    BY <1>4, <2>2, <2>3, TypeForward
  <2> QED BY <1>1, <2>1, <2>2, <2>4, TypeQuiet
<1>6. ASSUME NEW k \in Ready, DsLeaveLoop(k) PROVE TypeInv'
  <2>1. SetsTyped' /\ timers' = timers /\ tasks' \subseteq tasks
    BY <1>2, <1>6 DEF DsLeaveLoop, dsVars, TypeInv, SetsTyped
  <2>2. AllOK(net')
    BY <1>4, <1>6, SentTyped, WireTyped DEF DsLeaveLoop, TypeInv
  <2> QED BY <1>1, <2>1, <2>2, TypeQuiet
<1>7. ASSUME NEW t \in Ripe, DsCommit(t) PROVE TypeInv'
  <2>1. t \in timers /\ t.node \in Node
    BY <1>7 DEF Ripe, DsCommit, TypeInv, TimersTyped, TimerOK
  <2>2. Single(extrSet[t.node]) \in Value
    BY <2>1, SingleTyped DEF TypeInv, SetsTyped
  <2>3. SetsTyped'
    BY <1>2, <1>7, <2>1, <2>2 DEF DsCommit, TypeInv, SetsTyped
  <2>4. net' = net /\ tasks' = tasks /\ timers' \subseteq timers
    BY <1>7 DEF DsCommit, wireVars
  <2> QED BY <1>1, <2>3, <2>4, TypeQuiet DEF TypeInv
<1> QED BY <1>3, <1>5, <1>6, <1>7 DEF DsNext

\* The messages of the 1-delta-BB module.
LEMMA TypeBbMessages ==
  ASSUME TypeInv, QuietRun, UNCHANGED <<dsVars, tbbVars>>, NEW m \in Inbox,
         BbHandleForward1(m) \/ BbHandleVote(m) \/ BbInputBA(m) \/ BbForwardBA(m)
  PROVE  TypeInv'
<1>1. m \in net /\ MsgOK(m)
  BY DEF Inbox, TypeInv, AllOK
<1>2. m.val \in Value /\ m.to \in Node /\ (m.kind = "Vote" => m.from \in Node)
  BY <1>1 DEF BbHandleForward1, BbHandleVote, BbInputBA, BbForwardBA, MsgOK
<1>3. net' \subseteq net /\ timers' = timers
  BY DEF BbHandleForward1, BbHandleVote, BbInputBA, BbForwardBA
<1>4. AllOK(net')
  BY <1>3 DEF TypeInv, AllOK
<1>5. PointsTyped'
  BY DEF BbHandleForward1, BbHandleVote, BbInputBA, BbForwardBA, BbPropose, bbVars, tbbVars,
     TypeInv, PointsTyped
<1>6. /\ UNCHANGED <<extrSet, commitValue, voteMap, blckSet, qcSet, bbValue>>
      /\ proposeSet' \in [Node -> SUBSET Value] /\ baBlckSet' \in [Node -> SUBSET Value]
  <2>1. UNCHANGED <<extrSet, commitValue, voteMap, blckSet, qcSet, bbValue>>
    BY DEF BbHandleForward1, BbHandleVote, BbInputBA, BbForwardBA, BbPropose, bbVars, dsVars
  <2>2. /\ \/ proposeSet' = proposeSet
           \/ proposeSet' = [proposeSet EXCEPT ![m.to] = @ \cup {m.val}]
        /\ \/ baBlckSet' = baBlckSet
           \/ baBlckSet' = [baBlckSet EXCEPT ![m.to] = @ \cup {m.val}]
    BY DEF BbHandleForward1, BbHandleVote, BbInputBA, BbForwardBA, BbPropose, bbVars
  <2>3. proposeSet \in [Node -> SUBSET Value] /\ baBlckSet \in [Node -> SUBSET Value]
    BY DEF TypeInv, SetsTyped
  <2> QED BY <1>2, <2>1, <2>2, <2>3
<1>7. SetsTyped'
  BY <1>6 DEF TypeInv, SetsTyped
<1>8. \A k \in tasks' : k \in tasks \/ TaskOK(k)
  BY <1>2 DEF BbHandleForward1, BbHandleVote, BbInputBA, BbForwardBA, Tally, TaskOK
<1> QED BY <1>3, <1>4, <1>5, <1>7, <1>8, TypeQuiet

\* Its handlers between two steps.
LEMMA TypeBbTasks ==
  ASSUME TypeInv, QuietRun, UNCHANGED <<dsVars, tbbVars>>, NEW k \in Ready,
         BbTally(k) \/ BbCountVote(k) \/ BbCountBA(k) \/ BbLeaveLoop(k)
  PROVE  TypeInv'
<1>1. k \in tasks /\ TaskOK(k)
  BY DEF Ready, Urgent, TypeInv, TasksTyped
<1>2. k.node \in Node /\ k.val \in Value
  BY <1>1 DEF TaskOK
<1>3. AllOK(net) /\ UNCHANGED <<extrSet, commitValue, D, ref, tbbCommit>>
  BY DEF TypeInv, dsVars, tbbVars
<1>4. CASE BbTally(k)
  <2>1. k.for = "vote" => k.signer \in Node
    BY <1>1, <1>4 DEF BbTally, TaskOK
  <2>2. Node \subseteq 0..N
    BY NatN DEF Node
  <2>3. voteMap' \in [Node -> [Value -> SUBSET (0..N)]]
    <3>1. voteMap \in [Node -> [Value -> SUBSET (0..N)]]
      BY DEF TypeInv, SetsTyped
    <3>2. CASE voteMap' = voteMap
      BY <3>1, <3>2
    <3>3. ASSUME k.for = "vote",
                 voteMap' = [voteMap EXCEPT ![k.node][k.val] = AddTo(@, k)]
          PROVE  voteMap' \in [Node -> [Value -> SUBSET (0..N)]]
      <4> DEFINE s == AddTo(voteMap[k.node][k.val], k)
      <4>1. s \in SUBSET (0..N)
        BY <1>2, <2>1, <2>2, <3>1, <3>3 DEF AddTo
      <4>2. voteMap' = [voteMap EXCEPT ![k.node] = [voteMap[k.node] EXCEPT ![k.val] = s]]
        BY <3>3
      <4> HIDE DEF s
      <4>3. [voteMap[k.node] EXCEPT ![k.val] = s] \in [Value -> SUBSET (0..N)]
        BY <1>2, <3>1, <4>1
      <4> QED BY <1>2, <3>1, <4>2, <4>3
    <3> QED BY <1>4, <3>2, <3>3 DEF BbTally
  <2>4. UNCHANGED <<proposeSet, qcSet, blckSet, baBlckSet, bbCommit, bbValue, trigger,
                    net, timers>>
    BY <1>4 DEF BbTally, wireVars
  <2>5. SetsTyped' /\ PointsTyped'
    BY <1>3, <2>3, <2>4 DEF TypeInv, SetsTyped, PointsTyped
  <2>6. \A o \in tasks' : o \in tasks \/ TaskOK(o)
    BY <1>2, <1>4, <2>1 DEF BbTally, TaskOK
  <2> QED BY <1>3, <2>4, <2>5, <2>6, TypeQuiet
<1>5. CASE BbCountVote(k)
  <2>1. net' = net /\ timers' = timers /\ tasks' \subseteq tasks
    BY <1>5 DEF BbCountVote, wireVars
  <2>2. UNCHANGED <<proposeSet, voteMap, baBlckSet>>
    BY <1>5 DEF BbCountVote, bbVars
  <2>3. /\ blckSet' \in [Node -> SUBSET Value] /\ qcSet' = blckSet'
        /\ bbValue' \in [Node -> Value \cup {None}]
    <3>1. /\ \/ UNCHANGED <<blckSet, qcSet>>
             \/ /\ blckSet' = [blckSet EXCEPT ![k.node] = @ \cup {k.val}]
                /\ qcSet' = [qcSet EXCEPT ![k.node] = @ \cup {k.val}]
          /\ \/ bbValue' = bbValue
             \/ bbValue' = [bbValue EXCEPT ![k.node] = k.val]
      BY <1>5 DEF BbCountVote, bbVars
    <3>2. blckSet \in [Node -> SUBSET Value] /\ qcSet = blckSet
          /\ bbValue \in [Node -> Value \cup {None}]
      BY DEF TypeInv, SetsTyped
    <3>3. blckSet' \in [Node -> SUBSET Value]
      BY <1>2, <3>1, <3>2
    <3>5. qcSet' = blckSet'
      BY <3>1, <3>2, Zenon
    <3>4. bbValue' \in [Node -> Value \cup {None}]
      BY <1>2, <3>1, <3>2
    <3> QED BY <3>3, <3>4, <3>5
  <2>4. trigger' \in [Node -> {0, 1}] /\ bbCommit' \in [Node -> BOOLEAN]
    BY <1>2, <1>5 DEF BbCountVote, bbVars, TypeInv, PointsTyped
  <2>5. SetsTyped' /\ PointsTyped'
    BY <1>3, <2>2, <2>3, <2>4 DEF TypeInv, SetsTyped, PointsTyped
  <2> QED BY <1>3, <2>1, <2>5, TypeQuiet
<1>6. CASE BbCountBA(k) \/ BbLeaveLoop(k)
  <2>1. UNCHANGED bbVars /\ tasks' \subseteq tasks
    BY <1>6 DEF BbCountBA, BbLeaveLoop
  <2>2. SetsTyped' /\ PointsTyped'
    BY <1>3, <2>1 DEF TypeInv, SetsTyped, PointsTyped, bbVars
  <2>3. \A t \in timers' : t \in timers \/ (t.what # "start" /\ TimerOK(t))
    BY <1>2, <1>6 DEF BbCountBA, BbLeaveLoop, TimerOK
  <2>4. AllOK(net')
    BY <1>2, <1>3, <1>6, SentTyped, WireTyped DEF BbCountBA, BbLeaveLoop, wireVars
  <2> QED BY <2>1, <2>2, <2>3, <2>4, TypeQuiet
<1> QED BY <1>4, <1>5, <1>6

\* Its timers.
LEMMA TypeBbTimers ==
  ASSUME TypeInv, QuietRun, UNCHANGED <<dsVars, tbbVars>>, NEW t \in Ripe,
         BbVoteTimer(t) \/ BbStartBA(t) \/ BbSendBA(t) \/ BbFinal(t)
  PROVE  TypeInv'
<1>1. t \in timers /\ TimerOK(t)
  BY DEF Ripe, TypeInv, TimersTyped
<1>2. t.node \in Node
  BY <1>1 DEF TimerOK, BbVoteTimer, BbStartBA, BbSendBA, BbFinal
<1>3. AllOK(net) /\ UNCHANGED <<extrSet, commitValue, D, ref, tbbCommit>> /\ timers' \subseteq timers
  BY DEF TypeInv, dsVars, tbbVars, BbVoteTimer, BbStartBA, BbSendBA, BbFinal
<1>4. ASSUME UNCHANGED bbVars PROVE SetsTyped' /\ PointsTyped'
  BY <1>3, <1>4 DEF TypeInv, SetsTyped, PointsTyped, bbVars
<1>5. CASE BbVoteTimer(t)
  <2>1. SetsTyped' /\ PointsTyped'
    BY <1>4, <1>5 DEF BbVoteTimer
  <2>2. CASE UNCHANGED <<tasks, wireVars>>
    BY <1>3, <2>1, <2>2, TypeQuiet DEF wireVars
  <2>3. ASSUME NEW v \in proposeSet[t.node],
               tasks' = tasks \cup {Tally(t.node, "vote", v, t.node, voteMap[t.node][v])},
               Wire(net, ToAll(t.node, [kind |-> "Vote", to |-> Client, from |-> t.node,
                                        val |-> v, due |-> Soon("Vote")]))
        PROVE  TypeInv'
    <3>1. v \in Value
      BY <1>2 DEF TypeInv, SetsTyped
    <3>2. AllOK(net')
      BY <1>2, <1>3, <2>3, <3>1, SentTyped, WireTyped
    <3>3. \A o \in tasks' : o \in tasks \/ TaskOK(o)
      BY <1>2, <2>3, <3>1 DEF Tally, TaskOK
    <3> QED BY <1>3, <2>1, <3>2, <3>3, TypeQuiet
  <2> QED BY <1>5, <2>2, <2>3 DEF BbVoteTimer
<1>6. CASE BbStartBA(t)
  <2> DEFINE v == SingleOrZero(blckSet[t.node])
  <2>1. v \in Value
    BY <1>2, SingleTyped DEF TypeInv, SetsTyped
  <2>2. /\ tasks' = tasks \cup {Tally(t.node, "ba", v, t.node, baMap[t.node][v])}
        /\ Wire(net, ToAll(t.node, Forward2(t.node, v, t.node, 1, now)))
    BY <1>6 DEF BbStartBA
  <2> HIDE DEF v
  <2>3. AllOK(net')
    BY <1>3, <2>1, <2>2, SentTyped, WireTyped
  <2>4. \A o \in tasks' : o \in tasks \/ TaskOK(o)
    BY <1>2, <2>1, <2>2 DEF Tally, TaskOK
  <2>5. SetsTyped' /\ PointsTyped'
    BY <1>4, <1>6 DEF BbStartBA
  <2> QED BY <1>3, <2>3, <2>4, <2>5, TypeQuiet
<1>7. CASE BbSendBA(t)
  <2>1. t.val \in Value
    BY <1>1, <1>7 DEF TimerOK, BbSendBA
  <2>2. AllOK(net')
    BY <1>3, <1>7, <2>1, SentTyped, WireTyped DEF BbSendBA
  <2>3. SetsTyped' /\ PointsTyped' /\ tasks' = tasks
    BY <1>4, <1>7 DEF BbSendBA
  <2> QED BY <1>3, <2>2, <2>3, TypeQuiet
<1>8. CASE BbFinal(t)
  <2>1. SingleOrZero(baBlckSet[t.node]) \in Value
    BY <1>2, SingleTyped DEF TypeInv, SetsTyped
  <2>2. bbValue' \in [Node -> Value \cup {None}]
    BY <1>2, <1>8, <2>1 DEF BbFinal, TypeInv, SetsTyped
  <2>3. SetsTyped' /\ PointsTyped' /\ tasks' = tasks /\ net' = net
    BY <1>3, <1>8, <2>2 DEF BbFinal, TypeInv, SetsTyped, PointsTyped, wireVars
  <2> QED BY <1>3, <2>3, TypeQuiet
<1> QED BY <1>5, <1>6, <1>7, <1>8

LEMMA TypeBb ==
  ASSUME TypeInv, BbNext, UNCHANGED <<dsVars, tbbVars>>
  PROVE  TypeInv'
<1>1. QuietRun
  BY DEF BbNext, QuietRun
<1> QED BY <1>1, TypeBbMessages, TypeBbTasks, TypeBbTimers DEF BbNext

LEMMA TypeReset ==
  ASSUME TypeInv, NEW n \in Node, ResetAll(n)
  PROVE  SetsTyped' /\ PointsTyped'
<1>1. EmptyMap \in [Value -> SUBSET (0..N)]
  BY NatN DEF EmptyMap, NoVotes, Client
<1>2. SetsTyped'
  BY <1>1 DEF ResetAll, DsHandleInit, BbHandleInit, TypeInv, SetsTyped
<1>3. PointsTyped'
  <2>1. [i \in 1..3 |-> None] \in [1..3 -> Value \cup {None}]
        /\ [i \in 1..2 |-> None] \in [1..2 -> Value \cup {None}]
    OBVIOUS
  <2> QED BY <2>1 DEF ResetAll, BbHandleInit, TypeInv, PointsTyped
<1> QED BY <1>2, <1>3

LEMMA InitTimersTyped ==
  ASSUME NEW n \in Node, NEW s, NEW t \in InitTimers(n, s)
  PROVE  t.what # "start" /\ TimerOK(t) /\ TimerOK(t)'
BY DEF InitTimers, DsTimers, BbTimers, TimerOK

\* The Init of a session, at the view and at another node.
LEMMA TypeViewInit ==
  ASSUME TypeInv, ViewInit
  PROVE  TypeInv'
<1> DEFINE start == now + 1
           init == [kind |-> "Init", to |-> Client, start |-> start, due |-> now]
           e == [start |-> start, val |-> Head(stringQueue)]
<1>1. SetsTyped' /\ PointsTyped'
  BY TypeReset, Places DEF ViewInit
<1>2. /\ stringQueue # <<>>
      /\ Wire(net, ToAll(View, init) \cup {init})
      /\ timers' = timers \cup InitTimers(View, now + 1)
                     \cup {[node |-> View, at |-> start, what |-> "start"]}
      /\ startTime' = [startTime EXCEPT ![View] = start]
      /\ sessions' = Append(sessions, e)
      /\ stringQueue' = Tail(stringQueue)
      /\ UNCHANGED <<now, tasks, consensusDone>>
  BY DEF ViewInit, RunInit
<1>3. start \in Nat /\ Head(stringQueue) \in String /\ Tail(stringQueue) \in Seq(String)
  BY <1>2 DEF TypeInv, RunTyped
<1>4. AllOK(ToAll(View, init) \cup {init})
  BY <1>3 DEF AllOK, MsgOK, ToAll
<1>5. e \in Session /\ sessions \in Seq(Session)
  BY <1>3 DEF Session, TypeInv, RunTyped
<1> HIDE DEF init, e
<1>6. sessions' \in Seq(Session) /\ sessions' # <<>>
  BY <1>2, <1>5, LastOfAppend
<1>7. AllOK(net')
  BY <1>2, <1>4, WireTyped DEF TypeInv
<1>8. RunTyped'
  BY <1>2, <1>3, <1>6 DEF TypeInv, RunTyped
<1>9. TasksTyped'
  BY <1>2 DEF TypeInv, TasksTyped
<1>10. TimersTyped'
  <2>1. ASSUME NEW t \in timers PROVE TimerOK(t)'
    BY <1>6 DEF TypeInv, TimersTyped, TimerOK
  <2>2. TimerOK([node |-> View, at |-> start, what |-> "start"])'
    BY <1>6 DEF TimerOK
  <2>3. \A t \in InitTimers(View, now + 1) : TimerOK(t)'
    BY InitTimersTyped, Places
  <2> QED BY <1>2, <2>1, <2>2, <2>3 DEF TimersTyped
<1> QED BY <1>1, <1>7, <1>8, <1>9, <1>10 DEF TypeInv

LEMMA TypeHandleInit ==
  ASSUME TypeInv, NEW m \in Inbox, HandleInit(m)
  PROVE  TypeInv'
<1>1. m \in net /\ m.to \in Node /\ m.start \in Nat
  BY DEF Inbox, HandleInit, TypeInv, AllOK, MsgOK
<1>2. SetsTyped' /\ PointsTyped'
  BY <1>1, TypeReset DEF HandleInit
<1>3. /\ net' \subseteq net /\ startTime' = [startTime EXCEPT ![m.to] = m.start]
      /\ timers' = timers \cup InitTimers(m.to, m.start)
      /\ UNCHANGED <<now, tasks, sessions, stringQueue, consensusDone>>
  BY DEF HandleInit, proposerVars
<1>4. RunTyped' /\ AllOK(net') /\ TasksTyped'
  BY <1>1, <1>3 DEF TypeInv, RunTyped, AllOK, TasksTyped
<1>5. TimersTyped'
  <2>1. ASSUME NEW t \in timers PROVE TimerOK(t)'
    BY <1>3 DEF TypeInv, TimersTyped, TimerOK
  <2>2. \A t \in InitTimers(m.to, m.start) : TimerOK(t)'
    BY <1>1, InitTimersTyped
  <2> QED BY <1>3, <2>1, <2>2 DEF TimersTyped
<1> QED BY <1>2, <1>4, <1>5 DEF TypeInv

LEMMA ProposeTyped ==
  ASSUME TypeInv, sessions # <<>>
  PROVE  Last \in Session /\ Last.val \in Value /\ Proposal \in Value
<1>1. Last \in Session
  BY DEF TypeInv, RunTyped, Last
<1> QED BY <1>1 DEF Session, Value, Proposal

\* The proposal, at the view and at another node.
LEMMA TypeViewPropose ==
  ASSUME TypeInv, ViewPropose
  PROVE  TypeInv'
<1> DEFINE msg == [kind |-> "Propose", to |-> Client, due |-> now,
                   val |-> IF View \in malicious THEN Bad ELSE Last.val]
           msgs == {p \in ToAll(View, msg) : View \in malicious => p.to \in {1, 2}}
<1>1. PICK t \in Ripe : /\ t.what = "start"
                        /\ Wire(net, msgs)
                        /\ timers' = (timers \ {t}) \cup {VoteTimer(View)}
  BY Zenon DEF ViewPropose, RunPropose
<1>2. UNCHANGED <<now, tasks, startTime, sessions, stringQueue, consensusDone>>
  BY Zenon DEF ViewPropose, RunPropose
<1>3. sessions # <<>>
  BY <1>1 DEF Ripe, TypeInv, TimersTyped, TimerOK
<1>4. Last.val \in Value /\ Proposal \in Value
  BY <1>3, ProposeTyped
<1>5. AllOK(msgs)
  <2>1. AllOK(ToAll(View, msg))
    BY <1>4 DEF AllOK, MsgOK, ToAll, Proposal
  <2> QED BY <2>1 DEF AllOK
<1> HIDE DEF msgs
<1>6. AllOK(net')
  BY <1>1, <1>5, WireTyped DEF TypeInv
<1>7. SetsTyped'
  BY <1>4, Places DEF ViewPropose, BbPropose, DsViewPropose, TypeInv, SetsTyped
<1>8. PointsTyped'
  BY DEF ViewPropose, BbPropose, tbbVars, TypeInv, PointsTyped
<1>9. TasksTyped' /\ RunTyped'
  BY <1>2 DEF TypeInv, TasksTyped, RunTyped
<1>10. TimersTyped'
  <2>1. ASSUME NEW u \in timers PROVE TimerOK(u)'
    BY <1>2 DEF TypeInv, TimersTyped, TimerOK
  <2>2. ASSUME NEW u, u = VoteTimer(View) PROVE TimerOK(u)'
    BY <2>2, Places DEF TimerOK, VoteTimer
  <2> QED BY <1>1, <2>1, <2>2 DEF TimersTyped
<1> QED BY <1>6, <1>7, <1>8, <1>9, <1>10 DEF TypeInv

LEMMA TypeHandlePropose ==
  ASSUME TypeInv, NEW m \in Inbox, HandlePropose(m)
  PROVE  TypeInv'
<1>1. m \in net /\ m.to \in Node /\ m.val \in Value
  BY DEF Inbox, HandlePropose, TypeInv, AllOK, MsgOK
<1>2. QuietRun /\ timers' = timers \cup {VoteTimer(m.to)}
  BY DEF HandlePropose, QuietRun
<1>3. ForwardOrSpin(m.to, m.val, 1, net \ {m}, tasks, Forward1Msgs(m.to, m.val))
  BY DEF HandlePropose, DsHandlePropose
<1>4. AllOK(net \ {m}) /\ AllOK(Forward1Msgs(m.to, m.val))
  BY <1>1, SentTyped DEF TypeInv, AllOK
<1>5. AllOK(net') /\ \A k \in tasks' : k \in tasks \/ TaskOK(k)
  BY <1>1, <1>3, <1>4, TypeForward
<1>6. SetsTyped'
  BY <1>1 DEF HandlePropose, BbPropose, DsHandlePropose, TypeInv, SetsTyped
<1>7. PointsTyped'
  BY DEF HandlePropose, BbPropose, tbbVars, TypeInv, PointsTyped
<1>8. \A t \in timers' : t \in timers \/ (t.what # "start" /\ TimerOK(t))
  BY <1>1, <1>2 DEF VoteTimer, TimerOK
<1> QED BY <1>2, <1>5, <1>6, <1>7, <1>8, TypeQuiet

\* The commit points and the reference points.
LEMMA TypePoints ==
  ASSUME TypeInv, NEW t \in Ripe, ReferencePoint(t) \/ CommitPoint(t)
  PROVE  TypeInv'
<1>1. t \in timers /\ TimerOK(t)
  BY DEF Ripe, TypeInv, TimersTyped
<1>2. t.node \in Node
  BY <1>1 DEF TimerOK, ReferencePoint, CommitPoint
<1>3. /\ QuietRun /\ timers' \subseteq timers /\ tasks' = tasks /\ net' = net
      /\ UNCHANGED <<dsVars, bbVars, tbbCommit>>
  BY DEF ReferencePoint, CommitPoint, QuietRun, wireVars
<1>4. SetsTyped'
  BY <1>3 DEF TypeInv, SetsTyped, dsVars, bbVars
<1>5. D \in [Node -> [1..3 -> Value \cup {None}]] /\ ref \in [Node -> [1..2 -> Value \cup {None}]]
      /\ commitValue[t.node] \in Value \cup {None}
  BY <1>2 DEF TypeInv, PointsTyped, SetsTyped
<1>6. CASE ReferencePoint(t)
  <2>1. t.point \in 1..2
    BY <1>1, <1>6 DEF TimerOK, ReferencePoint
  <2>2. D' = D /\ ref' \in [Node -> [1..2 -> Value \cup {None}]]
    <3>1. D' = D /\ (ref' = ref \/ ref' = [ref EXCEPT ![t.node][t.point] = commitValue[t.node]])
      BY <1>6 DEF ReferencePoint
    <3>2. [ref[t.node] EXCEPT ![t.point] = commitValue[t.node]] \in [1..2 -> Value \cup {None}]
      BY <1>2, <1>5, <2>1
    <3> QED BY <1>2, <1>5, <3>1, <3>2
  <2> QED BY <1>3, <1>4, <2>2, TypeQuiet DEF TypeInv, PointsTyped, bbVars
<1>7. CASE CommitPoint(t)
  <2>1. t.point \in {2, 3}
    BY <1>1, <1>7 DEF TimerOK, CommitPoint
  <2> DEFINE v == IF Cardinality(blckSet[t.node]) = 1 THEN SingleOrZero(blckSet[t.node])
                  ELSE ref[t.node][t.point - 1]
  <2>2. ref' = ref /\ (D' = D \/ D' = [D EXCEPT ![t.node][t.point] = v])
    BY <1>7 DEF CommitPoint
  <2>3. v \in Value \cup {None}
    <3>1. blckSet[t.node] \in SUBSET Value
      BY <1>2 DEF TypeInv, SetsTyped
    <3>2. t.point - 1 \in 1..2
      BY <2>1
    <3> QED BY <1>2, <1>5, <3>1, <3>2, SingleTyped
  <2> HIDE DEF v
  <2>4. [D[t.node] EXCEPT ![t.point] = v] \in [1..3 -> Value \cup {None}]
    BY <1>2, <1>5, <2>1, <2>3
  <2>5. D' \in [Node -> [1..3 -> Value \cup {None}]]
    BY <1>2, <1>5, <2>2, <2>4
  <2> QED BY <1>3, <1>4, <2>2, <2>5, TypeQuiet DEF TypeInv, PointsTyped, bbVars
<1> QED BY <1>6, <1>7

LEMMA TypeCommitPoint1 ==
  ASSUME TypeInv, NEW n \in Node, CommitPoint1(n)
  PROVE  TypeInv'
<1>1. /\ QuietRun /\ timers' = timers /\ tasks' = tasks /\ net' = net
      /\ UNCHANGED <<dsVars, proposeSet, voteMap, qcSet, blckSet, baBlckSet, bbCommit, bbValue, ref>>
      /\ D' = [D EXCEPT ![n][1] = bbValue[n]]
      /\ trigger' = [trigger EXCEPT ![n] = 0] /\ tbbCommit' = [tbbCommit EXCEPT ![n] = TRUE]
  BY DEF CommitPoint1, QuietRun, roundVars, wireVars
<1>2. SetsTyped'
  BY <1>1 DEF TypeInv, SetsTyped, dsVars
<1>3. D \in [Node -> [1..3 -> Value \cup {None}]] /\ bbValue[n] \in Value \cup {None}
  BY DEF TypeInv, PointsTyped, SetsTyped
<1>4. [D[n] EXCEPT ![1] = bbValue[n]] \in [1..3 -> Value \cup {None}]
  BY <1>3
<1>5. D' \in [Node -> [1..3 -> Value \cup {None}]]
  BY <1>1, <1>3, <1>4
<1>6. PointsTyped'
  BY <1>1, <1>5 DEF TypeInv, PointsTyped
<1> QED BY <1>1, <1>2, <1>6, TypeQuiet DEF TypeInv

\* The client and the queries.
LEMMA TypeClient ==
  ASSUME TypeInv,
         \/ \E m \in Inbox : ClientInit(m) \/ HandleQuery(m) \/ ClientReply(m)
         \/ \E t \in Ripe : ClientQuery(t)
  PROVE  TypeInv'
<1>1. /\ QuietRun /\ tasks' = tasks
      /\ UNCHANGED <<dsVars, bbVars, tbbVars>>
  BY DEF ClientInit, HandleQuery, ClientReply, ClientQuery, QuietRun
<1>2. SetsTyped' /\ PointsTyped'
  BY <1>1 DEF TypeInv, SetsTyped, PointsTyped, dsVars, bbVars, tbbVars
<1>3. \A t \in timers' : t \in timers \/ (t.what # "start" /\ TimerOK(t))
  <2>1. \A x : QueryTimer(x).what # "start" /\ TimerOK(QueryTimer(x))
    BY DEF QueryTimer, TimerOK
  <2> QED BY <2>1 DEF ClientInit, HandleQuery, ClientReply, ClientQuery
<1>4. AllOK(net')
  <2>1. CASE net' \subseteq net
    BY <2>1 DEF TypeInv, AllOK
  <2>2. ASSUME NEW m \in Inbox, HandleQuery(m) PROVE AllOK(net')
    <3> DEFINE r == [kind |-> "Reply", to |-> Client, val |-> FirstOf(D[m.to]),
                     qcs |-> Cardinality(qcSet[m.to]), asked |-> m.asked,
                     due |-> Soon("Reply")]
    <3>1. AllOK({r}) /\ AllOK(net \ {m})
      BY DEF AllOK, MsgOK, TypeInv
    <3>2. Wire(net \ {m}, {r})
      BY <2>2 DEF HandleQuery
    <3> QED BY <3>1, <3>2, WireTyped
  <2>3. ASSUME NEW t \in Ripe, ClientQuery(t) PROVE AllOK(net')
    <3> DEFINE q == [kind |-> "Query", to |-> View, asked |-> Len(sessions), due |-> Soon("Query")]
    <3>1. AllOK({q}) /\ AllOK(net)
      BY DEF AllOK, MsgOK, TypeInv
    <3>2. Wire(net, {q})
      BY <2>3 DEF ClientQuery
    <3> QED BY <3>1, <3>2, WireTyped
  <2> QED BY <2>1, <2>2, <2>3 DEF ClientInit, ClientReply
<1> QED BY <1>1, <1>2, <1>3, <1>4, TypeQuiet

LEMMA TypeNext == TypeInv /\ [Next]_vars => TypeInv'
<1> SUFFICES ASSUME TypeInv, [Next]_vars PROVE TypeInv'
  OBVIOUS
<1>1. CASE UNCHANGED vars
  BY <1>1 DEF vars, roundVars, wireVars, proposerVars, dsVars, bbVars, tbbVars, TypeInv, RunTyped,
     SetsTyped, PointsTyped, TasksTyped, TimersTyped, TimerOK
<1>2. CASE ClockTick
  BY <1>2 DEF ClockTick, Tick, wireVars, proposerVars, dsVars, bbVars, tbbVars, TypeInv, RunTyped,
     SetsTyped, PointsTyped, TasksTyped, TimersTyped, TimerOK
<1> QED BY <1>1, <1>2, TypeProposer, TypeDs, TypeBb, TypeViewInit, TypeViewPropose, TypeHandleInit,
           TypeHandlePropose, TypePoints, TypeCommitPoint1, TypeClient DEF Next

\* Every value at a commit point, a reference point or in a certificate is a
\* string or "0" or "bad", the votes counted are those of nodes, and a value
\* is in BlckSet exactly if it has a certificate, whatever is lost, late or
\* racing, for any number of nodes.
THEOREM TbbTyped == Spec => []TypeOK
<1>1. TypeInv => TypeOK
  <2>1. 0..1 = {0, 1}
    OBVIOUS
  <2> QED BY <2>1 DEF TypeInv, RunTyped, SetsTyped, PointsTyped, TypeOK
<1> QED BY <1>1, TypeInit, TypeNext, PTL DEF Spec

-----------------------------------------------------------------------------
(* Agreement of the commit points.                                         *)

\* The nodes that act: the honest ones and the view.
Alive == Honest \cup {View}

\* What the theorems assume of an execution so far: hops in time, every Init
\* delivered, sessions that had their time, and votes of more than one node
\* behind a certificate if the view is malicious.
Undisturbed ==
  /\ Synchronous /\ "Init" \notin setup.lossKind /\ SessionsDoNotOverlap
  /\ View \in Honest \/ Quorum >= 2

\* What the view proposes in session j.
PropOf(j) == IF View \in malicious THEN Bad ELSE sessions[j].val

\* A node that has heard of no value but p, apart from a malicious view's
\* own vote.
NodeHas(n, p) ==
  /\ extrSet[n] \subseteq {p} /\ proposeSet[n] \subseteq {p} /\ blckSet[n] \subseteq {p}
  /\ \A i \in 1..3 : D[n][i] \in {None, p}
  /\ \A i \in 1..2 : ref[n][i] \in {None, p}
  /\ trigger[n] = 1 => bbCommit[n] /\ bbValue[n] = p
  /\ \A v \in Value \ {p} : voteMap[n][v] \in {NoVotes, {View}}

\* Every honest node has the proposal of the session it is in, or nothing.
NodesOK ==
  \A n \in Honest :
    \/ \A p : NodeHas(n, p)
    \/ \E j \in 1..Len(sessions) : startTime[n] = sessions[j].start /\ NodeHas(n, PropOf(j))

\* The nodes that have extracted the proposal.
Has == {n \in Node : Proposal \in extrSet[n]}

Running == sessions # <<>> /\ pc # "start"

\* Who is not in the running session yet is about to be.
StartsOK ==
  sessions # <<>> =>
    /\ startTime[View] = Start
    /\ \A n \in Alive :
         startTime[n] = Start \/ (pc = "start" /\ \E m \in net : m.kind = "Init" /\ m.to = n)

\* A message is of the running session, and a list with s signatures has
\* passed s - 1 nodes in as many ticks.
MsgIn(m) ==
  /\ m.to \in Alive \cup {Client} /\ m.due \in Int /\ m.due >= now
  /\ m.kind = "Init" => sessions # <<>> /\ pc = "start" /\ m.start = Start /\ m.due < Start
  /\ m.kind \in {"Propose", "Forward", "Forward1", "Vote"} => Running
  /\ m.kind = "Propose" => m.val = Proposal /\ m.due <= Start
  /\ m.kind = "Forward" => /\ m.val = Proposal /\ m.sigs \in Nat /\ m.sigs >= 1
                           /\ m.due <= Start + m.sigs - 1
                           /\ Cardinality(Has) >= m.sigs - 1
  /\ m.kind = "Forward1" => m.val = Proposal /\ m.due <= Start + 1
  /\ m.kind = "Vote" => /\ m.val = Proposal \/ (m.from = View /\ View \in malicious)
                        /\ m.due <= Start + 2
  /\ m.kind \in {"Query", "Reply"} => m.asked \in Nat /\ m.asked <= Len(sessions)
  /\ m.kind = "Query" => m.to = View
  /\ m.kind = "Reply" =>
       (View \in Honest /\ m.asked = Len(sessions) /\ m.val # None
          => sessions # <<>> /\ m.val = Proposal)
NetOK == \A m \in net : MsgIn(m)

\* No handler of a forward spins, and no vote outlives its session; a vote
\* for another value than the proposal is that of a malicious view.
TaskIn(k) ==
  /\ k.for = "Forward" =>
       /\ k.node \in Alive /\ Running /\ k.at = "add" /\ k.val = Proposal
       /\ k.sigs \in Nat /\ k.sigs >= 1 /\ now <= Start + k.sigs - 1
       /\ Cardinality(Has \ {k.node}) >= k.sigs - 1
  /\ k.for = "vote" =>
       /\ Running /\ k.at # "spin" /\ now <= Start + 2 /\ k.node \in Alive
       /\ \/ k.val = Proposal
          \/ /\ k.signer = View /\ View \in malicious
             /\ k.at = "tally" /\ ~k.create => voteMap[k.node][k.val] # NoVotes
TasksOK == \A k \in tasks : TaskIn(k)

\* Votes are sent a tick after the proposal.
TimerIn(t) ==
  /\ t.what = "vote" => /\ t.node \in Alive /\ Running
                        /\ t.at \in Int /\ now <= t.at /\ t.at <= Start + 1
  /\ t.what = "start" => /\ sessions # <<>> /\ pc = "start" /\ now <= Start
                         /\ t = [node |-> View, at |-> Start, what |-> "start"]
TimersOK == \A t \in timers : TimerIn(t)

\* What the client has confirmed of an honest view's session is its string.
ConfirmedOK ==
  \A c \in confirmed :
    /\ c.session \in Nat /\ c.session <= Len(sessions)
    /\ View \in Honest /\ c.asked = c.session /\ c.val # None =>
         c.session \in 1..Len(sessions) /\ c.val = sessions[c.session].val

StartsDiffer ==
  \A i, j \in 1..Len(sessions) : i < j => sessions[i].start < sessions[j].start

Good == NodesOK /\ StartsOK /\ NetOK /\ TasksOK /\ TimersOK /\ ConfirmedOK /\ StartsDiffer

TbbInv == TypeInv /\ Counted /\ (Undisturbed => Good)

CalmStep ==
  TypeInv /\ TypeInv' /\ Counted /\ Undisturbed /\ Undisturbed' /\ Good /\ setup' = setup

-----------------------------------------------------------------------------
(* Steps that start and end no session.                                    *)

SameRun ==
  UNCHANGED <<now, startTime, setup, sessions>> /\ (pc' = "start" <=> pc = "start")

LEMMA SameSession ==
  ASSUME SameRun
  PROVE  /\ UNCHANGED <<malicious, Honest, Alive, Start, Proposal, Running>>
         /\ \A j : PropOf(j)' = PropOf(j)
BY DEF SameRun, malicious, Honest, Alive, Last, Start, Proposal, Running, PropOf

LEMMA HasFinite ==
  ASSUME NEW S \in SUBSET Node
  PROVE  /\ IsFiniteSet(S) /\ Cardinality(S) \in Nat /\ Cardinality(S) <= N
         /\ \A T \in SUBSET S : IsFiniteSet(T) /\ Cardinality(T) <= Cardinality(S)
<1>1. IsFiniteSet(Node) /\ Cardinality(Node) = N
  <2>1. N \in Nat /\ N >= 1
    BY NatN
  <2>2. IsFiniteSet(0..N - 1) /\ Cardinality(0..N - 1) = IF 0 > N - 1 THEN 0 ELSE (N - 1) - 0 + 1
    BY <2>1, FS_Interval
  <2> QED BY <2>1, <2>2 DEF Node
<1>2. IsFiniteSet(S) /\ Cardinality(S) <= Cardinality(Node)
  BY <1>1, FS_Subset
<1>3. Cardinality(S) \in Nat
  BY <1>2, FS_CardinalityType
<1>4. ASSUME NEW T \in SUBSET S PROVE IsFiniteSet(T) /\ Cardinality(T) <= Cardinality(S)
  BY <1>2, FS_Subset
<1> QED BY <1>1, <1>2, <1>3, <1>4

LEMMA SessionFacts ==
  ASSUME TypeInv, sessions # <<>>
  PROVE  /\ now \in Nat /\ Last \in Session /\ Start \in Nat /\ Last.val \in String
         /\ Len(sessions) \in Nat /\ Len(sessions) >= 1 /\ PropOf(Len(sessions)) = Proposal
         /\ Start = sessions[Len(sessions)].start
<1>1. Last \in Session /\ now \in Nat /\ Len(sessions) \in Nat /\ Len(sessions) >= 1
  BY DEF TypeInv, RunTyped, Last
<1> QED BY <1>1 DEF Session, Start, Last, Proposal, PropOf

\* More extracting nodes are no harm.
HasGrows == Has \subseteq Has'
VotesStay == \A n \in Node, v \in Value : voteMap[n][v] # NoVotes => voteMap'[n][v] # NoVotes

LEMMA MsgStays ==
  ASSUME CalmStep, SameRun, HasGrows, NEW m \in net
  PROVE  MsgIn(m)'
<1>1. MsgIn(m)
  BY DEF CalmStep, Good, NetOK
<1>2. /\ UNCHANGED <<malicious, Honest, Alive, Start, Proposal, Running>>
      /\ UNCHANGED <<now, sessions>> /\ (pc' = "start" <=> pc = "start")
  BY SameSession DEF SameRun
<1>3. Has' \in SUBSET Node
  BY DEF Has
<1>4. Cardinality(Has) \in Nat /\ Cardinality(Has') \in Nat /\ Cardinality(Has) <= Cardinality(Has')
  BY <1>3, HasFinite DEF HasGrows
<1>5. m.kind = "Forward" => Cardinality(Has)' >= m.sigs - 1
  BY <1>1, <1>4 DEF MsgIn
<1> QED BY <1>1, <1>2, <1>5 DEF MsgIn

LEMMA TaskStays ==
  ASSUME CalmStep, SameRun, HasGrows, VotesStay, NEW k \in tasks
  PROVE  TaskIn(k)'
<1>1. TaskIn(k) /\ k.node \in Node /\ k.val \in Value
  BY DEF CalmStep, Good, TasksOK, TypeInv, TasksTyped, TaskOK
<1>2. /\ UNCHANGED <<malicious, Honest, Alive, Start, Proposal, Running>>
      /\ UNCHANGED <<now, sessions>> /\ (pc' = "start" <=> pc = "start")
  BY SameSession DEF SameRun
<1>3. Has' \ {k.node} \in SUBSET Node /\ Has \ {k.node} \in SUBSET (Has' \ {k.node})
  BY DEF Has, HasGrows
<1>4. /\ Cardinality(Has \ {k.node}) \in Nat /\ Cardinality(Has' \ {k.node}) \in Nat
      /\ Cardinality(Has \ {k.node}) <= Cardinality(Has' \ {k.node})
  BY <1>3, HasFinite
<1>5. k.for = "Forward" => Cardinality(Has' \ {k.node}) >= k.sigs - 1
  BY <1>1, <1>4 DEF TaskIn
<1>6. NoVotes' = NoVotes
  BY DEF NoVotes
<1>7. voteMap[k.node][k.val] # NoVotes => voteMap'[k.node][k.val] # NoVotes
  BY <1>1 DEF VotesStay
<1> QED BY <1>1, <1>2, <1>5, <1>6, <1>7 DEF TaskIn

LEMMA TimerStays ==
  ASSUME CalmStep, SameRun, NEW t \in timers
  PROVE  TimerIn(t)'
<1>1. TimerIn(t)
  BY DEF CalmStep, Good, TimersOK
<1>2. /\ UNCHANGED <<malicious, Honest, Alive, Start, Proposal, Running>>
      /\ UNCHANGED <<now, sessions>> /\ (pc' = "start" <=> pc = "start")
  BY SameSession DEF SameRun
<1> QED BY <1>1, <1>2 DEF TimerIn

LEMMA SameGood ==
  ASSUME CalmStep, SameRun, HasGrows, VotesStay, NodesOK', ConfirmedOK',
         \A m \in net' : m \in net \/ MsgIn(m)',
         \A m \in net : m.kind = "Init" /\ m.to \in Alive => m \in net',
         \A k \in tasks' : k \in tasks \/ TaskIn(k)',
         \A t \in timers' : t \in timers \/ TimerIn(t)'
  PROVE  Good'
<1>1. /\ UNCHANGED <<malicious, Honest, Alive, Start, Proposal, Running>>
      /\ UNCHANGED <<now, sessions, startTime>> /\ (pc' = "start" <=> pc = "start")
  BY SameSession DEF SameRun
<1>2. NetOK'
  BY MsgStays DEF NetOK
<1>3. TasksOK'
  BY TaskStays DEF TasksOK
<1>4. TimersOK'
  BY TimerStays DEF TimersOK
<1>5. StartsOK'
  BY <1>1 DEF CalmStep, Good, StartsOK
<1>6. StartsDiffer'
  BY <1>1 DEF CalmStep, Good, StartsDiffer
<1> QED BY <1>2, <1>3, <1>4, <1>5, <1>6 DEF Good

\* A node that nothing has changed.
SameAt(n) ==
  /\ extrSet'[n] = extrSet[n] /\ proposeSet'[n] = proposeSet[n] /\ blckSet'[n] = blckSet[n]
  /\ D'[n] = D[n] /\ ref'[n] = ref[n] /\ trigger'[n] = trigger[n]
  /\ bbCommit'[n] = bbCommit[n] /\ bbValue'[n] = bbValue[n] /\ voteMap'[n] = voteMap[n]

LEMMA NodeSame ==
  ASSUME NEW n, NEW p, SameAt(n), NodeHas(n, p)
  PROVE  NodeHas(n, p)'
BY DEF SameAt, NodeHas, NoVotes

\* A node that knows the running session has its proposal at most.
LEMMA CurrentHas ==
  ASSUME TypeInv, Good, NEW n \in Honest, sessions # <<>>, startTime[n] = Start
  PROVE  NodeHas(n, Proposal)
<1>1. CASE \A p : NodeHas(n, p)
  BY <1>1
<1>2. ASSUME NEW j \in 1..Len(sessions), startTime[n] = sessions[j].start, NodeHas(n, PropOf(j))
      PROVE  NodeHas(n, Proposal)
  <2>1. /\ Start \in Nat /\ Len(sessions) \in Nat /\ Len(sessions) >= 1
        /\ PropOf(Len(sessions)) = Proposal /\ Start = sessions[Len(sessions)].start
    BY SessionFacts
  <2>2. ~(j < Len(sessions))
    <3>1. j < Len(sessions) => sessions[j].start < sessions[Len(sessions)].start
      BY <2>1 DEF Good, StartsDiffer
    <3>2. sessions[j].start = Start
      BY <1>2
    <3> QED BY <2>1, <3>1, <3>2
  <2>3. j = Len(sessions)
    BY <2>1, <2>2
  <2> QED BY <1>2, <2>1, <2>3
<1> QED BY <1>1, <1>2 DEF Good, NodesOK

\* A step that changes one node at most.
LEMMA NodesFromOne ==
  ASSUME CalmStep, SameRun, NEW n, \A o \in Node \ {n} : SameAt(o),
         n \in Honest =>
           \/ \A p : NodeHas(n, p) => NodeHas(n, p)'
           \/ sessions # <<>> /\ startTime[n] = Start /\ NodeHas(n, Proposal)'
  PROVE  NodesOK'
<1>1. /\ Honest' = Honest /\ sessions' = sessions /\ startTime' = startTime
      /\ \A j : PropOf(j)' = PropOf(j)
  BY SameSession DEF SameRun
<1> SUFFICES ASSUME NEW o \in Honest
             PROVE  \/ \A p : NodeHas(o, p)'
                    \/ \E j \in 1..Len(sessions) : /\ startTime[o] = sessions[j].start
                                                   /\ NodeHas(o, PropOf(j))'
  <2>1. NodesOK' = \A o \in Honest :
                     \/ \A p : NodeHas(o, p)'
                     \/ \E j \in 1..Len(sessions) : /\ startTime[o] = sessions[j].start
                                                    /\ NodeHas(o, PropOf(j))'
    BY <1>1 DEF NodesOK
  <2> QED BY <2>1
<1>2. ASSUME \A p : NodeHas(o, p) => NodeHas(o, p)'
      PROVE  \/ \A p : NodeHas(o, p)'
             \/ \E j \in 1..Len(sessions) : /\ startTime[o] = sessions[j].start
                                            /\ NodeHas(o, PropOf(j))'
  <2>1. CASE \A p : NodeHas(o, p)
    BY <1>2, <2>1
  <2>2. ASSUME NEW j \in 1..Len(sessions), startTime[o] = sessions[j].start, NodeHas(o, PropOf(j))
        PROVE  NodeHas(o, PropOf(j))'
    <3> DEFINE q == PropOf(j)
    <3>1. NodeHas(o, q) /\ q' = q
      BY <1>1, <2>2
    <3> HIDE DEF q
    <3>2. \A p : p = q => NodeHas(o, p)'
      BY <1>2, <3>1
    <3>3. NodeHas(o, q)'
      BY <3>1, <3>2 DEF NodeHas
    <3> QED BY <3>3 DEF q
  <2> QED BY <2>1, <2>2 DEF CalmStep, Good, NodesOK
<1>3. CASE o # n
  <2>1. SameAt(o)
    BY <1>3 DEF Honest
  <2> QED BY <1>2, <2>1, NodeSame
<1>4. CASE o = n /\ sessions # <<>> /\ startTime[n] = Start /\ NodeHas(n, Proposal)'
  <2>1. /\ Len(sessions) \in 1..Len(sessions) /\ PropOf(Len(sessions)) = Proposal
        /\ Start = sessions[Len(sessions)].start
    BY <1>4, SessionFacts DEF CalmStep
  <2>2. PICK j : j = Len(sessions)
    OBVIOUS
  <2>3. PropOf(j)' = Proposal'
    BY <1>1, <2>1, <2>2, SameSession
  <2>4. NodeHas(o, PropOf(j))'
    BY <1>4, <2>3 DEF NodeHas
  <2>5. j \in 1..Len(sessions) /\ startTime[o] = sessions[j].start
    BY <1>4, <2>1, <2>2
  <2> QED BY <2>4, <2>5
<1> QED BY <1>2, <1>3, <1>4

\* Steps that leave all sets and points alone.
SetsSame ==
  UNCHANGED <<extrSet, proposeSet, blckSet, D, ref, trigger, bbCommit, bbValue, voteMap>>
LEMMA SetsStay ==
  ASSUME CalmStep, SameRun, SetsSame
  PROVE  HasGrows /\ VotesStay /\ NodesOK'
<1>1. \A o : SameAt(o)
  BY DEF SameAt, SetsSame
<1>2. HasGrows /\ VotesStay
  BY SameSession DEF HasGrows, VotesStay, SetsSame, Has
<1>3. NodesOK'
  <2>1. \A n, p : NodeHas(n, p) => NodeHas(n, p)'
    BY <1>1, NodeSame
  <2>2. \A o \in Node \ {View} : SameAt(o)
    BY <1>1
  <2> QED BY <2>1, <2>2, NodesFromOne
<1> QED BY <1>2, <1>3

LEMMA ConfirmedStays ==
  ASSUME CalmStep, UNCHANGED <<confirmed, setup, sessions>>
  PROVE  ConfirmedOK'
BY DEF CalmStep, Good, ConfirmedOK, Honest, malicious

\* What is sent in time arrives as it was sent, if it arrives.
LEMMA SentIn ==
  ASSUME CalmStep, NEW before, NEW msgs, IsFiniteSet(msgs), Wire(before, msgs)
  PROVE  /\ before \subseteq net'
         /\ \A m \in net' : m \in before \/ (m \in msgs /\ m.to \notin Deaf)
         /\ \A m \in msgs : m.kind = "Init" /\ m.to \notin Deaf => m \in net'
<1>1. lates' = 0 /\ "Init" \notin setup.lossKind /\ Counted
  BY DEF CalmStep, Undisturbed, Synchronous
<1>2. PICK lost : /\ lost \subseteq msgs /\ \A m \in lost : m.kind \in setup.lossKind
                  /\ net' = before \cup ({m \in msgs : m.to \notin Deaf} \ lost)
  BY <1>1, SyncWire
<1> QED BY <1>1, <1>2

LEMMA NotDeaf ==
  ASSUME NEW n \in Node, n \notin Deaf
  PROVE  n \in Alive
BY DEF Deaf, Alive, Honest

\* Messages that carry no value of the session.
LEMMA PlainIn ==
  ASSUME CalmStep, SameRun, NEW m, m.to \in Alive \cup {Client}, m.due \in Int, m.due >= now,
         m.kind \in {"Inject", "Forward2"}
  PROVE  MsgIn(m)'
BY SameSession DEF MsgIn, SameRun

LEMMA SoonIn ==
  ASSUME TypeInv, NEW kind
  PROVE  Soon(kind) \in Int /\ now <= Soon(kind) /\ Soon(kind) <= now + 1 /\ now \in Nat
BY DEF Soon, TypeInv, RunTyped

LEMMA SideGood ==
  ASSUME CalmStep, SameRun, SetsSame, ConfirmedOK',
         \A m \in net' : m \in net \/ MsgIn(m)',
         \A m \in net : m.kind = "Init" /\ m.to \in Alive => m \in net',
         \A k \in tasks' : k \in tasks \/ TaskIn(k)',
         \A t \in timers' : t \in timers \/ TimerIn(t)'
  PROVE  Good'
BY SetsStay, SameGood

-----------------------------------------------------------------------------
(* The proposer and the interactive client.                                *)

LEMMA ProposerGood ==
  ASSUME CalmStep, ProposerNext, UNCHANGED <<dsVars, bbVars, tbbVars, clientVars>>
  PROVE  Good'
<1>1. SetsSame
  BY DEF SetsSame, dsVars, bbVars, tbbVars
<1>2. SameRun /\ UNCHANGED <<confirmed, setup, sessions>>
  BY DEF ProposerNext, SameRun, clientVars, HandleCmdPropose, HandleInject, RunPoll,
     HandleConsensusDone, RunDone, RunStop, roundVars, proposerVars
<1>3. ConfirmedOK'
  BY <1>2, ConfirmedStays
<1>4. ASSUME NEW s \in String, HandleCmdPropose(s) PROVE Good'
  <2> DEFINE m == [kind |-> "Inject", to |-> View, val |-> s, due |-> Soon("Inject")]
  <2>1. Wire(net, {m}) /\ timers' = timers /\ tasks' = tasks
    BY <1>4 DEF HandleCmdPropose
  <2>2. IsFiniteSet({m})
    BY FS_Singleton
  <2>3. /\ m.to \in Alive \cup {Client} /\ m.due \in Int /\ m.due >= now
        /\ m.kind \in {"Inject", "Forward2"}
    BY SoonIn DEF CalmStep, Alive
  <2> HIDE DEF m
  <2>4. PICK o : o = m
    OBVIOUS
  <2>5. MsgIn(o)'
    BY <1>2, <2>3, <2>4, PlainIn
  <2>6. net \subseteq net' /\ \A x \in net' : x \in net \/ x = o
    BY <2>1, <2>2, <2>4, SentIn
  <2> QED BY <1>1, <1>2, <1>3, <2>1, <2>5, <2>6, SideGood
<1>5. ASSUME NEW m \in Inbox, HandleInject(m) PROVE Good'
  <2>1. m.kind = "Inject" /\ net' = net \ {m} /\ timers' = timers /\ tasks' = tasks
    BY <1>5 DEF HandleInject
  <2> QED BY <1>1, <1>2, <1>3, <2>1, SideGood
<1>6. CASE RunPoll \/ RunDone
  <2>1. net' = net /\ timers' = timers /\ tasks' = tasks
    BY <1>6 DEF RunPoll, RunDone, roundVars, wireVars
  <2> QED BY <1>1, <1>2, <1>3, <2>1, SideGood
<1>7. ASSUME NEW t \in Ripe, HandleConsensusDone(t) PROVE Good'
  <2>1. net' = net /\ timers' \subseteq timers /\ tasks' = tasks
    BY <1>7 DEF HandleConsensusDone, wireVars
  <2> QED BY <1>1, <1>2, <1>3, <2>1, SideGood
<1>8. CASE RunStop
  <2>1. pc # "start" /\ net' \subseteq net /\ timers' \subseteq timers /\ tasks' \subseteq tasks
    BY <1>8 DEF RunStop
  <2>2. \A m \in net : m.kind # "Init"
    BY <2>1 DEF CalmStep, Good, NetOK, MsgIn
  <2> QED BY <1>1, <1>2, <1>3, <2>1, <2>2, SideGood
<1> QED BY <1>4, <1>5, <1>6, <1>7, <1>8 DEF ProposerNext

-----------------------------------------------------------------------------
(* Dolev-Strong.                                                           *)

\* A handler in time forwards at once.
LEMMA ForwardNow ==
  ASSUME CalmStep, NEW n \in Alive, Running, NEW val, NEW sigs \in Nat, sigs >= 1,
         now <= Start + sigs - 1, NEW netLeft, NEW tasksLeft, NEW also,
         ForwardOrSpin(n, val, sigs, netLeft, tasksLeft, also)
  PROVE  /\ Wire(netLeft, also \cup ToAll(n, ForwardMsg(n, val, sigs + 1)))
         /\ tasks' = tasksLeft
<1>1. startTime[n] = Start
  BY DEF CalmStep, Good, StartsOK, Running
<1>2. Start \in Nat /\ now \in Nat
  BY SessionFacts DEF CalmStep, Running
<1>3. Round(n) < sigs
  BY <1>1, <1>2 DEF Round
<1>4. ~(Round(n) >= sigs)
  BY <1>1, <1>2, <1>3 DEF Round
<1> QED BY <1>4 DEF ForwardOrSpin

LEMMA ForwardIn ==
  ASSUME CalmStep, SameRun, Running, NEW n \in Node, NEW sigs \in Nat, sigs >= 1,
         now <= Start + sigs - 1, Cardinality(Has)' >= sigs,
         NEW m \in ToAll(n, ForwardMsg(n, Proposal, sigs + 1)), m.to \notin Deaf
  PROVE  MsgIn(m)'
<1>1. /\ m.kind = "Forward" /\ m.val = Proposal /\ m.sigs = sigs + 1
      /\ m.due = Soon("Forward") /\ m.to \in Node
  BY DEF ToAll, ForwardMsg
<1>2. m.to \in Alive
  BY <1>1, NotDeaf
<1>3. Start \in Nat /\ now \in Nat /\ Soon("Forward") \in Int /\ now <= Soon("Forward")
      /\ Soon("Forward") <= now + 1
  BY SessionFacts, SoonIn DEF CalmStep, Running
<1>4. m.due \in Int /\ m.due >= now /\ m.due <= Start + m.sigs - 1 /\ m.sigs \in Nat /\ m.sigs >= 1
  BY <1>1, <1>3
<1>5. Cardinality(Has)' >= m.sigs - 1
  <2>1. m.sigs - 1 = sigs
    BY <1>1
  <2> QED BY <2>1
<1>6. UNCHANGED <<Alive, Start, Proposal, Running, now, sessions>>
  BY SameSession DEF SameRun
<1> QED BY <1>1, <1>2, <1>4, <1>5, <1>6 DEF MsgIn

LEMMA HandleForwardGood ==
  ASSUME CalmStep, SameRun, NEW m \in Inbox, DsHandleForward(m),
         UNCHANGED <<bbVars, tbbVars, clientVars>>
  PROVE  Good'
<1>1. /\ m \in net /\ m.kind = "Forward" /\ net' = net \ {m} /\ timers' = timers
      /\ tasks' = IF m.val \in extrSet[m.to] THEN tasks
                  ELSE tasks \cup {[node |-> m.to, at |-> "add", for |-> "Forward",
                                    val |-> m.val, sigs |-> m.sigs]}
      /\ SetsSame /\ UNCHANGED <<confirmed, setup, sessions>>
  BY DEF DsHandleForward, Inbox, dsVars, bbVars, tbbVars, clientVars, SetsSame, SameRun
<1>2. MsgIn(m) /\ m.to \in Node
  BY <1>1 DEF CalmStep, Good, NetOK, TypeInv, AllOK, MsgOK
<1>3. /\ m.to \in Alive /\ Running /\ m.val = Proposal /\ m.sigs \in Nat /\ m.sigs >= 1
      /\ m.due \in Int /\ m.due >= now /\ m.due <= Start + m.sigs - 1
      /\ Cardinality(Has) >= m.sigs - 1
  BY <1>1, <1>2, Places DEF MsgIn
<1>4. ASSUME NEW k \in tasks', k \notin tasks PROVE TaskIn(k)'
  <2>1. /\ k = [node |-> m.to, at |-> "add", for |-> "Forward", val |-> m.val, sigs |-> m.sigs]
        /\ m.val \notin extrSet[m.to]
    BY <1>1, <1>4
  <2>2. Has' = Has
    BY <1>1, SameSession DEF Has, SetsSame
  <2>3. Has \ {m.to} = Has
    BY <1>3, <2>1 DEF Has
  <2>4. Cardinality(Has' \ {k.node}) >= k.sigs - 1
    BY <1>3, <2>1, <2>2, <2>3
  <2>5. now \in Nat /\ Start \in Nat
    BY <1>3, SessionFacts DEF CalmStep, Running
  <2>6. now <= Start + k.sigs - 1
    BY <1>3, <2>1, <2>5
  <2>7. UNCHANGED <<Alive, Start, Proposal, Running, now>>
    BY SameSession DEF SameRun
  <2> QED BY <1>3, <2>1, <2>4, <2>6, <2>7 DEF TaskIn
<1> QED BY <1>1, <1>4, ConfirmedStays, SideGood

\* Extracting the proposal in the running session.
LEMMA ExtractHas ==
  ASSUME CalmStep, SameRun, Running, NEW n \in Node, startTime[n] = Start,
         extrSet' = [extrSet EXCEPT ![n] = @ \cup {Proposal}]
  PROVE  /\ HasGrows /\ Has' = Has \cup {n} /\ n \in Has'
         /\ \A o \in Node \ {n} : extrSet'[o] = extrSet[o]
         /\ extrSet'[n] = extrSet[n] \cup {Proposal}
<1>1. extrSet \in [Node -> SUBSET Value] /\ Proposal' = Proposal
  BY SameSession DEF CalmStep, TypeInv, SetsTyped
<1>2. /\ \A o \in Node \ {n} : extrSet'[o] = extrSet[o]
      /\ extrSet'[n] = extrSet[n] \cup {Proposal}
  BY <1>1
<1> QED BY <1>1, <1>2 DEF Has, HasGrows

LEMMA AddGood ==
  ASSUME CalmStep, SameRun, NEW k \in Ready, DsAdd(k), UNCHANGED <<bbVars, tbbVars, clientVars>>
  PROVE  Good'
<1>1. k \in tasks /\ k.for = "Forward" /\ k.node \in Node
  BY DEF Ready, Urgent, DsAdd, CalmStep, TypeInv, TasksTyped, TaskOK
<1>2. /\ k.node \in Alive /\ Running /\ k.val = Proposal /\ k.sigs \in Nat /\ k.sigs >= 1
      /\ now <= Start + k.sigs - 1 /\ Cardinality(Has \ {k.node}) >= k.sigs - 1
  BY <1>1 DEF CalmStep, Good, TasksOK, TaskIn
<1>3. /\ extrSet' = [extrSet EXCEPT ![k.node] = @ \cup {Proposal}]
      /\ ForwardOrSpin(k.node, Proposal, k.sigs, net, tasks \ {k}, {})
      /\ timers' = timers
  BY <1>2 DEF DsAdd
<1>4. /\ Wire(net, {} \cup ToAll(k.node, ForwardMsg(k.node, Proposal, k.sigs + 1)))
      /\ tasks' = tasks \ {k}
  BY <1>2, <1>3, ForwardNow
<1>5. startTime[k.node] = Start /\ sessions # <<>>
  BY <1>2 DEF CalmStep, Good, StartsOK, Running
<1>6. /\ HasGrows /\ Has' = Has \cup {k.node}
      /\ \A o \in Node \ {k.node} : extrSet'[o] = extrSet[o]
      /\ extrSet'[k.node] = extrSet[k.node] \cup {Proposal}
  BY <1>1, <1>2, <1>3, <1>5, ExtractHas
<1>7. Cardinality(Has)' >= k.sigs
  <2>1. Has' = (Has \ {k.node}) \cup {k.node} /\ k.node \notin Has \ {k.node}
    BY <1>6
  <2>2. Has \ {k.node} \in SUBSET Node
    BY DEF Has
  <2>3. IsFiniteSet(Has \ {k.node}) /\ Cardinality(Has \ {k.node}) \in Nat
    BY <2>2, HasFinite
  <2>4. Cardinality((Has \ {k.node}) \cup {k.node}) = Cardinality(Has \ {k.node}) + 1
    BY <2>1, <2>3, FS_AddElement
  <2>5. Cardinality(Has') = Cardinality(Has \ {k.node}) + 1
    BY <2>1, <2>4
  <2> QED BY <1>2, <2>3, <2>5
<1>8. net \subseteq net' /\ \A m \in net' : m \in net \/ MsgIn(m)'
  <2> DEFINE msgs == ToAll(k.node, ForwardMsg(k.node, Proposal, k.sigs + 1))
  <2>1. IsFiniteSet(msgs) /\ Wire(net, msgs)
    BY <1>4, ToAllFinite
  <2>2. \A m \in msgs : m.to \notin Deaf => MsgIn(m)'
    BY <1>1, <1>2, <1>7, ForwardIn
  <2> HIDE DEF msgs
  <2> QED BY <2>1, <2>2, SentIn
<1>9. UNCHANGED <<proposeSet, blckSet, D, ref, trigger, bbCommit, bbValue, voteMap, confirmed>>
  BY DEF bbVars, tbbVars, clientVars
<1>10. \A o \in Node \ {k.node} : SameAt(o)
  BY <1>6, <1>9 DEF SameAt
<1>11. k.node \in Honest => NodeHas(k.node, Proposal)'
  <2>1. ASSUME k.node \in Honest PROVE NodeHas(k.node, Proposal)
    BY <1>5, <2>1, CurrentHas DEF CalmStep
  <2>2. Proposal' = Proposal /\ NoVotes' = NoVotes
    BY SameSession DEF NoVotes
  <2> QED BY <1>6, <1>9, <2>1, <2>2 DEF NodeHas
<1>12. NodesOK'
  BY <1>5, <1>10, <1>11, NodesFromOne
<1>13. VotesStay
  BY <1>9 DEF VotesStay
<1>14. ConfirmedOK'
  BY <1>9, ConfirmedStays DEF SameRun
<1> QED BY <1>3, <1>4, <1>6, <1>8, <1>12, <1>13, <1>14, SameGood

LEMMA DsGood ==
  ASSUME CalmStep, DsNext, UNCHANGED <<bbVars, tbbVars, clientVars>>
  PROVE  Good'
<1>1. SameRun
  BY DEF DsNext, SameRun, proposerVars
<1>2. ASSUME NEW k \in Ready, DsLeaveLoop(k) PROVE FALSE
  <2>1. k \in tasks /\ k.for = "Forward" /\ k.at = "spin"
    BY <1>2 DEF Ready, Urgent, DsLeaveLoop
  <2> QED BY <2>1 DEF CalmStep, Good, TasksOK, TaskIn
<1>3. ASSUME NEW t \in Ripe, DsCommit(t) PROVE Good'
  <2>1. /\ SetsSame /\ net' = net /\ tasks' = tasks /\ timers' \subseteq timers
        /\ UNCHANGED <<confirmed, setup, sessions>>
    BY <1>1, <1>3 DEF DsCommit, wireVars, SetsSame, bbVars, tbbVars, clientVars, SameRun
  <2> QED BY <1>1, <2>1, ConfirmedStays, SideGood
<1> QED BY <1>1, <1>2, <1>3, HandleForwardGood, AddGood DEF DsNext

-----------------------------------------------------------------------------
(* 1-delta-BB.                                                             *)

BbStep ==
  CalmStep /\ SameRun /\ UNCHANGED <<dsVars, tbbVars, clientVars>>

\* Only the sets of 1-delta-BB may change.
LEMMA BbQuiet ==
  ASSUME BbStep
  PROVE  /\ CalmStep /\ SameRun /\ ConfirmedOK' /\ HasGrows
         /\ UNCHANGED <<extrSet, D, ref, confirmed, sessions>>
         /\ (UNCHANGED <<proposeSet, blckSet, trigger, bbCommit, bbValue, voteMap>> => SetsSame)
<1>1. UNCHANGED <<extrSet, D, ref, confirmed, sessions, setup>> /\ CalmStep /\ SameRun
  BY DEF BbStep, dsVars, tbbVars, clientVars, SameRun
<1>2. HasGrows
  BY <1>1, SameSession DEF Has, HasGrows
<1>3. ConfirmedOK'
  BY <1>1, ConfirmedStays
<1> QED BY <1>1, <1>2, <1>3 DEF SetsSame

\* In the running session the nodes know its start.
LEMMA KnowsStart ==
  ASSUME Good, Running, NEW n \in Alive
  PROVE  startTime[n] = Start /\ sessions # <<>>
BY DEF Good, StartsOK, Running

\* A proposal that arrives at a node, directly or forwarded.
LEMMA ProposedGood ==
  ASSUME CalmStep, SameRun, Running, NEW n \in Node, startTime[n] = Start, BbPropose(n, Proposal),
         \A o \in Node \ {n} : extrSet'[o] = extrSet[o],
         extrSet'[n] \subseteq extrSet[n] \cup {Proposal}, UNCHANGED tbbVars
  PROVE  NodesOK' /\ VotesStay
<1>1. /\ UNCHANGED <<blckSet, D, ref, trigger, bbCommit, bbValue, voteMap>>
      /\ proposeSet' = [proposeSet EXCEPT ![n] = @ \cup {Proposal}]
      /\ proposeSet \in [Node -> SUBSET Value]
  BY DEF BbPropose, tbbVars, CalmStep, TypeInv, SetsTyped
<1>2. \A o \in Node \ {n} : SameAt(o)
  BY <1>1 DEF SameAt
<1>3. proposeSet'[n] = proposeSet[n] \cup {Proposal}
  BY <1>1
<1>4. n \in Honest => NodeHas(n, Proposal)'
  <2>1. ASSUME n \in Honest PROVE NodeHas(n, Proposal)
    BY <2>1, CurrentHas DEF CalmStep, Running
  <2>2. Proposal' = Proposal /\ NoVotes' = NoVotes
    BY SameSession DEF NoVotes
  <2> QED BY <1>1, <1>3, <2>1, <2>2 DEF NodeHas
<1>5. NodesOK'
  BY <1>2, <1>4, NodesFromOne DEF Running
<1> QED BY <1>1, <1>5 DEF VotesStay

LEMMA BbMessagesGood ==
  ASSUME BbStep, NEW m \in Inbox,
         BbHandleForward1(m) \/ BbHandleVote(m) \/ BbInputBA(m) \/ BbForwardBA(m)
  PROVE  Good'
<1>0. /\ CalmStep /\ SameRun /\ ConfirmedOK' /\ HasGrows
      /\ UNCHANGED <<extrSet, D, ref, confirmed, sessions>>
      /\ (UNCHANGED <<proposeSet, blckSet, trigger, bbCommit, bbValue, voteMap>> => SetsSame)
  BY BbQuiet
<1>1. m \in net /\ MsgIn(m) /\ m.val \in Value /\ m.to \in Node /\ m.kind # "Init"
      /\ (m.kind = "Vote" => m.from \in Node)
  BY <1>0 DEF Inbox, BbHandleForward1, BbHandleVote, BbInputBA, BbForwardBA, CalmStep, Good, NetOK,
     TypeInv, AllOK, MsgOK
<1>2. net' = net \ {m} /\ timers' = timers
  BY DEF BbHandleForward1, BbHandleVote, BbInputBA, BbForwardBA
<1>3. m.to \in Alive /\ now \in Nat /\ m.due \in Int /\ m.due >= now
  BY <1>0, <1>1, Places DEF MsgIn, CalmStep, TypeInv, RunTyped
<1>4. CASE BbHandleForward1(m)
  <2>1. Running /\ m.val = Proposal /\ BbPropose(m.to, m.val) /\ tasks' = tasks
    BY <1>1, <1>4 DEF BbHandleForward1, MsgIn
  <2>2. startTime[m.to] = Start
    BY <1>0, <1>3, <2>1, KnowsStart DEF CalmStep
  <2>3. NodesOK' /\ VotesStay
    BY <1>0, <1>1, <2>1, <2>2, ProposedGood DEF BbStep
  <2> QED BY <1>0, <1>1, <1>2, <2>1, <2>3, SameGood
<1>5. CASE BbHandleVote(m)
  <2>1. /\ SetsSame
        /\ tasks' = tasks \cup {Tally(m.to, "vote", m.val, m.from, voteMap[m.to][m.val])}
    BY <1>0, <1>5 DEF BbHandleVote, bbVars
  <2>2. /\ Running /\ m.due <= Start + 2
        /\ m.val = Proposal \/ (m.from = View /\ View \in malicious)
    BY <1>1, <1>5 DEF BbHandleVote, MsgIn
  <2>3. ASSUME NEW k \in tasks', k \notin tasks PROVE TaskIn(k)'
    <3>1. k = Tally(m.to, "vote", m.val, m.from, voteMap[m.to][m.val])
      BY <2>1, <2>3
    <3>2. /\ k.for = "vote" /\ k.at = "tally" /\ k.node = m.to /\ k.val = m.val
          /\ k.signer = m.from /\ (~k.create => voteMap[m.to][m.val] # NoVotes)
      BY <3>1 DEF Tally
    <3>3. Start \in Nat
      BY <1>0, <2>2, SessionFacts DEF CalmStep, Running
    <3>4. now <= Start + 2
      BY <1>3, <2>2, <3>3
    <3>5. UNCHANGED <<Alive, Start, Proposal, Running, now, malicious, voteMap, NoVotes>>
      BY <1>0, <2>1, SameSession DEF SameRun, SetsSame, NoVotes
    <3> QED BY <1>3, <2>2, <3>2, <3>4, <3>5 DEF TaskIn
  <2> QED BY <1>0, <1>1, <1>2, <2>1, <2>3, SideGood
<1>6. CASE BbInputBA(m) \/ BbForwardBA(m)
  <2>1. SetsSame /\ \A k \in tasks' : k \in tasks \/ k.for \in {"ba", "Forward2"}
    BY <1>0, <1>6 DEF BbInputBA, BbForwardBA, bbVars, Tally
  <2>2. \A k \in tasks' : k \in tasks \/ TaskIn(k)'
    BY <2>1 DEF TaskIn
  <2> QED BY <1>0, <1>1, <1>2, <2>1, <2>2, SideGood
<1> QED BY <1>4, <1>5, <1>6

\* The addition of a vote.
LEMMA TallyGood ==
  ASSUME BbStep, NEW k \in Ready, BbTally(k)
  PROVE  Good'
<1>0. /\ CalmStep /\ SameRun /\ ConfirmedOK' /\ HasGrows
      /\ UNCHANGED <<extrSet, D, ref, confirmed, sessions>>
      /\ (UNCHANGED <<proposeSet, blckSet, trigger, bbCommit, bbValue, voteMap>> => SetsSame)
  BY BbQuiet
<1>1. /\ k \in tasks /\ k.at = "tally" /\ k.node \in Node /\ k.val \in Value /\ TaskIn(k)
      /\ (k.for = "vote" => k.signer \in Node)
  BY <1>0 DEF Ready, Urgent, BbTally, CalmStep, Good, TasksOK, TypeInv, TasksTyped, TaskOK
<1>2. /\ net' = net /\ timers' = timers
      /\ UNCHANGED <<proposeSet, blckSet, trigger, bbCommit, bbValue>>
      /\ \A o \in tasks' : \/ o \in tasks
                           \/ o = [node |-> k.node, at |-> "count", for |-> k.for, val |-> k.val,
                                   signer |-> k.signer]
  BY DEF BbTally, wireVars
<1>3. CASE k.for = "ba"
  <2>1. SetsSame
    BY <1>0, <1>2, <1>3 DEF BbTally
  <2>2. \A o \in tasks' : o \in tasks \/ TaskIn(o)'
    BY <1>2, <1>3 DEF TaskIn
  <2> QED BY <1>0, <1>2, <2>1, <2>2, SideGood
<1>4. CASE k.for = "vote" /\ voteMap' = [voteMap EXCEPT ![k.node][k.val] = AddTo(@, k)]
  <2>1. /\ Running /\ now <= Start + 2 /\ k.node \in Alive
        /\ \/ k.val = Proposal
           \/ /\ k.signer = View /\ View \in malicious
              /\ ~k.create => voteMap[k.node][k.val] # NoVotes
    BY <1>1, <1>4 DEF TaskIn
  <2>2. startTime[k.node] = Start /\ sessions # <<>>
    BY <1>0, <2>1, KnowsStart DEF CalmStep
  <2>3. UNCHANGED <<Alive, Start, Proposal, Running, now, malicious, NoVotes>>
    BY <1>0, SameSession DEF SameRun, NoVotes
  <2>4. \A o \in tasks' : o \in tasks \/ TaskIn(o)'
    BY <1>2, <1>4, <2>1, <2>3 DEF TaskIn
  <2>5. voteMap \in [Node -> [Value -> SUBSET (0..N)]]
    BY <1>0 DEF CalmStep, TypeInv, SetsTyped
  <2>6. /\ \A o \in Node \ {k.node} : voteMap'[o] = voteMap[o]
        /\ \A v \in Value \ {k.val} : voteMap'[k.node][v] = voteMap[k.node][v]
        /\ voteMap'[k.node][k.val] = AddTo(voteMap[k.node][k.val], k)
    BY <1>1, <1>4, <2>5
  <2>7. AddTo(voteMap[k.node][k.val], k) # NoVotes
    BY <1>1, <1>4, Places DEF AddTo, NoVotes
  <2>8. VotesStay
    BY <1>1, <2>6, <2>7 DEF VotesStay
  <2>9. \A o \in Node \ {k.node} : SameAt(o)
    BY <1>0, <1>2, <2>6 DEF SameAt
  <2>10. k.node \in Honest => NodeHas(k.node, Proposal)'
    <3>1. ASSUME k.node \in Honest PROVE NodeHas(k.node, Proposal)'
      <4>1. NodeHas(k.node, Proposal)
        BY <1>0, <2>2, <3>1, CurrentHas DEF CalmStep
      <4>2. ASSUME NEW v \in Value \ {Proposal} PROVE voteMap'[k.node][v] \in {NoVotes, {View}}
        <5>1. voteMap[k.node][v] \in {NoVotes, {View}}
          BY <4>1 DEF NodeHas
        <5>2. CASE v # k.val
          BY <2>6, <5>1, <5>2
        <5>3. CASE v = k.val
          <6>1. k.signer = View /\ (~k.create => voteMap[k.node][k.val] = {View})
            BY <2>1, <5>1, <5>3
          <6>2. AddTo(voteMap[k.node][k.val], k) = {View}
            BY <6>1 DEF AddTo
          <6> QED BY <2>6, <5>3, <6>2
        <5> QED BY <5>2, <5>3
      <4> QED BY <1>0, <1>2, <2>3, <4>1, <4>2 DEF NodeHas
    <3> QED BY <3>1
  <2>11. NodesOK'
    BY <1>0, <2>2, <2>9, <2>10, NodesFromOne
  <2> QED BY <1>0, <1>2, <2>4, <2>8, <2>11, SameGood
<1> QED BY <1>3, <1>4 DEF BbTally

\* The count: no certificate for another value than the proposal.
LEMMA CountVoteGood ==
  ASSUME BbStep, NEW k \in Ready, BbCountVote(k)
  PROVE  Good'
<1>0. /\ CalmStep /\ SameRun /\ ConfirmedOK' /\ HasGrows
      /\ UNCHANGED <<extrSet, D, ref, confirmed, sessions>>
      /\ (UNCHANGED <<proposeSet, blckSet, trigger, bbCommit, bbValue, voteMap>> => SetsSame)
  BY BbQuiet
<1>1. /\ k \in tasks /\ k.for = "vote" /\ k.node \in Node /\ k.val \in Value /\ TaskIn(k)
  BY <1>0 DEF Ready, Urgent, BbCountVote, CalmStep, Good, TasksOK, TypeInv, TasksTyped, TaskOK
<1>2. net' = net /\ timers' = timers /\ tasks' \subseteq tasks
  BY DEF BbCountVote, wireVars
<1>3. CASE UNCHANGED bbVars
  <2>1. SetsSame
    BY <1>0, <1>3 DEF bbVars
  <2> QED BY <1>0, <1>2, <2>1, SideGood
<1>4. CASE /\ MakesQC(k) /\ UNCHANGED <<proposeSet, voteMap>>
           /\ blckSet' = [blckSet EXCEPT ![k.node] = @ \cup {k.val}]
           /\ \/ /\ bbValue' = [bbValue EXCEPT ![k.node] = k.val]
                 /\ bbCommit' = [bbCommit EXCEPT ![k.node] = TRUE]
                 /\ trigger' = [trigger EXCEPT ![k.node] = 1]
              \/ UNCHANGED <<bbValue, bbCommit, trigger>>
  <2>1. /\ Running /\ k.node \in Alive
        /\ k.val = Proposal \/ (k.signer = View /\ View \in malicious)
    BY <1>1 DEF TaskIn
  <2>2. startTime[k.node] = Start /\ sessions # <<>>
    BY <1>0, <2>1, KnowsStart DEF CalmStep
  <2>3. /\ blckSet \in [Node -> SUBSET Value] /\ bbValue \in [Node -> Value \cup {None}]
        /\ bbCommit \in [Node -> BOOLEAN] /\ trigger \in [Node -> {0, 1}]
    BY <1>0 DEF CalmStep, TypeInv, SetsTyped, PointsTyped
  <2>4. \A o \in Node \ {k.node} : SameAt(o)
    BY <1>0, <1>4, <2>3 DEF SameAt
  <2>5. ASSUME k.node \in Honest PROVE NodeHas(k.node, Proposal)'
    <3>1. NodeHas(k.node, Proposal)
      BY <1>0, <2>2, <2>5, CurrentHas DEF CalmStep
    <3>2. k.val = Proposal
      <4> SUFFICES ASSUME k.val # Proposal PROVE FALSE
        OBVIOUS
      <4>1. voteMap[k.node][k.val] \in {NoVotes, {View}}
        BY <1>1, <3>1 DEF NodeHas
      <4>2. Cardinality(voteMap[k.node][k.val]) = 1
        BY <4>1, FS_Singleton DEF NoVotes
      <4>3. Quorum >= 2
        BY <1>0, <2>1 DEF CalmStep, Undisturbed, Honest
      <4> QED BY <1>4, <4>2, <4>3 DEF MakesQC
    <3>3. blckSet'[k.node] \subseteq {Proposal}
      BY <1>1, <1>4, <2>3, <3>1, <3>2 DEF NodeHas
    <3>4. trigger'[k.node] = 1 => bbCommit'[k.node] /\ bbValue'[k.node] = Proposal
      <4>1. CASE UNCHANGED <<bbValue, bbCommit, trigger>>
        BY <3>1, <4>1 DEF NodeHas
      <4>2. CASE /\ bbValue' = [bbValue EXCEPT ![k.node] = k.val]
                 /\ bbCommit' = [bbCommit EXCEPT ![k.node] = TRUE]
        BY <1>1, <2>3, <3>2, <4>2
      <4> QED BY <1>4, <4>1, <4>2
    <3>5. Proposal' = Proposal /\ NoVotes' = NoVotes
      BY <1>0, SameSession DEF NoVotes
    <3> QED BY <1>0, <1>4, <3>1, <3>3, <3>4, <3>5 DEF NodeHas
  <2>6. NodesOK'
    BY <1>0, <2>2, <2>4, <2>5, NodesFromOne
  <2>7. VotesStay
    BY <1>4 DEF VotesStay
  <2> QED BY <1>0, <1>2, <2>6, <2>7, SameGood
<1> QED BY <1>3, <1>4 DEF BbCountVote

\* Sending the values of BADS.
LEMMA Forward2Sent ==
  ASSUME CalmStep, SameRun, NEW n, NEW v, NEW f, NEW s, NEW d \in Int, d >= now,
         Wire(net, ToAll(n, Forward2(n, v, f, s, d)))
  PROVE  net \subseteq net' /\ \A m \in net' : m \in net \/ MsgIn(m)'
<1> DEFINE msgs == ToAll(n, Forward2(n, v, f, s, d))
<1>1. IsFiniteSet(msgs)
  BY ToAllFinite
<1>2. \A m \in msgs : m.kind = "Forward2" /\ m.to \in Node /\ m.due = d
  BY DEF ToAll, Forward2
<1> HIDE DEF msgs
<1>3. ASSUME NEW m \in msgs, m.to \notin Deaf PROVE MsgIn(m)'
  BY <1>2, <1>3, NotDeaf, PlainIn
<1>4. Wire(net, msgs)
  BY DEF msgs
<1> QED BY <1>1, <1>3, <1>4, SentIn

LEMMA BbTasksGood ==
  ASSUME BbStep, NEW k \in Ready,
         BbTally(k) \/ BbCountVote(k) \/ BbCountBA(k) \/ BbLeaveLoop(k)
  PROVE  Good'
<1>0. /\ CalmStep /\ SameRun /\ ConfirmedOK' /\ HasGrows
      /\ (UNCHANGED <<proposeSet, blckSet, trigger, bbCommit, bbValue, voteMap>> => SetsSame)
  BY BbQuiet
<1>1. CASE BbCountBA(k)
  <2>1. SetsSame /\ net' = net /\ tasks' \subseteq tasks
    BY <1>0, <1>1 DEF BbCountBA, bbVars, wireVars
  <2>2. \A t \in timers' : t \in timers \/ t.what = "baSend"
    BY <1>1 DEF BbCountBA
  <2>3. \A t \in timers' : t \in timers \/ TimerIn(t)'
    BY <2>2 DEF TimerIn
  <2> QED BY <1>0, <2>1, <2>3, SideGood
<1>2. CASE BbLeaveLoop(k)
  <2>1. SetsSame /\ timers' = timers /\ tasks' \subseteq tasks
    BY <1>0, <1>2 DEF BbLeaveLoop, bbVars
  <2>2. Wire(net, ToAll(k.node, Forward2(k.node, k.val, k.first, k.sigs + 1, Soon("Forward2"))))
    BY <1>2 DEF BbLeaveLoop
  <2>3. Soon("Forward2") \in Int /\ Soon("Forward2") >= now
    BY <1>0, SoonIn DEF CalmStep
  <2>4. net \subseteq net' /\ \A m \in net' : m \in net \/ MsgIn(m)'
    BY <1>0, <2>2, <2>3, Forward2Sent
  <2> QED BY <1>0, <2>1, <2>4, SideGood
<1> QED BY <1>1, <1>2, TallyGood, CountVoteGood

\* The vote of a node.
LEMMA VoteTimerGood ==
  ASSUME BbStep, NEW t \in Ripe, BbVoteTimer(t)
  PROVE  Good'
<1>0. /\ CalmStep /\ SameRun /\ ConfirmedOK' /\ HasGrows
      /\ UNCHANGED <<extrSet, D, ref, confirmed, sessions>>
      /\ (UNCHANGED <<proposeSet, blckSet, trigger, bbCommit, bbValue, voteMap>> => SetsSame)
  BY BbQuiet
<1>1. t \in timers /\ t.what = "vote" /\ t.node \in Node
  BY <1>0 DEF Ripe, BbVoteTimer, CalmStep, TypeInv, TimersTyped, TimerOK
<1>2. t.node \in Alive /\ Running /\ t.at \in Int /\ now <= t.at /\ t.at <= Start + 1
  BY <1>0, <1>1 DEF CalmStep, Good, TimersOK, TimerIn
<1>3. SetsSame /\ timers' \subseteq timers
  BY <1>0 DEF BbVoteTimer, bbVars
<1>4. CASE UNCHANGED <<tasks, wireVars>>
  BY <1>0, <1>3, <1>4, SideGood DEF wireVars
<1>5. ASSUME NEW v \in proposeSet[t.node],
             tasks' = tasks \cup {Tally(t.node, "vote", v, t.node, voteMap[t.node][v])},
             Wire(net, ToAll(t.node, [kind |-> "Vote", to |-> Client, from |-> t.node,
                                      val |-> v, due |-> Soon("Vote")]))
      PROVE  Good'
  <2>1. startTime[t.node] = Start /\ sessions # <<>>
    BY <1>0, <1>2, KnowsStart DEF CalmStep
  <2>2. v = Proposal \/ (t.node = View /\ View \in malicious)
    <3>1. CASE t.node \in Honest
      <4>1. NodeHas(t.node, Proposal)
        BY <1>0, <2>1, <3>1, CurrentHas DEF CalmStep
      <4> QED BY <1>5, <4>1 DEF NodeHas
    <3>2. CASE t.node \notin Honest
      BY <1>1, <1>2, <3>2 DEF Alive, Honest
    <3> QED BY <3>1, <3>2
  <2>3. Start \in Nat /\ now \in Nat /\ Soon("Vote") \in Int /\ now <= Soon("Vote")
        /\ Soon("Vote") <= now + 1
    BY <1>0, <2>1, SessionFacts, SoonIn DEF CalmStep
  <2>4. now <= Start + 2 /\ Soon("Vote") <= Start + 2
    BY <1>2, <2>3
  <2>5. UNCHANGED <<Alive, Start, Proposal, Running, now, malicious, voteMap, NoVotes, sessions>>
    BY <1>0, <1>3, SameSession DEF SameRun, SetsSame, NoVotes
  <2>6. ASSUME NEW k \in tasks', k \notin tasks PROVE TaskIn(k)'
    <3>1. k = Tally(t.node, "vote", v, t.node, voteMap[t.node][v])
      BY <1>5, <2>6
    <3>2. /\ k.for = "vote" /\ k.at = "tally" /\ k.node = t.node /\ k.val = v
          /\ k.signer = t.node /\ (~k.create => voteMap[t.node][v] # NoVotes)
      BY <3>1 DEF Tally
    <3> QED BY <1>2, <2>2, <2>4, <2>5, <3>2 DEF TaskIn
  <2> DEFINE msgs == ToAll(t.node, [kind |-> "Vote", to |-> Client, from |-> t.node,
                                    val |-> v, due |-> Soon("Vote")])
  <2>7. /\ IsFiniteSet(msgs) /\ Wire(net, msgs)
        /\ \A m \in msgs : /\ m.kind = "Vote" /\ m.to \in Node /\ m.from = t.node /\ m.val = v
                           /\ m.due = Soon("Vote")
    <3>1. IsFiniteSet(msgs)
      BY ToAllFinite
    <3>2. \A m \in msgs : /\ m.kind = "Vote" /\ m.to \in Node /\ m.from = t.node /\ m.val = v
                          /\ m.due = Soon("Vote")
      BY DEF ToAll
    <3> QED BY <1>5, <3>1, <3>2
  <2> HIDE DEF msgs
  <2>8. ASSUME NEW m \in msgs, m.to \notin Deaf PROVE MsgIn(m)'
    <3>1. m.to \in Alive
      BY <2>7, <2>8, NotDeaf
    <3>2. /\ m.kind = "Vote" /\ m.due \in Int /\ m.due >= now /\ m.due <= Start + 2
          /\ m.val = Proposal \/ (m.from = View /\ View \in malicious)
      BY <2>2, <2>3, <2>4, <2>7
    <3> QED BY <1>2, <2>5, <3>1, <3>2 DEF MsgIn
  <2>9. net \subseteq net' /\ \A m \in net' : m \in net \/ MsgIn(m)'
    BY <1>0, <2>7, <2>8, SentIn
  <2> QED BY <1>0, <1>3, <2>6, <2>9, SideGood
<1> QED BY <1>4, <1>5 DEF BbVoteTimer

LEMMA BbTimersGood ==
  ASSUME BbStep, NEW t \in Ripe,
         BbVoteTimer(t) \/ BbStartBA(t) \/ BbSendBA(t) \/ BbFinal(t)
  PROVE  Good'
<1>0. /\ CalmStep /\ SameRun /\ ConfirmedOK' /\ HasGrows
      /\ UNCHANGED <<extrSet, D, ref, confirmed, sessions>>
      /\ (UNCHANGED <<proposeSet, blckSet, trigger, bbCommit, bbValue, voteMap>> => SetsSame)
  BY BbQuiet
<1>1. t \in timers /\ now \in Int /\ now >= now
  BY <1>0 DEF Ripe, CalmStep, TypeInv, RunTyped
<1>2. CASE BbStartBA(t)
  <2>1. /\ SetsSame /\ timers' \subseteq timers
        /\ \A k \in tasks' : k \in tasks \/ k.for = "ba"
    BY <1>0, <1>2 DEF BbStartBA, bbVars, Tally
  <2>2. \A k \in tasks' : k \in tasks \/ TaskIn(k)'
    BY <2>1 DEF TaskIn
  <2>3. \E v : Wire(net, ToAll(t.node, Forward2(t.node, v, t.node, 1, now)))
    BY <1>2 DEF BbStartBA
  <2>4. net \subseteq net' /\ \A m \in net' : m \in net \/ MsgIn(m)'
    BY <1>0, <1>1, <2>3, Forward2Sent
  <2> QED BY <1>0, <2>1, <2>2, <2>4, SideGood
<1>3. CASE BbSendBA(t)
  <2>1. SetsSame /\ timers' \subseteq timers /\ tasks' = tasks
    BY <1>0, <1>3 DEF BbSendBA, bbVars
  <2>2. \E f : Wire(net, ToAll(t.node, Forward2(t.node, t.val, f, 1, now)))
    BY <1>3 DEF BbSendBA
  <2>3. net \subseteq net' /\ \A m \in net' : m \in net \/ MsgIn(m)'
    BY <1>0, <1>1, <2>2, Forward2Sent
  <2> QED BY <1>0, <2>1, <2>3, SideGood
<1>4. CASE BbFinal(t)
  <2>1. /\ UNCHANGED <<proposeSet, blckSet, trigger, bbCommit, voteMap>>
        /\ net' = net /\ tasks' = tasks /\ timers' \subseteq timers
        /\ bbValue' = [bbValue EXCEPT ![t.node] =
                         IF bbCommit[t.node] THEN @ ELSE SingleOrZero(baBlckSet[t.node])]
        /\ t.node \in Node /\ bbValue \in [Node -> Value \cup {None}]
    BY <1>0, <1>1, <1>4 DEF BbFinal, wireVars, CalmStep, TypeInv, TimersTyped, TimerOK, SetsTyped
  <2>2. /\ \A o \in Node \ {t.node} : bbValue'[o] = bbValue[o]
        /\ bbCommit[t.node] => bbValue'[t.node] = bbValue[t.node]
    BY <2>1
  <2>3. \A o \in Node \ {t.node} : SameAt(o)
    BY <1>0, <2>1, <2>2 DEF SameAt
  <2>4. \A p : NodeHas(t.node, p) => NodeHas(t.node, p)'
    BY <1>0, <2>1, <2>2 DEF NodeHas, NoVotes
  <2>5. NodesOK'
    BY <1>0, <2>3, <2>4, NodesFromOne
  <2>6. VotesStay
    BY <2>1 DEF VotesStay
  <2> QED BY <1>0, <2>1, <2>5, <2>6, SameGood
<1> QED BY <1>2, <1>3, <1>4, VoteTimerGood

LEMMA BbGood ==
  ASSUME CalmStep, BbNext, UNCHANGED <<dsVars, tbbVars, clientVars>>
  PROVE  Good'
<1>1. BbStep
  BY DEF BbNext, BbStep, SameRun, proposerVars
<1> QED BY <1>1, BbMessagesGood, BbTasksGood, BbTimersGood DEF BbNext

-----------------------------------------------------------------------------
(* The commit points and the client.                                       *)

LEMMA ReferenceGood ==
  ASSUME CalmStep, NEW t \in Ripe, ReferencePoint(t)
  PROVE  Good'
<1>1. /\ SameRun /\ net' = net /\ tasks' = tasks /\ timers' \subseteq timers
      /\ UNCHANGED <<dsVars, bbVars, D, confirmed, setup, sessions>>
  BY DEF ReferencePoint, SameRun, wireVars, proposerVars, clientVars
<1>2. t.node \in Node /\ t.point \in 1..2 /\ ref \in [Node -> [1..2 -> Value \cup {None}]]
  BY DEF ReferencePoint, Ripe, CalmStep, TypeInv, TimersTyped, TimerOK, PointsTyped
<1>3. UNCHANGED <<extrSet, proposeSet, blckSet, trigger, bbCommit, bbValue, voteMap>>
  BY <1>1 DEF dsVars, bbVars
<1>4. /\ \A o \in Node \ {t.node} : ref'[o] = ref[o]
      /\ \A i \in 1..2 : ref'[t.node][i] = ref[t.node][i] \/ ref'[t.node][i] \in extrSet[t.node]
  <2>1. CASE ref' = ref
    BY <2>1
  <2>2. CASE /\ extrSet[t.node] = {commitValue[t.node]}
             /\ ref' = [ref EXCEPT ![t.node][t.point] = commitValue[t.node]]
    BY <1>2, <2>2
  <2> QED BY <2>1, <2>2 DEF ReferencePoint
<1>5. \A o \in Node \ {t.node} : SameAt(o)
  BY <1>1, <1>3, <1>4 DEF SameAt
<1>6. \A p : NodeHas(t.node, p) => NodeHas(t.node, p)'
  BY <1>1, <1>3, <1>4 DEF NodeHas, NoVotes
<1>7. NodesOK'
  BY <1>1, <1>5, <1>6, NodesFromOne
<1>8. VotesStay /\ HasGrows
  BY <1>1, <1>3, SameSession DEF VotesStay, HasGrows, Has
<1> QED BY <1>1, <1>7, <1>8, ConfirmedStays, SameGood

LEMMA CommitPointGood ==
  ASSUME CalmStep, NEW t \in Ripe, CommitPoint(t)
  PROVE  Good'
<1>1. /\ SameRun /\ net' = net /\ tasks' = tasks /\ timers' \subseteq timers
      /\ UNCHANGED <<dsVars, bbVars, ref, confirmed, setup, sessions>>
  BY DEF CommitPoint, SameRun, wireVars, proposerVars, clientVars
<1>2. /\ t.node \in Node /\ t.point \in {2, 3} /\ D \in [Node -> [1..3 -> Value \cup {None}]]
      /\ blckSet[t.node] \in SUBSET Value
  BY DEF CommitPoint, Ripe, CalmStep, TypeInv, TimersTyped, TimerOK, PointsTyped, SetsTyped
<1>3. UNCHANGED <<extrSet, proposeSet, blckSet, trigger, bbCommit, bbValue, voteMap>>
  BY <1>1 DEF dsVars, bbVars
<1> DEFINE v == IF Cardinality(blckSet[t.node]) = 1 THEN SingleOrZero(blckSet[t.node])
                ELSE ref[t.node][t.point - 1]
<1>4. v \in blckSet[t.node] \/ \E i \in 1..2 : v = ref[t.node][i]
  <2>1. t.point - 1 \in 1..2
    BY <1>2
  <2> QED BY <1>2, <2>1, SingleTyped
<1>5. D' = D \/ D' = [D EXCEPT ![t.node][t.point] = v]
  BY DEF CommitPoint
<1> HIDE DEF v
<1>6. /\ \A o \in Node \ {t.node} : D'[o] = D[o]
      /\ \A i \in 1..3 : D'[t.node][i] = D[t.node][i] \/ D'[t.node][i] = v
  BY <1>2, <1>5
<1>7. \A o \in Node \ {t.node} : SameAt(o)
  BY <1>1, <1>3, <1>6 DEF SameAt
<1>8. \A p : NodeHas(t.node, p) => NodeHas(t.node, p)'
  BY <1>1, <1>3, <1>4, <1>6 DEF NodeHas, NoVotes
<1>9. NodesOK'
  BY <1>1, <1>7, <1>8, NodesFromOne
<1>10. VotesStay /\ HasGrows
  BY <1>1, <1>3, SameSession DEF VotesStay, HasGrows, Has
<1> QED BY <1>1, <1>9, <1>10, ConfirmedStays, SameGood

LEMMA CommitPoint1Good ==
  ASSUME CalmStep, NEW n \in Node, CommitPoint1(n)
  PROVE  Good'
<1>1. /\ SameRun /\ net' = net /\ tasks' = tasks /\ timers' = timers
      /\ UNCHANGED <<dsVars, ref, confirmed, setup, sessions>>
      /\ UNCHANGED <<proposeSet, blckSet, bbCommit, bbValue, voteMap>>
      /\ trigger[n] = 1 /\ trigger' = [trigger EXCEPT ![n] = 0]
      /\ D' = [D EXCEPT ![n][1] = bbValue[n]]
  BY DEF CommitPoint1, SameRun, roundVars, wireVars, proposerVars, clientVars
<1>2. D \in [Node -> [1..3 -> Value \cup {None}]] /\ trigger \in [Node -> {0, 1}]
      /\ extrSet' = extrSet
  BY <1>1 DEF CalmStep, TypeInv, PointsTyped, dsVars
<1>3. /\ \A o \in Node \ {n} : D'[o] = D[o] /\ trigger'[o] = trigger[o]
      /\ \A i \in 1..3 : D'[n][i] = D[n][i] \/ D'[n][i] = bbValue[n]
      /\ trigger'[n] = 0
  BY <1>1, <1>2
<1>4. \A o \in Node \ {n} : SameAt(o)
  BY <1>1, <1>2, <1>3 DEF SameAt
<1>5. \A p : NodeHas(n, p) => NodeHas(n, p)'
  BY <1>1, <1>2, <1>3 DEF NodeHas, NoVotes
<1>6. NodesOK'
  BY <1>1, <1>4, <1>5, NodesFromOne
<1>7. VotesStay /\ HasGrows
  BY <1>1, <1>2, SameSession DEF VotesStay, HasGrows, Has
<1> QED BY <1>1, <1>6, <1>7, ConfirmedStays, SameGood

\* The answer of an honest view is the proposal, or nothing.
LEMMA AnswerRight ==
  ASSUME TypeInv, Good, View \in Honest, FirstOf(D[View]) # None
  PROVE  sessions # <<>> /\ FirstOf(D[View]) = Proposal
<1>1. PICK i \in 1..3 : FirstOf(D[View]) = D[View][i]
  <2>1. ~(\A i \in 1..3 : D[View][i] = None)
    BY DEF FirstOf
  <2>2. \E i \in 1..3 : D[View][i] # None /\ \A j \in 1..i - 1 : D[View][j] = None
    <3>1. CASE D[View][1] # None
      BY <3>1
    <3>2. CASE D[View][1] = None /\ D[View][2] # None
      BY <3>2
    <3>3. CASE D[View][1] = None /\ D[View][2] = None /\ D[View][3] # None
      BY <3>3
    <3> QED BY <2>1, <3>1, <3>2, <3>3
  <2> QED BY <2>1, <2>2 DEF FirstOf
<1>2. D[View][i] # None
  BY <1>1
<1>3. ~(\A p : NodeHas(View, p))
  <2>1. ~NodeHas(View, None)
    BY <1>2 DEF NodeHas
  <2> QED BY <2>1
<1>4. \E j \in 1..Len(sessions) : startTime[View] = sessions[j].start
  BY <1>3 DEF Good, NodesOK
<1>5. sessions # <<>>
  BY <1>4 DEF TypeInv, RunTyped
<1>6. NodeHas(View, Proposal)
  BY <1>5, CurrentHas DEF Good, StartsOK
<1> QED BY <1>1, <1>2, <1>5, <1>6 DEF NodeHas

LEMMA ClientInitGood ==
  ASSUME CalmStep, NEW m \in Inbox, ClientInit(m)
  PROVE  Good'
<1>1. /\ SameRun /\ net' = net \ {m} /\ tasks' = tasks /\ m.to = Client
      /\ UNCHANGED <<dsVars, bbVars, tbbVars, confirmed, setup, sessions>>
      /\ \A t \in timers' : t \in timers \/ t.what = "query"
  BY DEF ClientInit, SameRun, proposerVars, QueryTimer
<1>2. SetsSame /\ \A t \in timers' : t \in timers \/ TimerIn(t)'
  BY <1>1 DEF SetsSame, dsVars, bbVars, tbbVars, TimerIn
<1>3. Client \notin Alive
  BY Places DEF Alive, Honest
<1> QED BY <1>1, <1>2, <1>3, ConfirmedStays, SideGood

LEMMA HandleQueryGood ==
  ASSUME CalmStep, NEW m \in Inbox, HandleQuery(m)
  PROVE  Good'
<1>1. /\ SameRun /\ m \in net /\ m.kind = "Query" /\ tasks' = tasks /\ timers' = timers
      /\ UNCHANGED <<dsVars, bbVars, tbbVars, confirmed, setup, sessions>>
  BY DEF HandleQuery, Inbox, SameRun, proposerVars, clientVars
<1>2. SetsSame
  BY <1>1 DEF SetsSame, dsVars, bbVars, tbbVars
<1>3. m.to = View /\ m.asked \in Nat /\ m.asked <= Len(sessions)
  BY <1>1 DEF CalmStep, Good, NetOK, MsgIn
<1>4. PICK r : /\ r = [kind |-> "Reply", to |-> Client, val |-> FirstOf(D[m.to]),
                       qcs |-> Cardinality(qcSet[m.to]), asked |-> m.asked, due |-> Soon("Reply")]
               /\ Wire(net \ {m}, {r})
  BY DEF HandleQuery
<1>5. /\ r.kind = "Reply" /\ r.to = Client /\ r.val = FirstOf(D[View]) /\ r.asked = m.asked
      /\ r.due \in Int /\ r.due >= now
  BY <1>3, <1>4, SoonIn DEF CalmStep
<1>6. View \in Honest /\ r.val # None => sessions # <<>> /\ r.val = Proposal
  BY <1>5, AnswerRight DEF CalmStep
<1>7. MsgIn(r)'
  <2>1. UNCHANGED <<Honest, Alive, Start, Proposal, Running, now, sessions>>
    BY <1>1, SameSession DEF SameRun
  <2> QED BY <1>3, <1>5, <1>6, <2>1 DEF MsgIn
<1>8. net \ {m} \subseteq net' /\ \A o \in net' : o \in net \ {m} \/ o = r
  BY <1>4, SentIn, FS_Singleton
<1> QED BY <1>1, <1>2, <1>7, <1>8, ConfirmedStays, SideGood

LEMMA ClientQueryGood ==
  ASSUME CalmStep, NEW t \in Ripe, ClientQuery(t)
  PROVE  Good'
<1>1. /\ SameRun /\ tasks' = tasks /\ timers' \subseteq timers
      /\ UNCHANGED <<dsVars, bbVars, tbbVars, confirmed, setup, sessions>>
  BY DEF ClientQuery, SameRun, proposerVars, clientVars
<1>2. SetsSame
  BY <1>1 DEF SetsSame, dsVars, bbVars, tbbVars
<1>3. PICK q : /\ q = [kind |-> "Query", to |-> View, asked |-> Len(sessions), due |-> Soon("Query")]
               /\ Wire(net, {q})
  BY DEF ClientQuery
<1>4. /\ q.kind = "Query" /\ q.to = View /\ q.asked = Len(sessions) /\ q.due \in Int /\ q.due >= now
      /\ Len(sessions) \in Nat
  BY <1>3, SoonIn DEF CalmStep, TypeInv, RunTyped
<1>5. MsgIn(q)'
  <2>1. UNCHANGED <<Honest, Alive, Start, Proposal, Running, now, sessions>>
    BY <1>1, SameSession DEF SameRun
  <2> QED BY <1>4, <2>1 DEF MsgIn, Alive
<1>6. net \subseteq net' /\ \A o \in net' : o \in net \/ o = q
  <2>1. IsFiniteSet({q})
    BY FS_Singleton
  <2> QED BY <1>3, <2>1, SentIn
<1> QED BY <1>1, <1>2, <1>5, <1>6, ConfirmedStays, SideGood

LEMMA ClientReplyGood ==
  ASSUME CalmStep, NEW m \in Inbox, ClientReply(m)
  PROVE  Good'
<1>1. /\ SameRun /\ m \in net /\ m.kind = "Reply" /\ tasks' = tasks /\ net' = net \ {m}
      /\ UNCHANGED <<dsVars, bbVars, tbbVars, setup, sessions>>
      /\ \A t \in timers' : t \in timers \/ t.what = "query"
  BY DEF ClientReply, Inbox, SameRun, proposerVars, QueryTimer
<1>2. SetsSame /\ \A t \in timers' : t \in timers \/ TimerIn(t)'
  BY <1>1 DEF SetsSame, dsVars, bbVars, tbbVars, TimerIn
<1>3. MsgIn(m) /\ Len(sessions) \in Nat
  BY <1>1 DEF CalmStep, Good, NetOK, TypeInv, RunTyped
<1>4. \A c \in confirmed' : \/ c \in confirmed
                            \/ /\ c.asked = m.asked /\ c.session = Len(sessions)
                               /\ c.val = m.val
  BY DEF ClientReply
<1>5. ConfirmedOK'
  <2> SUFFICES ASSUME NEW c \in confirmed'
               PROVE  /\ c.session \in Nat /\ c.session <= Len(sessions)
                      /\ View \in Honest /\ c.asked = c.session /\ c.val # None =>
                           c.session \in 1..Len(sessions) /\ c.val = sessions[c.session].val
    BY <1>1, SameSession DEF ConfirmedOK
  <2>1. CASE c \in confirmed
    BY <2>1 DEF CalmStep, Good, ConfirmedOK
  <2>2. CASE c.asked = m.asked /\ c.session = Len(sessions) /\ c.val = m.val
    <3>1. ASSUME View \in Honest, c.asked = c.session, c.val # None
          PROVE  c.session \in 1..Len(sessions) /\ c.val = sessions[c.session].val
      <4>1. sessions # <<>> /\ m.val = Proposal
        BY <1>1, <1>3, <2>2, <3>1 DEF MsgIn
      <4>2. Proposal = Last.val
        BY <3>1 DEF Proposal, Honest
      <4>3. Len(sessions) >= 1
        BY <4>1, SessionFacts DEF CalmStep
      <4> QED BY <1>3, <2>2, <4>1, <4>2, <4>3 DEF Last
    <3> QED BY <1>3, <2>2, <3>1
  <2> QED BY <1>4, <2>1, <2>2
<1> QED BY <1>1, <1>2, <1>5, SideGood

-----------------------------------------------------------------------------
(* The clock.                                                              *)

\* Whatever is due has happened: messages, vote timers and handlers that are
\* left have time until the next tick.
LEMMA TickGood ==
  ASSUME CalmStep, ClockTick
  PROVE  Good'
<1>1. /\ TickEnabled /\ now' = now + 1 /\ now \in Nat
      /\ UNCHANGED <<timers, tasks, startTime, setup, net, pc, sessions>>
      /\ UNCHANGED <<dsVars, bbVars, tbbVars, confirmed>>
  BY DEF ClockTick, Tick, wireVars, proposerVars, clientVars, CalmStep, TypeInv, RunTyped
<1>2. /\ UNCHANGED <<malicious, Honest, Alive, Start, Proposal, Running, NoVotes, Has>>
      /\ \A j : PropOf(j)' = PropOf(j)
  BY <1>1 DEF malicious, Honest, Alive, Last, Start, Proposal, Running, PropOf, NoVotes, Has, dsVars
<1>3. NodesOK'
  <2>1. \A n, p : NodeHas(n, p)' = NodeHas(n, p)
    BY <1>1 DEF NodeHas, NoVotes, dsVars, bbVars, tbbVars
  <2>2. NodesOK' = NodesOK
    <3>1. \A n, j : NodeHas(n, PropOf(j))' = NodeHas(n, PropOf(j))
      BY <1>1, <1>2 DEF NodeHas, NoVotes, dsVars, bbVars, tbbVars
    <3> QED BY <1>1, <1>2, <2>1, <3>1 DEF NodesOK
  <2> QED BY <2>2 DEF CalmStep, Good
<1>4. StartsOK' /\ ConfirmedOK' /\ StartsDiffer'
  BY <1>1, <1>2 DEF CalmStep, Good, StartsOK, ConfirmedOK, StartsDiffer
<1>5. NetOK'
  <2> SUFFICES ASSUME NEW m \in net PROVE MsgIn(m)'
    BY <1>1 DEF NetOK
  <2>1. MsgIn(m) /\ m.due > now
    BY <1>1 DEF TickEnabled, CalmStep, Good, NetOK
  <2>2. m.due \in Int /\ m.due >= now'
    BY <1>1, <2>1 DEF MsgIn
  <2> QED BY <1>1, <1>2, <2>1, <2>2 DEF MsgIn
<1>6. TasksOK'
  <2> SUFFICES ASSUME NEW k \in tasks PROVE TaskIn(k)'
    BY <1>1 DEF TasksOK
  <2>1. TaskIn(k) /\ k.at = "spin"
    BY <1>1 DEF TickEnabled, Runnable, CalmStep, Good, TasksOK
  <2> QED BY <2>1 DEF TaskIn
<1>7. TimersOK'
  <2> SUFFICES ASSUME NEW t \in timers PROVE TimerIn(t)'
    BY <1>1 DEF TimersOK
  <2>1. TimerIn(t) /\ t.at > now
    BY <1>1 DEF TickEnabled, CalmStep, Good, TimersOK
  <2>2. t.what = "vote" => now' <= t.at
    BY <1>1, <2>1 DEF TimerIn
  <2>3. t.what = "start" => now' <= Start
    <3>1. ASSUME t.what = "start" PROVE now' <= Start
      <4>1. sessions # <<>> /\ t.at = Start
        BY <2>1, <3>1 DEF TimerIn
      <4>2. Start \in Nat
        BY <4>1, SessionFacts DEF CalmStep
      <4> QED BY <1>1, <2>1, <4>1, <4>2
    <3> QED BY <3>1
  <2> QED BY <1>1, <1>2, <2>1, <2>2, <2>3 DEF TimerIn
<1> QED BY <1>3, <1>4, <1>5, <1>6, <1>7 DEF Good

-----------------------------------------------------------------------------
(* The proposal.                                                           *)

LEMMA ViewProposeGood ==
  ASSUME CalmStep, ViewPropose
  PROVE  Good'
<1> DEFINE msg == [kind |-> "Propose", to |-> Client, due |-> now,
                   val |-> IF View \in malicious THEN Bad ELSE Last.val]
           msgs == {p \in ToAll(View, msg) : View \in malicious => p.to \in {1, 2}}
<1>1. PICK t \in Ripe : /\ t.what = "start"
                        /\ Wire(net, msgs)
                        /\ timers' = (timers \ {t}) \cup {VoteTimer(View)}
  BY Zenon DEF ViewPropose, RunPropose
<1>2. /\ UNCHANGED <<now, tasks, startTime, setup, sessions>> /\ pc' = "wait"
      /\ UNCHANGED <<D, ref, confirmed>> /\ View \in Node
      /\ UNCHANGED <<voteMap, blckSet, bbCommit, bbValue, trigger>>
      /\ proposeSet' = [proposeSet EXCEPT ![View] = @ \cup {Last.val}]
      /\ extrSet' = [extrSet EXCEPT ![View] = @ \cup {Last.val}]
  BY Places, Zenon DEF ViewPropose, RunPropose, BbPropose, DsViewPropose, tbbVars, clientVars
<1>3. t \in timers /\ t.at <= now
  BY <1>1 DEF Ripe
<1>4. /\ sessions # <<>> /\ pc = "start" /\ t.at = Start /\ now <= Start
      /\ t = [node |-> View, at |-> Start, what |-> "start"]
  BY <1>1, <1>3 DEF CalmStep, Good, TimersOK, TimerIn
<1>5. Start \in Nat /\ now \in Nat
  BY <1>4, SessionFacts DEF CalmStep
<1>6. now = Start
  BY <1>3, <1>4, <1>5
<1>7. \A m \in net : m.kind \notin {"Init", "Propose", "Forward", "Forward1", "Vote"}
  <2>1. ASSUME NEW m \in net, m.kind = "Init" PROVE FALSE
    <3>1. m.due \in Int /\ m.due >= now /\ m.due < Start
      BY <2>1 DEF CalmStep, Good, NetOK, MsgIn
    <3> QED BY <1>5, <1>6, <3>1
  <2> QED BY <1>4, <2>1 DEF CalmStep, Good, NetOK, MsgIn, Running
<1>8. \A n \in Alive : startTime[n] = Start
  BY <1>4, <1>7 DEF CalmStep, Good, StartsOK
<1>9. \A k \in tasks : k.for \notin {"Forward", "vote"}
  BY <1>4 DEF CalmStep, Good, TasksOK, TaskIn, Running
<1>10. /\ UNCHANGED <<malicious, Honest, Alive, Start, Proposal, NoVotes>> /\ Running'
       /\ \A j : PropOf(j)' = PropOf(j)
  BY <1>2, <1>4 DEF malicious, Honest, Alive, Last, Start, Proposal, Running, PropOf, NoVotes
<1>11. NetOK'
  <2>1. IsFiniteSet(msgs)
    <3>1. IsFiniteSet(ToAll(View, msg)) /\ msgs \in SUBSET ToAll(View, msg)
      BY ToAllFinite
    <3> HIDE DEF msgs, msg
    <3> QED BY <3>1, FS_Subset
  <2>2. \A m \in msgs : m.kind = "Propose" /\ m.to \in Node /\ m.due = now /\ m.val = Proposal
    BY DEF ToAll, Proposal
  <2> HIDE DEF msgs
  <2> SUFFICES ASSUME NEW m \in net' PROVE MsgIn(m)'
    BY DEF NetOK
  <2>3. m \in net \/ (m \in msgs /\ m.to \notin Deaf)
    BY <1>1, <2>1, SentIn
  <2>4. CASE m \in net
    <3>1. MsgIn(m) /\ m.kind \notin {"Init", "Propose", "Forward", "Forward1", "Vote"}
      BY <1>7, <2>4 DEF CalmStep, Good, NetOK
    <3> QED BY <1>2, <1>10, <3>1 DEF MsgIn
  <2>5. CASE m \in msgs /\ m.to \notin Deaf
    <3>1. m.to \in Alive
      BY <2>2, <2>5, NotDeaf
    <3>2. m.due \in Int /\ m.due >= now /\ m.due <= Start
      BY <1>5, <1>6, <2>2, <2>5
    <3> QED BY <1>2, <1>10, <2>2, <2>5, <3>1, <3>2 DEF MsgIn
  <2> QED BY <2>3, <2>4, <2>5
<1>12. TasksOK'
  BY <1>2, <1>9 DEF TasksOK, TaskIn
<1>13. TimersOK'
  <2> SUFFICES ASSUME NEW u \in timers' PROVE TimerIn(u)'
    BY DEF TimersOK
  <2>1. CASE u = VoteTimer(View)
    <3>1. u.what = "vote" /\ u.node = View /\ u.at = now + 1
      BY <2>1 DEF VoteTimer
    <3>2. u.at \in Int /\ now <= u.at /\ u.at <= Start + 1
      BY <1>5, <1>6, <3>1
    <3>3. View \in Alive
      BY DEF Alive
    <3> QED BY <1>2, <1>10, <3>1, <3>2, <3>3 DEF TimerIn
  <2>2. CASE u \in timers /\ u # t
    <3>1. TimerIn(u) /\ u.what # "vote"
      BY <1>4, <2>2 DEF CalmStep, Good, TimersOK, TimerIn, Running
    <3>2. u.what # "start"
      BY <1>4, <2>2, <3>1 DEF TimerIn
    <3> QED BY <3>1, <3>2 DEF TimerIn
  <2> QED BY <1>1, <2>1, <2>2
<1>14. extrSet \in [Node -> SUBSET Value] /\ proposeSet \in [Node -> SUBSET Value]
  BY DEF CalmStep, TypeInv, SetsTyped
<1>15. /\ \A o \in Node \ {View} : extrSet'[o] = extrSet[o] /\ proposeSet'[o] = proposeSet[o]
       /\ extrSet'[View] = extrSet[View] \cup {Last.val}
       /\ proposeSet'[View] = proposeSet[View] \cup {Last.val}
  BY <1>2, <1>14
<1>16. NodesOK'
  <2> SUFFICES ASSUME NEW n \in Honest
               PROVE  \E j \in 1..Len(sessions) : /\ startTime[n] = sessions[j].start
                                                  /\ NodeHas(n, PropOf(j))'
    BY <1>2, <1>10, Zenon DEF NodesOK
  <2>1. n \in Alive /\ n \in Node
    BY DEF Alive, Honest
  <2>2. NodeHas(n, Proposal)
    BY <1>4, <1>8, <2>1, CurrentHas DEF CalmStep
  <2>3. n = View => Last.val = Proposal
    BY DEF Proposal, Honest
  <2>4. NodeHas(n, Proposal)'
    BY <1>2, <1>10, <1>15, <2>1, <2>2, <2>3 DEF NodeHas
  <2>5. PICK j \in 1..Len(sessions) : PropOf(j) = Proposal /\ Start = sessions[j].start
    BY <1>4, SessionFacts DEF CalmStep
  <2>6. NodeHas(n, PropOf(j))'
    BY <1>10, <2>4, <2>5 DEF NodeHas
  <2> QED BY <1>8, <2>1, <2>5, <2>6
<1>17. StartsOK' /\ StartsDiffer' /\ ConfirmedOK'
  <2>1. startTime[View] = Start
    BY <1>8 DEF Alive
  <2>2. StartsOK'
    BY <1>2, <1>8, <1>10, <2>1 DEF StartsOK
  <2> QED BY <1>2, <1>10, <2>2 DEF CalmStep, Good, StartsDiffer, ConfirmedOK
<1> QED BY <1>11, <1>12, <1>13, <1>16, <1>17 DEF Good

LEMMA HandleProposeGood ==
  ASSUME CalmStep, NEW m \in Inbox, HandlePropose(m)
  PROVE  Good'
<1>1. /\ m \in net /\ m.kind = "Propose" /\ m.to \in Node /\ MsgIn(m)
  BY DEF Inbox, HandlePropose, CalmStep, Good, NetOK, TypeInv, AllOK, MsgOK
<1>2. SameRun /\ timers' = timers \cup {VoteTimer(m.to)} /\ UNCHANGED <<tbbVars, confirmed>>
  BY DEF HandlePropose, SameRun, proposerVars, clientVars
<1>3. /\ Running /\ m.val = Proposal /\ m.due <= Start /\ m.due \in Int /\ m.due >= now
      /\ m.to \in Alive
  BY <1>1, Places DEF MsgIn
<1>4. Start \in Nat /\ now \in Nat /\ startTime[m.to] = Start /\ sessions # <<>>
  BY <1>3, SessionFacts, KnowsStart DEF CalmStep, Running
<1>5. now <= Start /\ now <= Start + 1 - 1 /\ 1 \in Nat /\ 1 >= 1 /\ 1 + 1 = 2
  BY <1>3, <1>4
<1>6. /\ BbPropose(m.to, Proposal)
      /\ extrSet' = [extrSet EXCEPT ![m.to] = @ \cup {Proposal}]
      /\ ForwardOrSpin(m.to, Proposal, 1, net \ {m}, tasks, Forward1Msgs(m.to, Proposal))
  BY <1>3 DEF HandlePropose, DsHandlePropose
<1> DEFINE fwd == ToAll(m.to, ForwardMsg(m.to, Proposal, 1 + 1))
           fwd1 == Forward1Msgs(m.to, Proposal)
<1>7. Wire(net \ {m}, fwd1 \cup fwd) /\ tasks' = tasks
  BY <1>3, <1>5, <1>6, ForwardNow
<1>8. /\ HasGrows /\ m.to \in Has'
      /\ \A o \in Node \ {m.to} : extrSet'[o] = extrSet[o]
      /\ extrSet'[m.to] = extrSet[m.to] \cup {Proposal}
  BY <1>1, <1>2, <1>3, <1>4, <1>6, ExtractHas
<1>9. Cardinality(Has)' >= 1
  <2>1. Has' \in SUBSET Node /\ {m.to} \in SUBSET Has'
    BY <1>8 DEF Has
  <2>2. Cardinality({m.to}) <= Cardinality(Has') /\ Cardinality(Has') \in Nat
    BY <2>1, HasFinite
  <2>3. Cardinality({m.to}) = 1
    BY FS_Singleton
  <2> QED BY <2>2, <2>3
<1>10. NodesOK' /\ VotesStay
  BY <1>1, <1>2, <1>3, <1>4, <1>6, <1>8, ProposedGood
<1>11. UNCHANGED <<Alive, Start, Proposal, Running, now, sessions>>
  BY <1>2, SameSession DEF SameRun
<1>12. \A o \in fwd : o.to \notin Deaf => MsgIn(o)'
  BY <1>1, <1>2, <1>3, <1>5, <1>9, ForwardIn
<1>13. ASSUME NEW o \in fwd1, o.to \notin Deaf PROVE MsgIn(o)'
  <2>1. o.kind = "Forward1" /\ o.to \in Node /\ o.val = Proposal /\ o.due = Soon("Forward1")
    BY DEF Forward1Msgs, ToAll
  <2>2. o.to \in Alive
    BY <1>13, <2>1, NotDeaf
  <2>3. Soon("Forward1") \in Int /\ now <= Soon("Forward1") /\ Soon("Forward1") <= now + 1
    BY SoonIn DEF CalmStep
  <2>4. o.due \in Int /\ o.due >= now /\ o.due <= Start + 1
    BY <1>4, <1>5, <2>1, <2>3
  <2> QED BY <1>3, <1>11, <2>1, <2>2, <2>4 DEF MsgIn
<1>14. IsFiniteSet(fwd1 \cup fwd)
  <2>1. IsFiniteSet(fwd1) /\ IsFiniteSet(fwd)
    BY ToAllFinite DEF Forward1Msgs
  <2> QED BY <2>1, FS_Union
<1> HIDE DEF fwd, fwd1
<1>15. net \ {m} \subseteq net' /\ \A o \in net' : o \in net \/ MsgIn(o)'
  BY <1>7, <1>12, <1>13, <1>14, SentIn
<1>16. \A t \in timers' : t \in timers \/ TimerIn(t)'
  <2> SUFFICES ASSUME NEW t, t = VoteTimer(m.to) PROVE TimerIn(t)'
    BY <1>2
  <2>1. t.what = "vote" /\ t.node = m.to /\ t.at = now + 1
    BY DEF VoteTimer
  <2>2. t.at \in Int /\ now <= t.at /\ t.at <= Start + 1
    BY <1>4, <1>5, <2>1
  <2> QED BY <1>3, <1>11, <2>1, <2>2 DEF TimerIn
<1>17. ConfirmedOK'
  BY <1>2, ConfirmedStays DEF SameRun
<1> QED BY <1>1, <1>2, <1>7, <1>8, <1>10, <1>15, <1>16, <1>17, SameGood

-----------------------------------------------------------------------------
(* The start of a session.                                                 *)

\* Before the proposal nothing of the session is under way.
LEMMA NothingYet ==
  ASSUME Good, pc = "start"
  PROVE  /\ \A m \in net : m.kind \notin {"Propose", "Forward", "Forward1", "Vote"}
         /\ \A k \in tasks : k.for \notin {"Forward", "vote"}
         /\ \A t \in timers : t.what # "vote"
BY DEF Good, NetOK, MsgIn, TasksOK, TaskIn, TimersOK, TimerIn, Running

\* A node after its Init has nothing.
LEMMA ResetHas ==
  ASSUME TypeInv, NEW n \in Node, ResetAll(n)
  PROVE  (\A p : NodeHas(n, p)') /\ \A o \in Node \ {n} : SameAt(o)
<1>1. /\ D' = [D EXCEPT ![n] = [i \in 1..3 |-> None]]
      /\ ref' = [ref EXCEPT ![n] = [i \in 1..2 |-> None]]
      /\ extrSet' = [extrSet EXCEPT ![n] = {}] /\ proposeSet' = [proposeSet EXCEPT ![n] = {}]
      /\ voteMap' = [voteMap EXCEPT ![n] = EmptyMap] /\ blckSet' = [blckSet EXCEPT ![n] = {}]
      /\ bbCommit' = [bbCommit EXCEPT ![n] = FALSE] /\ bbValue' = [bbValue EXCEPT ![n] = None]
      /\ trigger' = [trigger EXCEPT ![n] = 0]
  BY DEF ResetAll, DsHandleInit, BbHandleInit
<1>2. /\ extrSet \in [Node -> SUBSET Value] /\ proposeSet \in [Node -> SUBSET Value]
      /\ voteMap \in [Node -> [Value -> SUBSET (0..N)]] /\ blckSet \in [Node -> SUBSET Value]
      /\ bbValue \in [Node -> Value \cup {None}]
      /\ D \in [Node -> [1..3 -> Value \cup {None}]]
      /\ ref \in [Node -> [1..2 -> Value \cup {None}]]
      /\ trigger \in [Node -> {0, 1}] /\ bbCommit \in [Node -> BOOLEAN]
  BY DEF TypeInv, SetsTyped, PointsTyped
<1>3. /\ D'[n] = [i \in 1..3 |-> None] /\ ref'[n] = [i \in 1..2 |-> None]
      /\ extrSet'[n] = {} /\ proposeSet'[n] = {} /\ voteMap'[n] = EmptyMap /\ blckSet'[n] = {}
      /\ trigger'[n] = 0
  BY <1>1, <1>2
<1>4. \A p : NodeHas(n, p)'
  BY <1>3 DEF NodeHas, EmptyMap
<1>5. \A o \in Node \ {n} : SameAt(o)
  BY <1>1, <1>2 DEF SameAt
<1> QED BY <1>4, <1>5

LEMMA HandleInitGood ==
  ASSUME CalmStep, NEW m \in Inbox, HandleInit(m)
  PROVE  Good'
<1>1. m \in net /\ m.kind = "Init" /\ m.to \in Node /\ m.to # View /\ MsgIn(m)
  BY Places DEF Inbox, HandleInit, CalmStep, Good, NetOK, TypeInv, AllOK, MsgOK
<1>2. /\ net' = net \ {m} /\ startTime' = [startTime EXCEPT ![m.to] = m.start]
      /\ timers' = timers \cup InitTimers(m.to, m.start) /\ ResetAll(m.to)
      /\ UNCHANGED <<now, tasks, setup, pc, sessions, confirmed>>
  BY DEF HandleInit, proposerVars, clientVars
<1>3. sessions # <<>> /\ pc = "start" /\ m.start = Start
  BY <1>1 DEF MsgIn
<1>4. /\ UNCHANGED <<malicious, Honest, Alive, Start, Proposal, Running, NoVotes>>
      /\ \A j : PropOf(j)' = PropOf(j)
  BY <1>2 DEF malicious, Honest, Alive, Last, Start, Proposal, Running, PropOf, NoVotes
<1>5. /\ \A o \in net : o.kind \notin {"Propose", "Forward", "Forward1", "Vote"}
      /\ \A k \in tasks : k.for \notin {"Forward", "vote"}
      /\ \A t \in timers : t.what # "vote"
  BY <1>3, NothingYet DEF CalmStep
<1>6. NetOK'
  <2> SUFFICES ASSUME NEW o \in net PROVE MsgIn(o)'
    BY <1>2 DEF NetOK
  <2>1. MsgIn(o) /\ o.kind \notin {"Propose", "Forward", "Forward1", "Vote"}
    BY <1>5 DEF CalmStep, Good, NetOK
  <2> QED BY <1>2, <1>4, <2>1 DEF MsgIn
<1>7. TasksOK'
  BY <1>2, <1>5 DEF TasksOK, TaskIn
<1>8. TimersOK'
  <2> SUFFICES ASSUME NEW t \in timers' PROVE TimerIn(t)'
    BY DEF TimersOK
  <2>1. CASE t \in timers
    BY <1>2, <1>4, <2>1 DEF CalmStep, Good, TimersOK, TimerIn
  <2>2. CASE t \in InitTimers(m.to, m.start)
    <3>1. t.what \notin {"vote", "start"}
      BY <2>2 DEF InitTimers, DsTimers, BbTimers
    <3> QED BY <3>1 DEF TimerIn
  <2> QED BY <1>2, <2>1, <2>2
<1>9. startTime \in [Node -> Nat] /\ startTime'[m.to] = Start
      /\ \A o \in Node \ {m.to} : startTime'[o] = startTime[o]
  BY <1>1, <1>2, <1>3 DEF CalmStep, TypeInv, RunTyped
<1>10. StartsOK'
  <2>1. startTime'[View] = Start'
    BY <1>1, <1>3, <1>4, <1>9, Places DEF CalmStep, Good, StartsOK
  <2>2. ASSUME NEW n \in Alive, n # m.to
        PROVE  startTime'[n] = Start' \/ (pc' = "start" /\ \E o \in net' : o.kind = "Init" /\ o.to = n)
    <3>1. n \in Node
      BY Places DEF Alive, Honest
    <3>2. startTime[n] = Start \/ \E o \in net : o.kind = "Init" /\ o.to = n
      BY <1>3 DEF CalmStep, Good, StartsOK
    <3> QED BY <1>2, <1>3, <1>4, <1>9, <2>2, <3>1, <3>2
  <2> QED BY <1>4, <1>9, <2>1, <2>2 DEF StartsOK
<1>11. NodesOK'
  <2>0. (\A p : NodeHas(m.to, p)') /\ \A o \in Node \ {m.to} : SameAt(o)
    BY <1>1, <1>2, ResetHas DEF CalmStep
  <2> SUFFICES ASSUME NEW n \in Honest, n # m.to
               PROVE  \/ \A p : NodeHas(n, p)'
                      \/ \E j \in 1..Len(sessions) : /\ startTime'[n] = sessions[j].start
                                                     /\ NodeHas(n, PropOf(j))'
    <3>1. m.to \in Honest => \A p : NodeHas(m.to, p)'
      BY <2>0
    <3>2. NodesOK' = \A n \in Honest :
                       \/ \A p : NodeHas(n, p)'
                       \/ \E j \in 1..Len(sessions) : /\ startTime'[n] = sessions[j].start
                                                      /\ NodeHas(n, PropOf(j))'
      BY <1>2, <1>4 DEF NodesOK
    <3> QED BY <3>1, <3>2
  <2>1. n \in Node /\ SameAt(n) /\ startTime'[n] = startTime[n]
    BY <1>9, <2>0 DEF Honest
  <2>2. CASE \A p : NodeHas(n, p)
    BY <2>1, <2>2, NodeSame
  <2>3. ASSUME NEW j \in 1..Len(sessions), startTime[n] = sessions[j].start, NodeHas(n, PropOf(j))
        PROVE  NodeHas(n, PropOf(j))'
    <3> DEFINE q == PropOf(j)
    <3>1. NodeHas(n, q) /\ q' = q
      BY <1>4, <2>3
    <3> HIDE DEF q
    <3>2. \A p : p = q => NodeHas(n, p)'
      BY <2>1, <3>1, NodeSame
    <3>3. NodeHas(n, q)'
      BY <3>1, <3>2 DEF NodeHas
    <3> QED BY <3>3 DEF q
  <2> QED BY <2>1, <2>2, <2>3 DEF CalmStep, Good, NodesOK
<1>12. StartsDiffer' /\ ConfirmedOK'
  BY <1>2, <1>4 DEF CalmStep, Good, StartsDiffer, ConfirmedOK
<1> QED BY <1>6, <1>7, <1>8, <1>10, <1>11, <1>12 DEF Good

\* A session that had its time has left nothing under way: a list of
\* signatures needs N ticks at most.
LEMMA NothingLeft ==
  ASSUME TypeInv, Good, pc # "start", sessions # <<>> => now >= Start + N + 6
  PROVE  /\ \A m \in net : m.kind \notin {"Init", "Propose", "Forward", "Forward1", "Vote"}
         /\ \A k \in tasks : k.for \notin {"Forward", "vote"}
         /\ \A t \in timers : t.what \notin {"vote", "start"}
<1>1. CASE sessions = <<>>
  BY <1>1 DEF Good, NetOK, MsgIn, TasksOK, TaskIn, TimersOK, TimerIn, Running
<1>2. CASE sessions # <<>>
  <2>1. Start \in Nat /\ now \in Nat /\ N \in Nat /\ N >= 1 /\ now >= Start + N + 6
    BY <1>2, SessionFacts, NatN
  <2>2. ASSUME NEW m \in net
        PROVE  m.kind \notin {"Init", "Propose", "Forward", "Forward1", "Vote"}
    <3>1. MsgIn(m)
      BY DEF Good, NetOK
    <3>2. m.due \in Int /\ m.due >= now
      BY <3>1 DEF MsgIn
    <3>3. m.kind # "Init"
      BY <3>1 DEF MsgIn
    <3>4. m.kind \notin {"Propose", "Forward1", "Vote"}
      <4>1. m.kind \in {"Propose", "Forward1", "Vote"} =>
              m.due <= Start \/ m.due <= Start + 1 \/ m.due <= Start + 2
        BY <3>1 DEF MsgIn
      <4> QED BY <2>1, <3>2, <4>1
    <3>5. m.kind # "Forward"
      <4>1. m.kind = "Forward" => m.sigs \in Nat /\ m.due <= Start + m.sigs - 1
                                  /\ Cardinality(Has) >= m.sigs - 1
        BY <3>1 DEF MsgIn
      <4>2. Has \in SUBSET Node
        BY DEF Has
      <4>3. Cardinality(Has) \in Nat /\ Cardinality(Has) <= N
        BY <4>2, HasFinite
      <4> QED BY <2>1, <3>2, <4>1, <4>3
    <3> QED BY <3>3, <3>4, <3>5
  <2>3. ASSUME NEW k \in tasks PROVE k.for \notin {"Forward", "vote"}
    <3>1. TaskIn(k)
      BY DEF Good, TasksOK
    <3>2. k.for # "vote"
      <4>1. k.for = "vote" => now <= Start + 2
        BY <3>1 DEF TaskIn
      <4> QED BY <2>1, <4>1
    <3>3. k.for # "Forward"
      <4>1. k.for = "Forward" => k.sigs \in Nat /\ now <= Start + k.sigs - 1
                                 /\ Cardinality(Has \ {k.node}) >= k.sigs - 1
        BY <3>1 DEF TaskIn
      <4>2. Has \ {k.node} \in SUBSET Node
        BY DEF Has
      <4>3. Cardinality(Has \ {k.node}) \in Nat /\ Cardinality(Has \ {k.node}) <= N
        BY <4>2, HasFinite
      <4> QED BY <2>1, <4>1, <4>3
    <3> QED BY <3>2, <3>3
  <2>4. ASSUME NEW t \in timers PROVE t.what \notin {"vote", "start"}
    <3>1. TimerIn(t)
      BY DEF Good, TimersOK
    <3>2. t.what = "vote" => t.at \in Int /\ now <= t.at /\ t.at <= Start + 1
      BY <3>1 DEF TimerIn
    <3>3. t.what # "vote"
      BY <2>1, <3>2
    <3>4. t.what # "start"
      BY <3>1 DEF TimerIn
    <3> QED BY <3>3, <3>4
  <2> QED BY <2>2, <2>3, <2>4
<1> QED BY <1>1, <1>2

LEMMA ViewInitGood ==
  ASSUME CalmStep, ViewInit
  PROVE  Good'
<1>1. /\ UNCHANGED <<now, tasks, setup, confirmed>> /\ pc = "poll" /\ pc' = "start"
      /\ stringQueue # <<>> /\ ResetAll(View)
      /\ timers' = timers \cup InitTimers(View, now + 1)
                     \cup {[node |-> View, at |-> now + 1, what |-> "start"]}
      /\ startTime' = [startTime EXCEPT ![View] = now + 1]
  BY DEF ViewInit, RunInit, clientVars
<1>2. PICK e : /\ e = [start |-> now + 1, val |-> Head(stringQueue)]
               /\ sessions' = Append(sessions, e)
  BY DEF ViewInit, RunInit
<1>3. PICK init : /\ init = [kind |-> "Init", to |-> Client, start |-> now + 1, due |-> now]
                  /\ Wire(net, ToAll(View, init) \cup {init})
  BY DEF ViewInit, RunInit
<1>4. now \in Nat /\ e \in Session /\ View \in Node /\ sessions \in Seq(Session)
  BY <1>1, <1>2, HeadTailProperties, Places DEF CalmStep, TypeInv, RunTyped, Session
<1>5. /\ sessions' # <<>> /\ Last' = e /\ Len(sessions') = Len(sessions) + 1
      /\ \A i \in 1..Len(sessions) : sessions'[i] = sessions[i]
      /\ Len(sessions) \in Nat
  BY <1>2, <1>4, LastOfAppend, LenProperties
<1>6. Start' = now + 1 /\ sessions'[Len(sessions) + 1].start = now + 1
  BY <1>2, <1>5 DEF Start, Last
<1>7. UNCHANGED <<malicious, Honest, Alive, NoVotes>>
      /\ \A j \in 1..Len(sessions) : PropOf(j)' = PropOf(j)
  BY <1>1, <1>5 DEF malicious, Honest, Alive, NoVotes, PropOf
<1>8. sessions # <<>> => now >= Start + N + 6 /\ Start \in Nat /\ Len(sessions) >= 1
  <2>1. ASSUME sessions # <<>> PROVE now >= Start + N + 6 /\ Start \in Nat /\ Len(sessions) >= 1
    <3>1. /\ Start \in Nat /\ Len(sessions) >= 1 /\ Start = sessions[Len(sessions)].start
      BY <2>1, SessionFacts DEF CalmStep
    <3> DEFINE i == Len(sessions) + 1
    <3>2. i \in 2..Len(sessions') /\ i - 1 = Len(sessions) /\ Len(sessions) \in 1..Len(sessions)
      BY <1>5, <3>1
    <3>3. sessions'[i].start >= sessions'[i - 1].start + N + 7
      BY <3>2 DEF CalmStep, Undisturbed, SessionsDoNotOverlap
    <3>4. now + 1 >= Start + N + 7
      BY <1>5, <1>6, <3>1, <3>2, <3>3
    <3> QED BY <1>4, <3>1, <3>4, NatN
  <2> QED BY <2>1
<1>9. /\ \A m \in net : m.kind \notin {"Init", "Propose", "Forward", "Forward1", "Vote"}
      /\ \A k \in tasks : k.for \notin {"Forward", "vote"}
      /\ \A t \in timers : t.what \notin {"vote", "start"}
  BY <1>1, <1>8, NothingLeft DEF CalmStep
<1> DEFINE msgs == ToAll(View, init) \cup {init}
<1>10. /\ net \subseteq net'
       /\ \A m \in net' : m \in net \/ (m \in msgs /\ m.to \notin Deaf)
       /\ \A m \in msgs : m.kind = "Init" /\ m.to \notin Deaf => m \in net'
  <2>1. IsFiniteSet(msgs)
    BY ToAllFinite, FS_AddElement
  <2> HIDE DEF msgs
  <2>2. Wire(net, msgs)
    BY <1>3 DEF msgs
  <2> QED BY <2>1, <2>2, SentIn
<1>11. NetOK'
  <2> SUFFICES ASSUME NEW m \in net' PROVE MsgIn(m)'
    BY DEF NetOK
  <2>1. CASE m \in net
    <3>1. MsgIn(m) /\ m.kind \notin {"Init", "Propose", "Forward", "Forward1", "Vote"}
      BY <1>9, <2>1 DEF CalmStep, Good, NetOK
    <3>2. m.kind \in {"Query", "Reply"} => /\ m.asked \in Nat /\ m.asked <= Len(sessions')
                                           /\ m.asked # Len(sessions')
      BY <1>5, <3>1 DEF MsgIn
    <3> QED BY <1>1, <1>7, <3>1, <3>2 DEF MsgIn
  <2>2. CASE m \in msgs /\ m.to \notin Deaf
    <3>1. /\ m.kind = "Init" /\ m.start = now + 1 /\ m.due = now
          /\ m.to \in Node \/ m.to = Client
      BY <1>3, <2>2 DEF ToAll
    <3>2. m.to \in Alive \cup {Client}
      BY <2>2, <3>1, NotDeaf
    <3>3. m.due \in Int /\ m.due >= now' /\ m.due < Start' /\ m.start = Start'
      BY <1>1, <1>4, <1>6, <3>1
    <3> QED BY <1>1, <1>5, <1>7, <3>1, <3>2, <3>3 DEF MsgIn
  <2> QED BY <1>10, <2>1, <2>2
<1>12. TasksOK'
  BY <1>1, <1>9 DEF TasksOK, TaskIn
<1>13. TimersOK'
  <2> SUFFICES ASSUME NEW t \in timers' PROVE TimerIn(t)'
    BY DEF TimersOK
  <2>1. CASE t \in timers \cup InitTimers(View, now + 1)
    <3>1. t.what \notin {"vote", "start"}
      BY <1>9, <2>1 DEF InitTimers, DsTimers, BbTimers
    <3> QED BY <3>1 DEF TimerIn
  <2>2. CASE t = [node |-> View, at |-> now + 1, what |-> "start"]
    <3>1. t.what = "start" /\ t = [node |-> View, at |-> Start', what |-> "start"]
          /\ now' <= Start'
      BY <1>1, <1>4, <1>6, <2>2
    <3> QED BY <1>1, <1>5, <3>1 DEF TimerIn
  <2> QED BY <1>1, <2>1, <2>2
<1>14. /\ startTime'[View] = Start'
       /\ \A o \in Node \ {View} : startTime'[o] = startTime[o]
  BY <1>1, <1>4, <1>6 DEF CalmStep, TypeInv, RunTyped
<1>15. StartsOK'
  <2>1. ASSUME NEW n \in Alive, n # View PROVE \E m \in net' : m.kind = "Init" /\ m.to = n
    <3>1. n \in Node \ {View} /\ n \notin Deaf
      BY <2>1 DEF Alive, Honest, Deaf
    <3>2. [init EXCEPT !.to = n] \in msgs
      BY <3>1 DEF ToAll
    <3>3. [init EXCEPT !.to = n].to = n /\ [init EXCEPT !.to = n].kind = "Init"
      BY <1>3
    <3> QED BY <1>10, <3>1, <3>2, <3>3
  <2> QED BY <1>1, <1>7, <1>14, <2>1 DEF StartsOK
<1>16. NodesOK'
  <2>0. (\A p : NodeHas(View, p)') /\ \A o \in Node \ {View} : SameAt(o)
    BY <1>1, <1>4, ResetHas DEF CalmStep
  <2> SUFFICES ASSUME NEW n \in Honest, n # View
               PROVE  \/ \A p : NodeHas(n, p)'
                      \/ \E j \in 1..Len(sessions') : /\ startTime'[n] = sessions'[j].start
                                                      /\ NodeHas(n, PropOf(j))'
    <3>1. View \in Honest => \A p : NodeHas(View, p)'
      BY <2>0
    <3>2. NodesOK' = \A n \in Honest :
                       \/ \A p : NodeHas(n, p)'
                       \/ \E j \in 1..Len(sessions') : /\ startTime'[n] = sessions'[j].start
                                                       /\ NodeHas(n, PropOf(j))'
      BY <1>7 DEF NodesOK
    <3> QED BY <3>1, <3>2
  <2>1. n \in Node /\ SameAt(n) /\ startTime'[n] = startTime[n]
    BY <1>14, <2>0 DEF Honest
  <2>2. CASE \A p : NodeHas(n, p)
    BY <2>1, <2>2, NodeSame
  <2>3. ASSUME NEW j \in 1..Len(sessions), startTime[n] = sessions[j].start, NodeHas(n, PropOf(j))
        PROVE  \E i \in 1..Len(sessions') : /\ startTime'[n] = sessions'[i].start
                                            /\ NodeHas(n, PropOf(i))'
    <3> DEFINE q == PropOf(j)
    <3>1. NodeHas(n, q) /\ q' = q
      BY <1>7, <2>3
    <3> HIDE DEF q
    <3>2. \A p : p = q => NodeHas(n, p)'
      BY <2>1, <3>1, NodeSame
    <3>3. NodeHas(n, q)'
      BY <3>1, <3>2 DEF NodeHas
    <3>4. NodeHas(n, PropOf(j))'
      BY <3>3 DEF q
    <3>5. j \in 1..Len(sessions') /\ startTime'[n] = sessions'[j].start
      BY <1>5, <2>1, <2>3
    <3> QED BY <3>4, <3>5
  <2> QED BY <2>2, <2>3 DEF CalmStep, Good, NodesOK
<1>17. StartsDiffer'
  <2> SUFFICES ASSUME NEW i \in 1..Len(sessions'), NEW j \in 1..Len(sessions'), i < j
               PROVE  sessions'[i].start < sessions'[j].start
    BY DEF StartsDiffer
  <2>1. CASE j \in 1..Len(sessions)
    BY <1>5, <2>1 DEF CalmStep, Good, StartsDiffer
  <2>2. CASE j = Len(sessions) + 1
    <3>1. i \in 1..Len(sessions) /\ sessions'[i] = sessions[i] /\ sessions # <<>>
      BY <1>4, <1>5, <2>2
    <3>2. sessions[i] \in Session /\ Len(sessions) \in 1..Len(sessions)
      BY <1>4, <1>5, <3>1
    <3>3. sessions[i].start \in Nat
      BY <3>2 DEF Session
    <3>4. i < Len(sessions) => sessions[i].start < sessions[Len(sessions)].start
      BY <3>1, <3>2 DEF CalmStep, Good, StartsDiffer
    <3>5. i = Len(sessions) \/ i < Len(sessions)
      BY <1>5, <3>1
    <3>6. Start = sessions[Len(sessions)].start
      BY <3>1, SessionFacts DEF CalmStep
    <3> QED BY <1>4, <1>6, <1>8, <2>2, <3>1, <3>3, <3>4, <3>5, <3>6, NatN
  <2> QED BY <1>5, <2>1, <2>2
<1>18. ConfirmedOK'
  <2> SUFFICES ASSUME NEW c \in confirmed
               PROVE  /\ c.session \in Nat /\ c.session <= Len(sessions')
                      /\ View \in Honest /\ c.asked = c.session /\ c.val # None =>
                           c.session \in 1..Len(sessions') /\ c.val = sessions'[c.session].val
    BY <1>1, <1>7 DEF ConfirmedOK
  <2>1. /\ c.session \in Nat /\ c.session <= Len(sessions)
        /\ View \in Honest /\ c.asked = c.session /\ c.val # None =>
             c.session \in 1..Len(sessions) /\ c.val = sessions[c.session].val
    BY DEF CalmStep, Good, ConfirmedOK
  <2> QED BY <1>5, <2>1
<1> QED BY <1>11, <1>12, <1>13, <1>15, <1>16, <1>17, <1>18 DEF Good

-----------------------------------------------------------------------------
(* The invariant, and what it says of the commit points.                   *)

\* Nothing undoes a fault.
CountsGrow == Counted' /\ setup' = setup /\ lates' >= lates /\ faults' >= faults

LEMMA BbCounts ==
  ASSUME Counted, BbNext
  PROVE  CountsGrow
<1>1. ASSUME UNCHANGED <<faults, lates>> PROVE CountsGrow
  BY <1>1 DEF Counted, CountsGrow, BbNext
<1>2. ASSUME NEW n, NEW m, Wire(net, ToAll(n, m)) PROVE CountsGrow
  BY <1>2, WireGrows, ToAllFinite DEF Counted, CountsGrow, BbNext
<1>3. ASSUME NEW m, BbHandleForward1(m) \/ BbHandleVote(m) \/ BbInputBA(m) \/ BbForwardBA(m)
      PROVE  CountsGrow
  BY <1>1, <1>3 DEF BbHandleForward1, BbHandleVote, BbInputBA, BbForwardBA
<1>4. ASSUME NEW k, BbTally(k) \/ BbCountVote(k) \/ BbCountBA(k) \/ BbLeaveLoop(k)
      PROVE  CountsGrow
  <2>1. UNCHANGED <<faults, lates>> \/ \E n, m : Wire(net, ToAll(n, m))
    BY <1>4, Zenon DEF BbTally, BbCountVote, BbCountBA, BbLeaveLoop, wireVars
  <2> QED BY <1>1, <1>2, <2>1
<1>5. ASSUME NEW t, BbVoteTimer(t) \/ BbStartBA(t) \/ BbSendBA(t) \/ BbFinal(t)
      PROVE  CountsGrow
  <2>1. UNCHANGED <<faults, lates>> \/ \E n, m : Wire(net, ToAll(n, m))
    BY <1>5, Zenon DEF BbVoteTimer, BbStartBA, BbSendBA, BbFinal, wireVars
  <2> QED BY <1>1, <1>2, <2>1
<1> QED BY <1>3, <1>4, <1>5 DEF BbNext

LEMMA StepCounts ==
  ASSUME Counted, [Next]_vars
  PROVE  CountsGrow
<1>1. ASSUME UNCHANGED <<setup, faults, lates>> PROVE CountsGrow
  BY <1>1 DEF Counted, CountsGrow
<1>2. ASSUME setup' = setup, NEW before, NEW msgs, IsFiniteSet(msgs), Wire(before, msgs)
      PROVE  CountsGrow
  BY <1>2, WireGrows DEF Counted, CountsGrow
<1>3. ASSUME NEW n, NEW val, NEW sigs, NEW before, NEW left, NEW also, IsFiniteSet(also),
             setup' = setup, ForwardOrSpin(n, val, sigs, before, left, also)
      PROVE  CountsGrow
  <2>1. CASE Wire(before, also \cup ToAll(n, ForwardMsg(n, val, sigs + 1)))
    BY <1>2, <1>3, <2>1, ToAllFinite, FS_Union
  <2>2. CASE Wire(before, also)
    BY <1>2, <1>3, <2>2
  <2> QED BY <1>3, <2>1, <2>2, Zenon DEF ForwardOrSpin
<1>4. CASE UNCHANGED vars
  BY <1>1, <1>4 DEF vars, roundVars, wireVars
<1>5. ASSUME NEW s \in String, HandleCmdPropose(s) PROVE CountsGrow
  BY <1>2, <1>5, FS_Singleton DEF HandleCmdPropose
<1>6. CASE ProposerNext
  BY <1>1, <1>5, <1>6 DEF ProposerNext, HandleInject, RunPoll, roundVars,
     HandleConsensusDone, RunDone, RunStop, wireVars
<1>7. CASE DsNext
  <2>1. ASSUME NEW k, DsAdd(k), setup' = setup PROVE CountsGrow
    BY <1>3, <2>1, FS_EmptySet DEF DsAdd
  <2>2. ASSUME NEW k, DsLeaveLoop(k), setup' = setup PROVE CountsGrow
    BY <1>2, <2>2, ToAllFinite DEF DsLeaveLoop
  <2> QED BY <1>1, <1>7, <2>1, <2>2 DEF DsNext, DsHandleForward, DsCommit, wireVars
<1>8. CASE ClockTick
  BY <1>1, <1>8 DEF ClockTick, Tick, wireVars
<1>9. CASE ViewInit
  <2> DEFINE init == [kind |-> "Init", to |-> Client, start |-> now + 1, due |-> now]
  <2>1. Wire(net, ToAll(View, init) \cup {init}) /\ setup' = setup
    BY <1>9 DEF ViewInit, RunInit
  <2>2. IsFiniteSet(ToAll(View, init) \cup {init})
    BY ToAllFinite, FS_AddElement
  <2> QED BY <1>2, <2>1, <2>2
<1>10. CASE ViewPropose
  <2> DEFINE m == [kind |-> "Propose", to |-> Client, due |-> now,
                   val |-> IF View \in malicious THEN Bad ELSE Last.val]
             msgs == {p \in ToAll(View, m) : View \in malicious => p.to \in {1, 2}}
  <2>1. Wire(net, msgs) /\ setup' = setup
    BY <1>10 DEF ViewPropose, RunPropose
  <2>2. IsFiniteSet(msgs)
    BY ToAllFinite, FS_Subset
  <2> QED BY <1>2, <2>1, <2>2
<1>11. ASSUME NEW m, HandlePropose(m) PROVE CountsGrow
  <2>1. IsFiniteSet(Forward1Msgs(m.to, m.val))
    BY ToAllFinite DEF Forward1Msgs
  <2> QED BY <1>3, <1>11, <2>1 DEF HandlePropose, DsHandlePropose
<1>12. ASSUME NEW m, HandleInit(m) \/ ClientInit(m) \/ ClientReply(m) PROVE CountsGrow
  BY <1>1, <1>12 DEF HandleInit, ClientInit, ClientReply
<1>13. ASSUME NEW m, HandleQuery(m) PROVE CountsGrow
  BY <1>2, <1>13, FS_Singleton DEF HandleQuery
<1>14. ASSUME NEW t, ClientQuery(t) PROVE CountsGrow
  BY <1>2, <1>14, FS_Singleton DEF ClientQuery
<1>15. ASSUME NEW t, ReferencePoint(t) \/ CommitPoint(t) PROVE CountsGrow
  BY <1>1, <1>15 DEF ReferencePoint, CommitPoint, wireVars
<1>16. ASSUME NEW n, CommitPoint1(n) PROVE CountsGrow
  BY <1>1, <1>16 DEF CommitPoint1, roundVars, wireVars
<1> QED BY <1>4, <1>6, <1>7, <1>8, <1>9, <1>10, <1>11, <1>12, <1>13, <1>14, <1>15, <1>16,
           BbCounts DEF Next

\* Sessions are only appended.
LEMMA SessionsGrow ==
  ASSUME TypeInv, [Next]_vars
  PROVE  sessions' = sessions \/ \E e \in Session : sessions' = Append(sessions, e)
<1>1. CASE ViewInit
  <2> DEFINE e == [start |-> now + 1, val |-> Head(stringQueue)]
  <2>1. sessions' = Append(sessions, e) /\ stringQueue # <<>>
    BY <1>1 DEF ViewInit, RunInit
  <2>2. e \in Session
    BY <2>1, HeadTailProperties DEF TypeInv, RunTyped, Session
  <2> QED BY <2>1, <2>2
<1>2. CASE [Next]_vars /\ ~ViewInit
  <2>1. CASE ViewPropose
    BY <2>1, Zenon DEF ViewPropose, RunPropose
  <2>2. CASE ProposerNext
    BY <2>2 DEF ProposerNext, HandleCmdPropose, HandleInject, RunPoll, roundVars, proposerVars,
       HandleConsensusDone, RunDone, RunStop
  <2>3. CASE DsNext \/ BbNext \/ ClockTick \/ UNCHANGED vars
    BY <2>3 DEF DsNext, BbNext, ClockTick, Tick, vars, roundVars, proposerVars
  <2>4. ASSUME NEW m, HandleInit(m) \/ HandlePropose(m) \/ ClientInit(m) \/ HandleQuery(m)
                        \/ ClientReply(m)
        PROVE  sessions' = sessions
    BY <2>4 DEF HandleInit, HandlePropose, ClientInit, HandleQuery, ClientReply, proposerVars
  <2>5. ASSUME NEW t, ReferencePoint(t) \/ CommitPoint(t) \/ ClientQuery(t)
        PROVE  sessions' = sessions
    BY <2>5 DEF ReferencePoint, CommitPoint, ClientQuery, proposerVars
  <2>6. ASSUME NEW n, CommitPoint1(n) PROVE sessions' = sessions
    BY <2>6 DEF CommitPoint1, roundVars, proposerVars
  <2> QED BY <1>2, <2>1, <2>2, <2>3, <2>4, <2>5, <2>6 DEF Next
<1> QED BY <1>1, <1>2

LEMMA CalmBefore ==
  ASSUME TypeInv, Counted, [Next]_vars, Undisturbed'
  PROVE  Undisturbed /\ setup' = setup
<1>1. Counted' /\ setup' = setup /\ lates' >= lates
  BY StepCounts DEF CountsGrow
<1>2. lates = 0
  BY <1>1 DEF Undisturbed, Synchronous, Counted
<1>3. SessionsDoNotOverlap
  <2>1. CASE sessions' = sessions
    BY <2>1 DEF Undisturbed, SessionsDoNotOverlap
  <2>2. ASSUME NEW e \in Session, sessions' = Append(sessions, e) PROVE SessionsDoNotOverlap
    <3>1. /\ Len(sessions') = Len(sessions) + 1 /\ Len(sessions) \in Nat
          /\ \A i \in 1..Len(sessions) : sessions'[i] = sessions[i]
      BY <2>2, LastOfAppend, LenProperties DEF TypeInv, RunTyped
    <3> SUFFICES ASSUME NEW i \in 2..Len(sessions)
                 PROVE  sessions[i].start >= sessions[i - 1].start + N + 7
      BY DEF SessionsDoNotOverlap
    <3>2. i \in 2..Len(sessions') /\ i \in 1..Len(sessions) /\ i - 1 \in 1..Len(sessions)
      BY <3>1
    <3> QED BY <3>1, <3>2 DEF Undisturbed, SessionsDoNotOverlap
  <2> QED BY <2>1, <2>2, SessionsGrow
<1>4. malicious' = malicious /\ Honest' = Honest
  BY <1>1 DEF malicious, Honest
<1> QED BY <1>1, <1>2, <1>3, <1>4 DEF Undisturbed, Synchronous, Quorum

LEMMA InitTbb == Init => TbbInv
<1> SUFFICES ASSUME Init PROVE TbbInv
  OBVIOUS
<1>1. TypeInv
  BY TypeInit
<1>2. Counted
  BY DEF Init, RoundsInit, Counted
<1>3. NetOK /\ TasksOK /\ TimersOK
  BY DEF Init, RoundsInit, NetOK, TasksOK, TimersOK
<1>4. StartsOK /\ ConfirmedOK /\ StartsDiffer
  BY DEF Init, RoundsInit, StartsOK, ConfirmedOK, StartsDiffer
<1>5. NodesOK
  <2>1. ASSUME NEW n \in Node, NEW p PROVE NodeHas(n, p)
    BY DEF Init, DsInitState, BbInitState, NodeHas, EmptyMap
  <2> QED BY <2>1 DEF NodesOK, Honest
<1> QED BY <1>1, <1>2, <1>3, <1>4, <1>5 DEF TbbInv, Good

LEMMA NextTbb == TbbInv /\ [Next]_vars => TbbInv'
<1> SUFFICES ASSUME TbbInv, [Next]_vars PROVE TbbInv'
  OBVIOUS
<1>1. TypeInv /\ TypeInv' /\ Counted /\ Counted'
  BY TypeNext, StepCounts DEF TbbInv, CountsGrow
<1>2. ASSUME Undisturbed' PROVE Good'
  <2>1. CalmStep
    BY <1>1, <1>2, CalmBefore DEF TbbInv, CalmStep
  <2>2. CASE UNCHANGED vars
    <3>1. SameRun /\ SetsSame /\ UNCHANGED <<net, tasks, timers, confirmed, setup, sessions>>
      BY <2>2 DEF vars, roundVars, wireVars, proposerVars, dsVars, bbVars, tbbVars, clientVars,
         SameRun, SetsSame
    <3> QED BY <2>1, <3>1, ConfirmedStays, SideGood
  <2> QED BY <2>1, <2>2, ProposerGood, DsGood, BbGood, TickGood, ViewInitGood, ViewProposeGood,
             HandleInitGood, HandleProposeGood, ClientInitGood, HandleQueryGood, ClientReplyGood,
             ReferenceGood, CommitPointGood, ClientQueryGood, CommitPoint1Good DEF Next
<1> QED BY <1>1, <1>2 DEF TbbInv

LEMMA TbbInvariance == Spec => []TbbInv
BY InitTbb, NextTbb, PTL DEF Spec

\* As long as hops take less than a tick, no Init is lost, sessions have
\* their time and a malicious view cannot make a certificate by itself, the
\* values at the commit points of honest nodes agree: they are the proposal
\* of the session, from whichever of 1-delta-BB certificate and Dolev-Strong
\* reference they come, whatever else is lost and however tallies race.
THEOREM PointsAgree == Spec => [](Undisturbed => CommitPointsAgree)
<1>1. TbbInv => (Undisturbed => CommitPointsAgree)
  <2> SUFFICES ASSUME TbbInv, Undisturbed, NEW n \in Honest, NEW o \in Honest,
                      startTime[n] = startTime[o], NEW i \in 1..3, NEW j \in 1..3,
                      D[n][i] # None, D[o][j] # None
               PROVE  D[n][i] = D[o][j]
    BY DEF CommitPointsAgree
  <2>1. Good /\ sessions \in Seq(Session)
    BY DEF TbbInv, TypeInv, RunTyped
  <2>2. ASSUME NEW h \in Honest, NEW x \in 1..3, D[h][x] # None
        PROVE  \E s \in 1..Len(sessions) : /\ startTime[h] = sessions[s].start
                                           /\ D[h][x] = PropOf(s)
    <3>1. ~NodeHas(h, None)
      BY <2>2 DEF NodeHas
    <3> QED BY <2>1, <2>2, <3>1 DEF Good, NodesOK, NodeHas
  <2>3. PICK s \in 1..Len(sessions) : startTime[n] = sessions[s].start /\ D[n][i] = PropOf(s)
    BY <2>2
  <2>4. PICK t \in 1..Len(sessions) : startTime[o] = sessions[t].start /\ D[o][j] = PropOf(t)
    BY <2>2
  <2>5. s = t
    <3>0. sessions[s].start = sessions[t].start
      BY <2>3, <2>4, Zenon
    <3>1. sessions[s].start = sessions[t].start /\ sessions[s] \in Session /\ sessions[t] \in Session
      BY <2>1, <3>0
    <3>2. sessions[s].start \in Nat /\ sessions[t].start \in Nat /\ s \in Nat /\ t \in Nat
      BY <3>1 DEF Session
    <3>3. (s < t => sessions[s].start < sessions[t].start)
          /\ (t < s => sessions[t].start < sessions[s].start)
      BY <2>1 DEF Good, StartsDiffer
    <3>4. ~(s < t) /\ ~(t < s)
      BY <3>1, <3>2, <3>3
    <3> QED BY <3>2, <3>4
  <2> QED BY <2>3, <2>4, <2>5
<1> QED BY <1>1, TbbInvariance, PTL

\* In the same executions what the client confirms of an honest view's
\* session is the string of that session.
THEOREM ClientIsRight == Spec => [](Undisturbed => ClientConfirmsString)
<1>1. TbbInv => (Undisturbed => ClientConfirmsString)
  BY DEF TbbInv, Good, ConfirmedOK, ClientConfirmsString
<1> QED BY <1>1, TbbInvariance, PTL

-----------------------------------------------------------------------------
(* A value at the last commit point.                                       *)

\* What is needed for that besides: the view has not been stopped; the commit
\* of Dolev-Strong comes before the second reference point; some honest node
\* hears the view, and more of them than messages are lost; and F counts what
\* is wrong.
Tolerated ==
  /\ Undisturbed /\ pc # "stopped" /\ F <= N - 2
  /\ View \in Honest \/ Targets # {}
  /\ Targets = {} \/ faults < Cardinality(Targets)
  /\ F >= 1 \/ (View \notin malicious /\ faults = 0)

\* The node has a proposal or a first forward coming, or has one in hand.
Proposed(n) == \E m \in net : m.kind = "Propose" /\ m.to = n
Handling(n) == \E k \in tasks : k.for = "Forward" /\ k.node = n /\ k.sigs = 2
ForwardComing(n) == \E m \in net : m.kind = "Forward" /\ m.to = n /\ m.sigs = 2
Served(n) == n \in Has \/ Proposed(n) \/ Handling(n) \/ ForwardComing(n)
\* The targets whose proposal has arrived or is lost.
Past == {p \in Targets : ~Proposed(p)}

\* A node that is not served has lost a message to or from every target
\* whose proposal is no longer on its way.
AllServed ==
  Running =>
    /\ View \in Honest => View \in Has
    /\ faults = 0 => \A n \in Targets : n \in Has \/ Proposed(n)
    /\ \A n \in Backups : Served(n) \/ faults >= Cardinality(Past)

StartTimer == [node |-> View, at |-> Start, what |-> "start"]
CommitTimer(n) == [node |-> n, at |-> Start + F + 1, what |-> "dsCommit"]
RefTimer(n) == [node |-> n, at |-> Start + T2 + 1, what |-> "ref", point |-> 2]
CpTimer(n) == [node |-> n, at |-> Start + T2 + 6, what |-> "cp", point |-> 3]

\* Before the first session nobody has a start time; before its start a
\* session has its start timer.
StartPending ==
  /\ sessions = <<>> => \A n \in Node : startTime[n] = 0
  /\ pc = "start" => sessions # <<>> /\ StartTimer \in timers

\* The clock has passed none of the timers.
Later == {"dsCommit", "ref", "cp"}
Ahead == \A t \in timers : t.what \in Later => t.at \in Int /\ t.at >= now

\* A node of the running session that has committed has just the value that
\* it has extracted.
CommitOK(n) ==
  sessions # <<>> /\ startTime[n] = Start =>
    CommitTimer(n) \in timers \/ extrSet[n] = {commitValue[n]}
\* Once its timer has gone off, the second reference point has a value, and
\* so has the third commit point.
RefOK(n) ==
  startTime[n] > 0 =>
    (startTime[n] = Start /\ RefTimer(n) \in timers) \/ ref[n][2] # None
CpOK(n) ==
  startTime[n] > 0 =>
    \/ startTime[n] = Start /\ CpTimer(n) \in timers
    \/ ref[n][2] # None /\ D[n][3] # None
PointsOK == \A n \in Honest : CommitOK(n) /\ RefOK(n) /\ CpOK(n)

Late == AllServed /\ StartPending /\ Ahead /\ PointsOK

LateInv == TbbInv /\ (Tolerated => Late)

LateStep ==
  CalmStep /\ Counted' /\ faults' >= faults /\ Tolerated /\ Tolerated' /\ Late

LEMMA TargetsFinite ==
  /\ IsFiniteSet(Targets) /\ Cardinality(Targets) \in Nat
  /\ IsFiniteSet(Past) /\ Cardinality(Past) \in Nat
<1>1. Targets \in SUBSET Node /\ Past \in SUBSET Node
  BY DEF Targets, Backups, Honest, Past
<1> QED BY <1>1, HasFinite

LEMMA SameNodes ==
  ASSUME UNCHANGED <<startTime, setup, sessions>>
  PROVE  /\ UNCHANGED <<malicious, Honest, Backups, Targets, Start, Proposal, StartTimer>>
         /\ \A n : UNCHANGED <<CommitTimer(n), RefTimer(n), CpTimer(n)>>
BY DEF malicious, Honest, Backups, Targets, Last, Start, Proposal, StartTimer, CommitTimer,
   RefTimer, CpTimer

LEMMA SameTargets ==
  ASSUME SameRun
  PROVE  /\ UNCHANGED <<malicious, Honest, Backups, Targets, Start, Proposal, Running>>
         /\ UNCHANGED <<now, startTime, sessions, StartTimer>>
         /\ \A n : UNCHANGED <<CommitTimer(n), RefTimer(n), CpTimer(n)>>
BY SameNodes DEF SameRun, Running

-----------------------------------------------------------------------------
(* Who is served, and which timers are left, after a step.                 *)

\* Nobody is served less than before.
LEMMA ServedStep ==
  ASSUME LateStep, SameRun, HasGrows,
         \A n \in Backups : Proposed(n) => Proposed(n)',
         \A n \in Backups : Served(n) => Served(n)'
  PROVE  AllServed'
<1>0. UNCHANGED <<malicious, Honest, Backups, Targets, Start, Proposal, Running>>
  BY SameTargets
<1>1. Targets \subseteq Backups
  BY DEF Targets
<1>2. faults \in Nat /\ faults' \in Nat /\ faults' >= faults /\ Cardinality(Past) \in Nat
  BY TargetsFinite DEF LateStep, CalmStep, Counted
<1>3. Past' \in SUBSET Past /\ Past \in SUBSET Node
  BY <1>0, <1>1 DEF Past, Targets, Backups, Honest
<1>4. Cardinality(Past') \in Nat /\ Cardinality(Past') <= Cardinality(Past)
  BY <1>3, HasFinite
<1> SUFFICES ASSUME Running
             PROVE  /\ View \in Honest => View \in Has'
                    /\ faults' = 0 => \A n \in Targets : n \in Has' \/ Proposed(n)'
                    /\ \A n \in Backups : Served(n)' \/ faults' >= Cardinality(Past')
  BY <1>0 DEF AllServed
<1>5. /\ View \in Honest => View \in Has
      /\ faults = 0 => \A n \in Targets : n \in Has \/ Proposed(n)
      /\ \A n \in Backups : Served(n) \/ faults >= Cardinality(Past)
  BY DEF LateStep, Late, AllServed
<1>6. ASSUME faults' = 0, NEW n \in Targets PROVE n \in Has' \/ Proposed(n)'
  BY <1>1, <1>2, <1>5, <1>6 DEF HasGrows
<1>7. ASSUME NEW n \in Backups PROVE Served(n)' \/ faults' >= Cardinality(Past')
  BY <1>2, <1>4, <1>5, <1>7
<1> QED BY <1>5, <1>6, <1>7 DEF HasGrows

\* Proposals and forwards on their way or in hand stay.
TrafficStays ==
  /\ \A m \in net : m.kind \in {"Propose", "Forward"} => m \in net'
  /\ \A k \in tasks : k.for = "Forward" => k \in tasks'
LEMMA ServedStays ==
  ASSUME LateStep, SameRun, HasGrows, TrafficStays
  PROVE  AllServed'
<1>1. \A n : (Proposed(n) => Proposed(n)') /\ (Handling(n) => Handling(n)')
             /\ (ForwardComing(n) => ForwardComing(n)')
  BY DEF TrafficStays, Proposed, Handling, ForwardComing
<1>2. \A n : Served(n) => Served(n)'
  BY <1>1 DEF Served, HasGrows
<1> QED BY <1>1, <1>2, ServedStep

\* The timers that matter stay, apart from one.
TimersBut(t) ==
  /\ \A u \in timers : u.what \in Later \cup {"start"} /\ u # t => u \in timers'
  /\ \A u \in timers' : u.what \in Later => u \in timers
LEMMA PendingStays ==
  ASSUME LateStep, SameRun, NEW t, t.what # "start", TimersBut(t)
  PROVE  StartPending' /\ Ahead'
<1>1. UNCHANGED <<Start, StartTimer, now, startTime, sessions>> /\ (pc' = "start" <=> pc = "start")
  BY SameTargets DEF SameRun
<1>2. StartTimer.what = "start"
  BY DEF StartTimer
<1>3. StartPending'
  BY <1>1, <1>2 DEF LateStep, Late, StartPending, TimersBut
<1>4. Ahead'
  BY <1>1 DEF LateStep, Late, Ahead, TimersBut, Later
<1> QED BY <1>3, <1>4

\* A node whose values and timers stay.
LEMMA PointStays ==
  ASSUME LateStep, UNCHANGED <<startTime, setup, sessions>>, NEW t, TimersBut(t), NEW n \in Honest, t.what \in Later => t.node # n,
         extrSet'[n] = {commitValue'[n]} \/ extrSet[n] # {commitValue[n]},
         ref[n][2] # None => ref'[n][2] # None, D[n][3] # None => D'[n][3] # None
  PROVE  CommitOK(n)' /\ RefOK(n)' /\ CpOK(n)'
<1>1. UNCHANGED <<Start, startTime, sessions, CommitTimer(n), RefTimer(n), CpTimer(n)>>
  BY SameNodes
<1>2. /\ CommitTimer(n) \in timers => CommitTimer(n) \in timers'
      /\ RefTimer(n) \in timers => RefTimer(n) \in timers'
      /\ CpTimer(n) \in timers => CpTimer(n) \in timers'
  <2>1. \A u \in {CommitTimer(n), RefTimer(n), CpTimer(n)} : u.what \in Later /\ u.node = n
    BY DEF CommitTimer, RefTimer, CpTimer, Later
  <2>2. \A u \in {CommitTimer(n), RefTimer(n), CpTimer(n)} : u # t
    BY <2>1
  <2> QED BY <2>1, <2>2 DEF TimersBut
<1>3. CommitOK(n) /\ RefOK(n) /\ CpOK(n)
  BY DEF LateStep, Late, PointsOK
<1>4. CommitOK(n)'
  BY <1>1, <1>2, <1>3 DEF CommitOK
<1>5. RefOK(n)'
  BY <1>1, <1>2, <1>3 DEF RefOK
<1>6. CpOK(n)'
  BY <1>1, <1>2, <1>3 DEF CpOK
<1> QED BY <1>4, <1>5, <1>6

LEMMA QuietLate ==
  ASSUME LateStep, SameRun, UNCHANGED <<extrSet, commitValue, ref>>, TrafficStays,
         \A n \in Honest : D'[n][3] = D[n][3], NEW t, t.what \notin Later \cup {"start"}, TimersBut(t)
  PROVE  Late'
<1>1. HasGrows
  BY SameTargets DEF HasGrows, Has
<1>2. AllServed' /\ StartPending' /\ Ahead'
  BY <1>1, ServedStays, PendingStays
<1>3. ASSUME NEW n \in Honest PROVE CommitOK(n)' /\ RefOK(n)' /\ CpOK(n)'
  BY <1>3, PointStays DEF SameRun
<1>4. PointsOK'
  BY <1>3, SameTargets DEF PointsOK
<1> QED BY <1>2, <1>4 DEF Late

-----------------------------------------------------------------------------
(* Steps that the last commit point does not depend on.                    *)

LEMMA ProposerLate ==
  ASSUME LateStep, ProposerNext, UNCHANGED <<dsVars, bbVars, tbbVars, clientVars>>
  PROVE  Late'
<1>1. UNCHANGED <<extrSet, commitValue, ref>> /\ \A n \in Honest : D'[n][3] = D[n][3]
  BY DEF dsVars, tbbVars
<1>2. SameRun
  BY DEF ProposerNext, SameRun, HandleCmdPropose, HandleInject, RunPoll,
     HandleConsensusDone, RunDone, RunStop, roundVars, proposerVars
<1>3. PICK none : none = [what |-> "none"]
  OBVIOUS
<1>4. none.what \notin Later \cup {"start"}
  BY <1>3 DEF Later
<1>5. timers' = timers => TimersBut(none)
  BY DEF TimersBut
<1>6. ASSUME NEW s \in String, HandleCmdPropose(s) PROVE Late'
  <2>0. timers' = timers /\ tasks' = tasks /\ \E o : Wire(net, {o})
    BY <1>6, Zenon DEF HandleCmdPropose
  <2>1. timers' = timers /\ tasks' = tasks /\ net \subseteq net'
    BY <2>0, FS_Singleton, SentIn DEF LateStep
  <2> QED BY <1>1, <1>2, <1>4, <1>5, <2>1, QuietLate DEF TrafficStays
<1>7. ASSUME NEW m \in Inbox, HandleInject(m) PROVE Late'
  <2>1. m.kind = "Inject" /\ net' = net \ {m} /\ timers' = timers /\ tasks' = tasks
    BY <1>7 DEF HandleInject
  <2>2. TrafficStays
    BY <2>1 DEF TrafficStays
  <2> QED BY <1>1, <1>2, <1>4, <1>5, <2>1, <2>2, QuietLate
<1>8. CASE RunPoll \/ RunDone
  <2>1. net' = net /\ timers' = timers /\ tasks' = tasks
    BY <1>8 DEF RunPoll, RunDone, roundVars, wireVars
  <2> QED BY <1>1, <1>2, <1>4, <1>5, <2>1, QuietLate DEF TrafficStays
<1>9. ASSUME NEW t \in Ripe, HandleConsensusDone(t) PROVE Late'
  <2>1. net' = net /\ timers' = timers \ {t} /\ tasks' = tasks /\ t.what \in {"done", "bbDone"}
    BY <1>9 DEF HandleConsensusDone, wireVars
  <2>2. t.what \notin Later \cup {"start"} /\ TimersBut(t)
    BY <2>1 DEF Later, TimersBut
  <2> QED BY <1>1, <1>2, <2>1, <2>2, QuietLate DEF TrafficStays
<1>10. ~RunStop
  BY DEF RunStop, LateStep, Tolerated
<1> QED BY <1>6, <1>7, <1>8, <1>9, <1>10 DEF ProposerNext

\* Nothing of 1-delta-BB is awaited.
LEMMA BbLate ==
  ASSUME LateStep, BbNext, UNCHANGED <<dsVars, tbbVars, clientVars>>
  PROVE  Late'
<1>1. UNCHANGED <<extrSet, commitValue, ref>> /\ \A n \in Honest : D'[n][3] = D[n][3]
  BY DEF dsVars, tbbVars
<1>2. SameRun
  BY DEF BbNext, SameRun, proposerVars
<1>3. PICK none : none = [what |-> "none"]
  OBVIOUS
<1>4. none.what \notin Later \cup {"start"}
  BY <1>3 DEF Later
<1>5. ASSUME NEW n, NEW m, Wire(net, ToAll(n, m)) PROVE net \subseteq net'
  BY <1>5, ToAllFinite, SentIn DEF LateStep
<1>6. ASSUME NEW m \in Inbox,
             BbHandleForward1(m) \/ BbHandleVote(m) \/ BbInputBA(m) \/ BbForwardBA(m)
      PROVE  Late'
  <2>1. /\ m.kind \in {"Forward1", "Vote", "Forward2"} /\ net' = net \ {m} /\ timers' = timers
        /\ tasks \subseteq tasks'
    BY <1>6 DEF BbHandleForward1, BbHandleVote, BbInputBA, BbForwardBA
  <2>2. TrafficStays /\ TimersBut(none)
    BY <2>1 DEF TrafficStays, TimersBut
  <2> QED BY <1>1, <1>2, <1>4, <2>2, QuietLate
<1>7. ASSUME NEW k \in Ready,
             BbTally(k) \/ BbCountVote(k) \/ BbCountBA(k) \/ BbLeaveLoop(k)
      PROVE  Late'
  <2>1. k.for \in {"vote", "ba", "Forward2"} /\ tasks \ {k} \subseteq tasks'
    BY <1>7 DEF BbTally, BbCountVote, BbCountBA, BbLeaveLoop
  <2>2. net \subseteq net'
    <3>1. UNCHANGED net \/ \E n, m : Wire(net, ToAll(n, m))
      BY <1>7, Zenon DEF BbTally, BbCountVote, BbCountBA, BbLeaveLoop, wireVars
    <3> QED BY <1>5, <3>1
  <2>3. timers \subseteq timers' /\ \A t \in timers' : t \in timers \/ t.what = "baSend"
    BY <1>7 DEF BbTally, BbCountVote, BbCountBA, BbLeaveLoop
  <2>4. TrafficStays
    BY <2>1, <2>2 DEF TrafficStays
  <2>5. TimersBut(none)
    BY <2>3 DEF TimersBut, Later
  <2> QED BY <1>1, <1>2, <1>4, <2>4, <2>5, QuietLate
<1>8. ASSUME NEW t \in Ripe, BbVoteTimer(t) \/ BbStartBA(t) \/ BbSendBA(t) \/ BbFinal(t)
      PROVE  Late'
  <2>1. /\ t.what \in {"vote", "baStart", "baSend", "bbFinal"} /\ timers' = timers \ {t}
        /\ tasks \subseteq tasks'
    BY <1>8 DEF BbVoteTimer, BbStartBA, BbSendBA, BbFinal
  <2>2. net \subseteq net'
    <3>1. UNCHANGED net \/ \E n, m : Wire(net, ToAll(n, m))
      BY <1>8, Zenon DEF BbVoteTimer, BbStartBA, BbSendBA, BbFinal, wireVars
    <3> QED BY <1>5, <3>1
  <2>3. TrafficStays
    BY <2>1, <2>2 DEF TrafficStays
  <2>4. t.what \notin Later \cup {"start"} /\ TimersBut(t)
    BY <2>1 DEF TimersBut, Later
  <2> QED BY <1>1, <1>2, <2>3, <2>4, QuietLate
<1> QED BY <1>6, <1>7, <1>8 DEF BbNext

LEMMA ClientLate ==
  ASSUME LateStep,
         \/ \E m \in Inbox : ClientInit(m) \/ HandleQuery(m) \/ ClientReply(m)
         \/ \E t \in Ripe : ClientQuery(t)
  PROVE  Late'
<1>1. PICK none : none = [what |-> "none"]
  OBVIOUS
<1>2. none.what \notin Later \cup {"start"}
  BY <1>1 DEF Later
<1>3. ASSUME NEW m \in Inbox, ClientInit(m) \/ ClientReply(m) PROVE Late'
  <2>1. SameRun /\ UNCHANGED <<extrSet, commitValue, ref, D, tasks>>
    BY <1>3 DEF ClientInit, ClientReply, SameRun, proposerVars, dsVars, tbbVars
  <2>2. m.kind \in {"Init", "Reply"} /\ net' = net \ {m}
    BY <1>3 DEF ClientInit, ClientReply
  <2>3. timers \subseteq timers' /\ \A t \in timers' : t \in timers \/ t.what = "query"
    BY <1>3 DEF ClientInit, ClientReply, QueryTimer
  <2>4. TrafficStays
    BY <2>1, <2>2 DEF TrafficStays
  <2>5. TimersBut(none)
    BY <2>3 DEF TimersBut, Later
  <2> QED BY <1>2, <2>1, <2>4, <2>5, QuietLate
<1>4. ASSUME NEW m \in Inbox, HandleQuery(m) PROVE Late'
  <2>1. SameRun /\ UNCHANGED <<extrSet, commitValue, ref, D, tasks, timers>> /\ m.kind = "Query"
    BY <1>4 DEF HandleQuery, SameRun, proposerVars, dsVars, tbbVars
  <2>2. net \ {m} \subseteq net'
    <3>1. PICK o : Wire(net \ {m}, {o})
      BY <1>4, Zenon DEF HandleQuery
    <3>2. IsFiniteSet({o}) /\ CalmStep
      BY FS_Singleton DEF LateStep
    <3> QED BY <3>1, <3>2, SentIn
  <2>3. TrafficStays
    BY <2>1, <2>2 DEF TrafficStays
  <2>4. TimersBut(none)
    BY <2>1 DEF TimersBut
  <2> QED BY <1>2, <2>1, <2>3, <2>4, QuietLate
<1>5. ASSUME NEW t \in Ripe, ClientQuery(t) PROVE Late'
  <2>1. /\ SameRun /\ UNCHANGED <<extrSet, commitValue, ref, D, tasks>>
        /\ t.what = "query" /\ timers' = timers \ {t}
    BY <1>5 DEF ClientQuery, SameRun, proposerVars, dsVars, tbbVars
  <2>2. net \subseteq net'
    <3>1. PICK o : Wire(net, {o})
      BY <1>5, Zenon DEF ClientQuery
    <3>2. IsFiniteSet({o}) /\ CalmStep
      BY FS_Singleton DEF LateStep
    <3> QED BY <3>1, <3>2, SentIn
  <2>3. TrafficStays
    BY <2>1, <2>2 DEF TrafficStays
  <2>4. t.what \notin Later \cup {"start"} /\ TimersBut(t)
    BY <2>1 DEF TimersBut, Later
  <2> QED BY <2>1, <2>3, <2>4, QuietLate
<1> QED BY <1>3, <1>4, <1>5

LEMMA CommitPoint1Late ==
  ASSUME LateStep, NEW n \in Node, CommitPoint1(n)
  PROVE  Late'
<1>1. PICK none : none = [what |-> "none"]
  OBVIOUS
<1>2. none.what \notin Later \cup {"start"}
  BY <1>1 DEF Later
<1>3. /\ UNCHANGED <<extrSet, commitValue, ref, net, tasks, timers>> /\ SameRun
      /\ D' = [D EXCEPT ![n][1] = bbValue[n]]
  BY DEF CommitPoint1, roundVars, wireVars, proposerVars, dsVars, SameRun
<1>4. D \in [Node -> [1..3 -> Value \cup {None}]]
  BY DEF LateStep, CalmStep, TypeInv, PointsTyped
<1>5. \A o \in Honest : D'[o][3] = D[o][3]
  BY <1>3, <1>4 DEF Honest
<1>6. TrafficStays /\ TimersBut(none)
  BY <1>3 DEF TrafficStays, TimersBut
<1> QED BY <1>2, <1>3, <1>5, <1>6, QuietLate

\* The clock moves on only when no timer is due.
LEMMA TickLate ==
  ASSUME LateStep, ClockTick
  PROVE  Late'
<1>1. /\ UNCHANGED <<timers, tasks, startTime, setup, net, faults, pc, sessions, extrSet,
                     commitValue, ref, D>>
      /\ now' = now + 1 /\ TickEnabled
  BY DEF ClockTick, Tick, wireVars, proposerVars, dsVars, tbbVars
<1>2. UNCHANGED <<malicious, Honest, Backups, Targets, Start, Proposal, Running>>
  BY <1>1 DEF malicious, Honest, Backups, Targets, Last, Start, Proposal, Running
<1>3. now \in Nat
  BY DEF LateStep, CalmStep, TypeInv, RunTyped
<1>4. AllServed'
  <2>1. Has' = Has /\ \A n : UNCHANGED <<Proposed(n), Handling(n), ForwardComing(n)>>
    BY <1>1, <1>2 DEF Has, Proposed, Handling, ForwardComing
  <2>2. Past' = Past /\ \A n : Served(n)' = Served(n)
    BY <1>2, <2>1 DEF Past, Served
  <2> QED BY <1>1, <1>2, <2>1, <2>2 DEF LateStep, Late, AllServed
<1>5. StartPending'
  BY <1>1, <1>2 DEF LateStep, Late, StartPending, StartTimer
<1>6. Ahead'
  BY <1>1, <1>3 DEF LateStep, Late, Ahead, TickEnabled
<1>7. PointsOK'
  BY <1>1, <1>2 DEF LateStep, Late, PointsOK, CommitOK, RefOK, CpOK, CommitTimer, RefTimer, CpTimer
<1> QED BY <1>4, <1>5, <1>6, <1>7 DEF Late

-----------------------------------------------------------------------------
(* Dolev-Strong: forwards, commits and references.                         *)

\* Before a session starts the clock is not past its start.
LEMMA BeforeStart ==
  ASSUME TypeInv, Good, Late, pc = "start"
  PROVE  sessions # <<>> /\ now <= Start /\ now \in Nat /\ Start \in Nat
<1>1. sessions # <<>> /\ StartTimer \in timers
  BY DEF Late, StartPending
<1>2. StartTimer.what = "start"
  BY DEF StartTimer
<1>3. now <= Start
  BY <1>1, <1>2 DEF Good, TimersOK, TimerIn
<1> QED BY <1>1, <1>3, SessionFacts

\* At its commit every honest node has the proposal: one that has not would
\* have lost a message for each target, and they are fewer.  Without faults
\* the first hop is enough.
LEMMA AllHave ==
  ASSUME LateStep, sessions # <<>>, NEW n \in Honest, now >= Start + F + 1
  PROVE  n \in Has /\ extrSet[n] = {Proposal}
<1>0. now \in Nat /\ Start \in Nat /\ F \in Nat
  BY SessionFacts, NatN DEF LateStep, CalmStep
<1>1. Running
  BY <1>0, BeforeStart DEF LateStep, CalmStep, Running
<1>2. \A p : ~Proposed(p)
  <2> SUFFICES ASSUME NEW m \in net, m.kind = "Propose" PROVE FALSE
    BY DEF Proposed
  <2>1. MsgIn(m)
    BY DEF LateStep, CalmStep, Good, NetOK
  <2>2. m.due <= Start /\ m.due >= now /\ m.due \in Int
    BY <2>1 DEF MsgIn
  <2> QED BY <1>0, <2>2
<1>3. /\ View \in Honest => View \in Has
      /\ faults = 0 => \A p \in Targets : p \in Has \/ Proposed(p)
      /\ n \in Backups => Served(n) \/ faults >= Cardinality(Past)
  BY <1>1 DEF LateStep, Late, AllServed
<1>4. Past = Targets
  BY <1>2 DEF Past
<1>5. ASSUME n \in Backups, F >= 1 PROVE n \in Has
  <2>1. now >= Start + 2
    BY <1>0, <1>5
  <2>2. ~Handling(n)
    <3> SUFFICES ASSUME NEW k \in tasks, k.for = "Forward", k.sigs = 2 PROVE FALSE
      BY DEF Handling
    <3>1. now <= Start + k.sigs - 1
      BY DEF LateStep, CalmStep, Good, TasksOK, TaskIn
    <3> QED BY <1>0, <2>1, <3>1
  <2>3. ~ForwardComing(n)
    <3> SUFFICES ASSUME NEW m \in net, m.kind = "Forward", m.sigs = 2 PROVE FALSE
      BY DEF ForwardComing
    <3>1. MsgIn(m)
      BY DEF LateStep, CalmStep, Good, NetOK
    <3>2. m.due <= Start + m.sigs - 1 /\ m.due >= now /\ m.due \in Int
      BY <3>1 DEF MsgIn
    <3> QED BY <1>0, <2>1, <3>2
  <2>4. Targets # {}
    BY <1>5 DEF LateStep, Tolerated, Targets, Honest
  <2>5. ~(faults >= Cardinality(Past))
    BY <1>4, <2>4, TargetsFinite DEF LateStep, CalmStep, Tolerated, Counted
  <2> QED BY <1>2, <1>3, <1>5, <2>2, <2>3, <2>5 DEF Served
<1>6. ASSUME n \in Backups, F = 0 PROVE n \in Has
  <2>1. View \notin malicious /\ faults = 0
    BY <1>6 DEF LateStep, Tolerated
  <2>2. n \in Targets
    BY <1>6, <2>1 DEF Targets
  <2> QED BY <1>2, <1>3, <2>1, <2>2
<1>7. n \in Has
  BY <1>0, <1>3, <1>5, <1>6 DEF Backups
<1>8. startTime[n] = Start
  BY <1>1, KnowsStart DEF LateStep, CalmStep, Alive
<1>9. extrSet[n] \subseteq {Proposal}
  BY <1>8, CurrentHas DEF LateStep, CalmStep, NodeHas
<1> QED BY <1>7, <1>9 DEF Has

\* A node that adds the proposal to its set keeps its points.
LEMMA ExtractPoints ==
  ASSUME LateStep, UNCHANGED <<startTime, setup, sessions>>, UNCHANGED <<commitValue, ref, D>>, sessions # <<>>,
         NEW n \in Node, startTime[n] = Start, NEW val, n \in Honest => val = Proposal,
         extrSet' = [extrSet EXCEPT ![n] = @ \cup {val}],
         NEW t, t.what \notin Later, TimersBut(t)
  PROVE  PointsOK'
<1>1. extrSet \in [Node -> SUBSET Value] /\ Honest' = Honest /\ Honest \subseteq Node
  BY SameNodes DEF LateStep, CalmStep, TypeInv, SetsTyped, Honest
<1>2. ASSUME NEW o \in Honest PROVE CommitOK(o)' /\ RefOK(o)' /\ CpOK(o)'
  <2>1. extrSet'[o] = {commitValue'[o]} \/ extrSet[o] # {commitValue[o]}
    <3>1. CASE o # n
      <4>1. extrSet'[o] = extrSet[o]
        BY <1>1, <1>2, <3>1
      <4> QED BY <4>1
    <3>2. CASE o = n
      <4>1. extrSet'[o] = extrSet[o] \cup {Proposal}
        BY <1>1, <1>2, <3>2
      <4>2. extrSet[o] \subseteq {Proposal}
        BY <1>2, <3>2, CurrentHas DEF LateStep, CalmStep, NodeHas
      <4> QED BY <4>1, <4>2
    <3> QED BY <3>1, <3>2
  <2> QED BY <1>2, <2>1, PointStays
<1> QED BY <1>1, <1>2 DEF PointsOK

LEMMA HandleForwardLate ==
  ASSUME LateStep, SameRun, NEW m \in Inbox, DsHandleForward(m), UNCHANGED tbbVars
  PROVE  Late'
<1>1. /\ m \in net /\ m.kind = "Forward" /\ net' = net \ {m} /\ timers' = timers
      /\ tasks' = IF m.val \in extrSet[m.to] THEN tasks
                  ELSE tasks \cup {[node |-> m.to, at |-> "add", for |-> "Forward",
                                    val |-> m.val, sigs |-> m.sigs]}
      /\ UNCHANGED <<extrSet, commitValue, ref, D>>
  BY DEF DsHandleForward, Inbox, dsVars, tbbVars
<1>2. m.val = Proposal /\ m.to \in Node
  BY <1>1 DEF LateStep, CalmStep, Good, NetOK, MsgIn, TypeInv, AllOK, MsgOK
<1>3. PICK none : none = [what |-> "none"]
  OBVIOUS
<1>4. none.what \notin Later \cup {"start"} /\ TimersBut(none)
  BY <1>1, <1>3 DEF Later, TimersBut
<1>5. HasGrows
  BY <1>1, SameTargets DEF HasGrows, Has
<1>6. AllServed'
  <2>1. \A n : Proposed(n) => Proposed(n)'
    BY <1>1 DEF Proposed
  <2>2. \A n : Handling(n) => Handling(n)'
    BY <1>1 DEF Handling
  <2>3. ASSUME NEW n, ForwardComing(n) PROVE Served(n)'
    <3>1. PICK o \in net : o.kind = "Forward" /\ o.to = n /\ o.sigs = 2
      BY <2>3 DEF ForwardComing
    <3>2. CASE o # m
      <4>1. ForwardComing(n)'
        BY <1>1, <3>1, <3>2 DEF ForwardComing
      <4> QED BY <4>1 DEF Served
    <3>3. CASE o = m /\ m.val \in extrSet[m.to]
      <4>1. n \in Has
        BY <1>2, <3>1, <3>3 DEF Has
      <4> QED BY <1>5, <4>1 DEF HasGrows, Served
    <3>4. CASE o = m /\ m.val \notin extrSet[m.to]
      <4>0. PICK k : k = [node |-> m.to, at |-> "add", for |-> "Forward",
                          val |-> m.val, sigs |-> m.sigs]
        OBVIOUS
      <4>1. k \in tasks' /\ k.for = "Forward" /\ k.node = n /\ k.sigs = 2
        BY <1>1, <3>1, <3>4, <4>0
      <4>2. Handling(n)'
        BY <4>1 DEF Handling
      <4> QED BY <4>2 DEF Served
    <3> QED BY <3>2, <3>3, <3>4
  <2>4. \A n : Served(n) => Served(n)'
    BY <1>5, <2>1, <2>2, <2>3 DEF Served, HasGrows
  <2> QED BY <1>5, <2>1, <2>4, ServedStep
<1>7. StartPending' /\ Ahead'
  BY <1>4, PendingStays
<1>8. ASSUME NEW n \in Honest PROVE CommitOK(n)' /\ RefOK(n)' /\ CpOK(n)'
  BY <1>1, <1>4, <1>8, PointStays DEF SameRun
<1>9. PointsOK'
  BY <1>8, SameTargets DEF PointsOK
<1> QED BY <1>6, <1>7, <1>9 DEF Late

LEMMA AddLate ==
  ASSUME LateStep, SameRun, NEW k \in Ready, DsAdd(k), UNCHANGED tbbVars
  PROVE  Late'
<1>1. /\ k \in tasks /\ k.at = "add" /\ k.for = "Forward"
      /\ extrSet' = [extrSet EXCEPT ![k.node] = @ \cup {k.val}]
      /\ ForwardOrSpin(k.node, k.val, k.sigs, net, tasks \ {k}, {})
      /\ UNCHANGED <<timers, commitValue, ref, D>>
  BY DEF DsAdd, Ready, Urgent, tbbVars
<1>2. /\ k.node \in Alive /\ Running /\ k.val = Proposal /\ k.sigs \in Nat /\ k.sigs >= 1
      /\ now <= Start + k.sigs - 1 /\ k.node \in Node
  BY <1>1 DEF LateStep, CalmStep, Good, TasksOK, TaskIn, TypeInv, TasksTyped, TaskOK
<1>3. startTime[k.node] = Start /\ sessions # <<>>
  BY <1>2, KnowsStart DEF LateStep, CalmStep
<1>4. /\ Wire(net, {} \cup ToAll(k.node, ForwardMsg(k.node, k.val, k.sigs + 1)))
      /\ tasks' = tasks \ {k}
  BY <1>1, <1>2, ForwardNow DEF LateStep
<1>5. net \subseteq net'
  BY <1>4, ToAllFinite, FS_EmptySet, FS_Union, SentIn DEF LateStep
<1>6. extrSet' = [extrSet EXCEPT ![k.node] = @ \cup {Proposal}]
  BY <1>1, <1>2
<1>7. HasGrows /\ k.node \in Has'
  BY <1>2, <1>3, <1>6, ExtractHas DEF LateStep
<1>8. AllServed'
  <2>1. \A n : (Proposed(n) => Proposed(n)') /\ (ForwardComing(n) => ForwardComing(n)')
    BY <1>5 DEF Proposed, ForwardComing
  <2>2. \A n : Handling(n) => Handling(n)' \/ n = k.node
    BY <1>4 DEF Handling
  <2>3. \A n : Served(n) => Served(n)'
    BY <1>7, <2>1, <2>2 DEF Served, HasGrows
  <2> QED BY <1>7, <2>1, <2>3, ServedStep
<1>9. PICK none : none = [what |-> "none"]
  OBVIOUS
<1>10. none.what \notin Later \cup {"start"} /\ TimersBut(none)
  BY <1>1, <1>9 DEF Later, TimersBut
<1>11. StartPending' /\ Ahead'
  BY <1>10, PendingStays
<1>12. PointsOK'
  BY <1>1, <1>2, <1>3, <1>6, <1>10, ExtractPoints DEF SameRun
<1> QED BY <1>8, <1>11, <1>12 DEF Late

\* The commit of a node: what it has extracted is the proposal.
LEMMA CommitLate ==
  ASSUME LateStep, SameRun, NEW t \in Ripe, DsCommit(t), UNCHANGED tbbVars
  PROVE  Late'
<1>1. /\ t \in timers /\ t.at <= now /\ t.what = "dsCommit" /\ timers' = timers \ {t}
      /\ UNCHANGED <<net, tasks, extrSet, ref, D>>
      /\ commitValue' = [commitValue EXCEPT ![t.node] = Single(extrSet[t.node])]
  BY DEF DsCommit, Ripe, wireVars, tbbVars
<1>2. /\ t.node \in Node /\ commitValue \in [Node -> Value \cup {None}] /\ Honest \subseteq Node
      /\ UNCHANGED <<Honest, Start, startTime, sessions>>
  BY <1>1, SameTargets DEF LateStep, CalmStep, TypeInv, SetsTyped, TimersTyped, TimerOK, Honest
<1>3. TimersBut(t)
  BY <1>1 DEF TimersBut
<1>4. HasGrows /\ TrafficStays
  BY <1>1, SameTargets DEF HasGrows, Has, TrafficStays
<1>5. AllServed' /\ StartPending' /\ Ahead'
  BY <1>1, <1>3, <1>4, ServedStays, PendingStays
<1>6. ASSUME NEW n \in Honest PROVE CommitOK(n)' /\ RefOK(n)' /\ CpOK(n)'
  <2>1. CASE n # t.node
    <3>1. commitValue'[n] = commitValue[n]
      BY <1>1, <1>2, <1>6, <2>1
    <3> QED BY <1>1, <1>3, <1>6, <2>1, <3>1, PointStays DEF SameRun
  <2>2. CASE n = t.node
    <3>1. commitValue'[n] = Single(extrSet[n])
      BY <1>1, <1>2, <1>6, <2>2
    <3>2. UNCHANGED <<CommitTimer(n), RefTimer(n), CpTimer(n)>>
      BY SameTargets
    <3>3. /\ RefTimer(n) \in timers => RefTimer(n) \in timers'
          /\ CpTimer(n) \in timers => CpTimer(n) \in timers'
          /\ CommitTimer(n) \in timers /\ CommitTimer(n) # t => CommitTimer(n) \in timers'
      BY <1>1 DEF RefTimer, CpTimer
    <3>4. CommitOK(n) /\ RefOK(n) /\ CpOK(n)
      BY <1>6 DEF LateStep, Late, PointsOK
    <3>5. RefOK(n)'
      BY <1>1, <1>2, <3>2, <3>3, <3>4 DEF RefOK
    <3>6. CpOK(n)'
      BY <1>1, <1>2, <3>2, <3>3, <3>4 DEF CpOK
    <3>7. ASSUME sessions # <<>>, startTime[n] = Start, CommitTimer(n) \notin timers'
          PROVE  extrSet'[n] = {commitValue'[n]}
      <4>1. CASE extrSet[n] = {commitValue[n]}
        <5>1. Single(extrSet[n]) = commitValue[n]
          BY <4>1, FS_Singleton DEF Single
        <5> QED BY <1>1, <3>1, <4>1, <5>1
      <4>2. CASE CommitTimer(n) = t
        <5>1. now >= Start + F + 1
          BY <1>1, <4>2 DEF CommitTimer
        <5>2. extrSet[n] = {Proposal}
          BY <1>6, <3>7, <5>1, AllHave
        <5>3. Single(extrSet[n]) = Proposal
          BY <5>2, FS_Singleton DEF Single
        <5> QED BY <1>1, <3>1, <5>2, <5>3
      <4> QED BY <3>3, <3>4, <3>7, <4>1, <4>2 DEF CommitOK
    <3>8. CommitOK(n)'
      BY <1>2, <3>2, <3>7 DEF CommitOK
    <3> QED BY <3>5, <3>6, <3>8
  <2> QED BY <2>1, <2>2
<1>7. PointsOK'
  BY <1>2, <1>6 DEF PointsOK
<1> QED BY <1>5, <1>7 DEF Late

LEMMA DsLate ==
  ASSUME LateStep, DsNext, UNCHANGED <<bbVars, tbbVars, clientVars>>
  PROVE  Late'
<1>1. SameRun
  BY DEF DsNext, SameRun, proposerVars
<1>2. ASSUME NEW k \in Ready PROVE ~DsLeaveLoop(k)
  <2>1. k \in tasks
    BY DEF Ready, Urgent
  <2> QED BY <2>1 DEF DsLeaveLoop, LateStep, CalmStep, Good, TasksOK, TaskIn
<1> QED BY <1>1, <1>2, HandleForwardLate, AddLate, CommitLate DEF DsNext

LEMMA ValueNotNone == None \notin Value
BY RoundsAssumption

\* The reference points: point 2 comes after the commit.
LEMMA ReferenceLate ==
  ASSUME LateStep, NEW t \in Ripe, ReferencePoint(t)
  PROVE  Late'
<1>1. /\ t \in timers /\ t.at <= now /\ t.what = "ref" /\ timers' = timers \ {t}
      /\ UNCHANGED <<net, tasks, extrSet, commitValue, D>> /\ SameRun
  BY DEF ReferencePoint, Ripe, wireVars, dsVars, SameRun, proposerVars
<1>2. /\ t.node \in Node /\ Honest \subseteq Node
      /\ UNCHANGED <<Honest, Start, startTime, sessions>> /\ t.point \in {1, 2}
      /\ ref \in [Node -> [1..2 -> Value \cup {None}]] /\ extrSet \in [Node -> SUBSET Value]
  BY <1>1, SameTargets DEF LateStep, CalmStep, TypeInv, SetsTyped, PointsTyped, TimersTyped,
     TimerOK, Honest
<1>3. TimersBut(t)
  BY <1>1 DEF TimersBut
<1>4. HasGrows /\ TrafficStays
  BY <1>1, SameTargets DEF HasGrows, Has, TrafficStays
<1>5. AllServed' /\ StartPending' /\ Ahead'
  BY <1>1, <1>3, <1>4, ServedStays, PendingStays
<1>6. \A n \in Node \ {t.node} : ref'[n] = ref[n]
  BY <1>2 DEF ReferencePoint
<1>7. ref[t.node][2] # None => ref'[t.node][2] # None
  <2>1. CASE UNCHANGED ref
    BY <2>1
  <2>2. CASE /\ extrSet[t.node] = {commitValue[t.node]}
             /\ ref' = [ref EXCEPT ![t.node][t.point] = commitValue[t.node]]
    <3>1. commitValue[t.node] \in Value
      BY <1>2, <2>2
    <3>2. ref'[t.node][2] \in {ref[t.node][2], commitValue[t.node]}
      BY <1>2, <2>2
    <3> QED BY <3>1, <3>2, ValueNotNone
  <2> QED BY <2>1, <2>2 DEF ReferencePoint
<1>8. ASSUME NEW n \in Honest PROVE CommitOK(n)' /\ RefOK(n)' /\ CpOK(n)'
  <2>1. CASE n # t.node
    <3>1. ref'[n] = ref[n]
      BY <1>2, <1>6, <1>8, <2>1
    <3> QED BY <1>1, <1>3, <1>8, <2>1, <3>1, PointStays DEF SameRun
  <2>2. CASE n = t.node
    <3>2. UNCHANGED <<CommitTimer(n), RefTimer(n), CpTimer(n)>>
      BY <1>1, SameTargets
    <3>3. /\ CommitTimer(n) \in timers => CommitTimer(n) \in timers'
          /\ CpTimer(n) \in timers => CpTimer(n) \in timers'
          /\ RefTimer(n) \in timers /\ RefTimer(n) # t => RefTimer(n) \in timers'
      BY <1>1 DEF CommitTimer, CpTimer
    <3>4. CommitOK(n) /\ RefOK(n) /\ CpOK(n)
      BY <1>8 DEF LateStep, Late, PointsOK
    <3>5. CommitOK(n)'
      BY <1>1, <1>2, <3>2, <3>3, <3>4 DEF CommitOK
    <3>6. CpOK(n)'
      BY <1>1, <1>2, <1>7, <2>2, <3>2, <3>3, <3>4 DEF CpOK
    <3>7. ASSUME startTime[n] > 0, startTime[n] = Start, RefTimer(n) = t
          PROVE  ref'[n][2] # None
      <4>1. sessions # <<>>
        BY <1>2, <1>8, <3>7 DEF LateStep, Late, StartPending
      <4>2. now \in Nat /\ Start \in Nat /\ F \in Nat /\ N \in Nat /\ F <= N - 2
        BY <4>1, SessionFacts, NatN DEF LateStep, CalmStep, Tolerated
      <4>3. now >= Start + N
        BY <1>1, <3>7, <4>2 DEF RefTimer, T2
      <4>4. CommitTimer(n) \notin timers
        <5>1. CommitTimer(n).at = Start + F + 1 /\ CommitTimer(n).what \in Later
          BY DEF CommitTimer, Later
        <5>2. CommitTimer(n) \in timers => Start + F + 1 >= now
          BY <5>1 DEF LateStep, Late, Ahead
        <5> QED BY <4>2, <4>3, <5>2
      <4>5. extrSet[n] = {commitValue[n]}
        BY <3>4, <3>7, <4>1, <4>4 DEF CommitOK
      <4>6. ref' = [ref EXCEPT ![n][2] = commitValue[n]]
        <5>1. t.point = 2
          BY <3>7 DEF RefTimer
        <5> QED BY <2>2, <4>5, <5>1 DEF ReferencePoint
      <4>7. ref'[n][2] = commitValue[n] /\ commitValue[n] \in Value
        BY <1>2, <1>8, <4>5, <4>6
      <4> QED BY <4>7, ValueNotNone
    <3>8. RefOK(n)'
      BY <1>1, <1>2, <1>7, <2>2, <3>2, <3>3, <3>4, <3>7 DEF RefOK
    <3> QED BY <3>5, <3>6, <3>8
  <2> QED BY <2>1, <2>2
<1>9. PointsOK'
  BY <1>2, <1>8 DEF PointsOK
<1> QED BY <1>5, <1>9 DEF Late

\* The commit points: point 3 comes after the second reference point.
LEMMA CommitPointLate ==
  ASSUME LateStep, NEW t \in Ripe, CommitPoint(t)
  PROVE  Late'
<1>1. /\ t \in timers /\ t.at <= now /\ t.what = "cp" /\ timers' = timers \ {t}
      /\ UNCHANGED <<net, tasks, extrSet, commitValue, ref>> /\ SameRun
  BY DEF CommitPoint, Ripe, wireVars, dsVars, SameRun, proposerVars
<1>2. /\ t.node \in Node /\ Honest \subseteq Node
      /\ UNCHANGED <<Honest, Start, startTime, sessions>> /\ t.point \in {2, 3}
      /\ D \in [Node -> [1..3 -> Value \cup {None}]] /\ blckSet \in [Node -> SUBSET Value]
  BY <1>1, SameTargets DEF LateStep, CalmStep, TypeInv, SetsTyped, PointsTyped, TimersTyped,
     TimerOK, Honest
<1>3. TimersBut(t)
  BY <1>1 DEF TimersBut
<1>4. HasGrows /\ TrafficStays
  BY <1>1, SameTargets DEF HasGrows, Has, TrafficStays
<1>5. AllServed' /\ StartPending' /\ Ahead'
  BY <1>1, <1>3, <1>4, ServedStays, PendingStays
<1>6. \A n \in Node \ {t.node} : D'[n] = D[n]
  BY <1>2 DEF CommitPoint
<1>7. ASSUME t.point = 3, ref[t.node][2] # None PROVE D'[t.node][3] # None
  <2>1. PICK v : /\ D' = [D EXCEPT ![t.node][t.point] = v]
                 /\ v = IF Cardinality(blckSet[t.node]) = 1 THEN SingleOrZero(blckSet[t.node])
                        ELSE ref[t.node][t.point - 1]
    BY <1>7 DEF CommitPoint
  <2>2. SingleOrZero(blckSet[t.node]) \in Value
    <3>1. PICK S \in SUBSET Value : S = blckSet[t.node]
      BY <1>2
    <3> QED BY <3>1, SingleTyped
  <2>3. t.point - 1 = 2
    BY <1>7
  <2>4. v # None
    BY <1>7, <2>1, <2>2, <2>3, ValueNotNone
  <2> QED BY <1>2, <1>7, <2>1, <2>4
<1>8. t.point = 2 => D'[t.node][3] = D[t.node][3]
  BY <1>2 DEF CommitPoint
<1>9. ASSUME NEW n \in Honest PROVE CommitOK(n)' /\ RefOK(n)' /\ CpOK(n)'
  <2>1. CASE n # t.node
    <3>1. D'[n] = D[n]
      BY <1>2, <1>6, <1>9, <2>1
    <3> QED BY <1>1, <1>3, <1>9, <2>1, <3>1, PointStays DEF SameRun
  <2>2. CASE n = t.node
    <3>2. UNCHANGED <<CommitTimer(n), RefTimer(n), CpTimer(n)>>
      BY <1>1, SameTargets
    <3>3. /\ CommitTimer(n) \in timers => CommitTimer(n) \in timers'
          /\ RefTimer(n) \in timers => RefTimer(n) \in timers'
          /\ CpTimer(n) \in timers /\ CpTimer(n) # t => CpTimer(n) \in timers'
      BY <1>1 DEF CommitTimer, RefTimer
    <3>4. CommitOK(n) /\ RefOK(n) /\ CpOK(n)
      BY <1>9 DEF LateStep, Late, PointsOK
    <3>5. CommitOK(n)'
      BY <1>1, <1>2, <3>2, <3>3, <3>4 DEF CommitOK
    <3>6. RefOK(n)'
      BY <1>1, <1>2, <3>2, <3>3, <3>4 DEF RefOK
    <3>7. ASSUME startTime[n] > 0, startTime[n] = Start, CpTimer(n) = t
          PROVE  ref[n][2] # None /\ t.point = 3
      <4>1. sessions # <<>>
        BY <1>2, <1>9, <3>7 DEF LateStep, Late, StartPending
      <4>2. now \in Nat /\ Start \in Nat /\ N \in Nat
        BY <4>1, SessionFacts, NatN DEF LateStep, CalmStep
      <4>3. now >= Start + T2 + 6 /\ T2 \in Int
        BY <1>1, <3>7, <4>2 DEF CpTimer, T2
      <4>4. RefTimer(n) \notin timers
        <5>1. RefTimer(n).at = Start + T2 + 1 /\ RefTimer(n).what \in Later
          BY DEF RefTimer, Later
        <5>2. RefTimer(n) \in timers => Start + T2 + 1 >= now
          BY <5>1 DEF LateStep, Late, Ahead
        <5> QED BY <4>2, <4>3, <5>2
      <4>5. t.point = 3
        BY <3>7 DEF CpTimer
      <4> QED BY <3>4, <3>7, <4>4, <4>5 DEF RefOK
    <3>8. ASSUME startTime[n] > 0, ~(startTime[n] = Start /\ CpTimer(n) \in timers')
          PROVE  ref[n][2] # None /\ D'[n][3] # None
      <4>1. CASE startTime[n] = Start /\ CpTimer(n) = t
        BY <1>7, <2>2, <3>7, <3>8, <4>1
      <4>2. CASE ref[n][2] # None /\ D[n][3] # None
        BY <1>2, <1>7, <1>8, <2>2, <4>2
      <4> QED BY <3>3, <3>4, <3>8, <4>1, <4>2 DEF CpOK
    <3>9. CpOK(n)'
      BY <1>1, <1>2, <3>2, <3>8 DEF CpOK
    <3> QED BY <3>5, <3>6, <3>9
  <2> QED BY <2>1, <2>2
<1>10. PointsOK'
  BY <1>2, <1>9 DEF PointsOK
<1> QED BY <1>5, <1>10 DEF Late

-----------------------------------------------------------------------------
(* Sessions and proposals.                                                 *)

\* The timers of an Init are those awaited, and not overdue.
LEMMA InitTimersLate ==
  ASSUME NEW n, NEW start \in Nat, now \in Nat, now <= start
  PROVE  /\ [node |-> n, at |-> start + F + 1, what |-> "dsCommit"] \in InitTimers(n, start)
         /\ [node |-> n, at |-> start + T2 + 1, what |-> "ref", point |-> 2]
              \in InitTimers(n, start)
         /\ [node |-> n, at |-> start + T2 + 6, what |-> "cp", point |-> 3]
              \in InitTimers(n, start)
         /\ \A t \in InitTimers(n, start) : t.what \in Later => t.at \in Int /\ t.at >= now
<1>1. F \in Nat /\ T1 \in Nat /\ T2 \in Nat
  BY NatN, T1Assumption DEF T2
<1>2. \A t \in DsTimers(n, start) : t.what \in Later => t.at = start + F + 1
  BY DEF DsTimers, Later
<1>3. \A t \in BbTimers(n, start) : t.what \notin Later
  BY DEF BbTimers, Later
<1>4. ASSUME NEW t \in InitTimers(n, start), t.what \in Later
      PROVE  t.at \in {start + F + 1, start + T1 + 1, start + T2 + 1, start + T1 + 6, start + T2 + 6}
  BY <1>2, <1>3, <1>4 DEF InitTimers
<1>5. \A x \in {start + F + 1, start + T1 + 1, start + T2 + 1, start + T1 + 6, start + T2 + 6} :
        x \in Int /\ x >= now
  BY <1>1
<1>6. \A t \in InitTimers(n, start) : t.what \in Later => t.at \in Int /\ t.at >= now
  BY <1>4, <1>5
<1>7. [node |-> n, at |-> start + F + 1, what |-> "dsCommit"] \in DsTimers(n, start)
  BY DEF DsTimers
<1> QED BY <1>6, <1>7 DEF InitTimers

LEMMA HandleInitLate ==
  ASSUME LateStep, NEW m \in Inbox, HandleInit(m)
  PROVE  Late'
<1>1. /\ m \in net /\ m.kind = "Init" /\ m.to \in Node
      /\ startTime' = [startTime EXCEPT ![m.to] = m.start]
      /\ timers' = timers \cup InitTimers(m.to, m.start) /\ ResetAll(m.to)
      /\ UNCHANGED <<now, tasks, setup, faults, pc, sessions>>
  BY DEF HandleInit, Inbox, proposerVars
<1>2. sessions # <<>> /\ pc = "start" /\ m.start = Start
  BY <1>1 DEF LateStep, CalmStep, Good, NetOK, MsgIn
<1>3. now <= Start /\ now \in Nat /\ Start \in Nat
  BY <1>2, BeforeStart DEF LateStep, CalmStep
<1>4. UNCHANGED <<Honest, Start, Running>> /\ ~Running /\ Honest \subseteq Node
  BY <1>1, <1>2 DEF malicious, Honest, Start, Last, Running
<1>5. AllServed'
  BY <1>4 DEF AllServed
<1>6. StartPending'
  BY <1>1, <1>2, <1>4 DEF LateStep, Late, StartPending, StartTimer
<1>7. /\ [node |-> m.to, at |-> Start + F + 1, what |-> "dsCommit"] \in timers'
      /\ [node |-> m.to, at |-> Start + T2 + 1, what |-> "ref", point |-> 2] \in timers'
      /\ [node |-> m.to, at |-> Start + T2 + 6, what |-> "cp", point |-> 3] \in timers'
      /\ \A t \in timers' : t \in timers \/ (t.what \in Later => t.at \in Int /\ t.at >= now)
  BY <1>1, <1>2, <1>3, InitTimersLate
<1>8. Ahead'
  BY <1>1, <1>7 DEF LateStep, Late, Ahead
<1>9. startTime \in [Node -> Nat]
  BY DEF LateStep, CalmStep, TypeInv, RunTyped
<1>10. ASSUME NEW n \in Honest PROVE CommitOK(n)' /\ RefOK(n)' /\ CpOK(n)'
  <2>1. CASE n = m.to
    <3>1. startTime'[n] = Start' /\ CommitTimer(n)' \in timers' /\ RefTimer(n)' \in timers'
          /\ CpTimer(n)' \in timers'
      BY <1>1, <1>2, <1>4, <1>7, <1>9, <2>1 DEF CommitTimer, RefTimer, CpTimer
    <3> QED BY <3>1 DEF CommitOK, RefOK, CpOK
  <2>2. CASE n # m.to
    <3>1. /\ startTime'[n] = startTime[n] /\ extrSet'[n] = extrSet[n]
          /\ commitValue' = commitValue /\ ref'[n] = ref[n] /\ D'[n] = D[n]
      BY <1>1, <1>4, <1>9, <1>10, <2>2, ResetHas
         DEF SameAt, ResetAll, DsHandleInit, LateStep, CalmStep
    <3>2. CommitOK(n) /\ RefOK(n) /\ CpOK(n)
      BY <1>10 DEF LateStep, Late, PointsOK
    <3>3. UNCHANGED <<CommitTimer(n), RefTimer(n), CpTimer(n)>> /\ timers \subseteq timers'
      BY <1>1, <1>4 DEF CommitTimer, RefTimer, CpTimer
    <3> QED BY <1>1, <1>4, <3>1, <3>2, <3>3 DEF CommitOK, RefOK, CpOK
  <2> QED BY <2>1, <2>2
<1>11. PointsOK'
  BY <1>4, <1>10 DEF PointsOK
<1> QED BY <1>5, <1>6, <1>8, <1>11 DEF Late

\* A new session begins when the points of the one before are behind.
LEMMA ViewInitLate ==
  ASSUME LateStep, ViewInit
  PROVE  Late'
<1>1. /\ UNCHANGED <<now, tasks, setup>> /\ pc = "poll" /\ pc' = "start"
      /\ stringQueue # <<>> /\ ResetAll(View)
      /\ timers' = timers \cup InitTimers(View, now + 1)
                     \cup {[node |-> View, at |-> now + 1, what |-> "start"]}
      /\ startTime' = [startTime EXCEPT ![View] = now + 1]
  BY DEF ViewInit, RunInit
<1>2. PICK e : /\ e = [start |-> now + 1, val |-> Head(stringQueue)]
               /\ sessions' = Append(sessions, e)
  BY DEF ViewInit, RunInit
<1>4. now \in Nat /\ e \in Session /\ View \in Node /\ sessions \in Seq(Session)
      /\ startTime \in [Node -> Nat]
  BY <1>1, <1>2, HeadTailProperties, Places DEF LateStep, CalmStep, TypeInv, RunTyped, Session
<1>5. /\ sessions' # <<>> /\ Last' = e /\ Len(sessions') = Len(sessions) + 1
      /\ \A i \in 1..Len(sessions) : sessions'[i] = sessions[i]
      /\ Len(sessions) \in Nat
  BY <1>2, <1>4, LastOfAppend, LenProperties
<1>6. Start' = now + 1 /\ sessions'[Len(sessions) + 1].start = now + 1
  BY <1>2, <1>5 DEF Start, Last
<1>7. Honest' = Honest /\ Honest \subseteq Node
  BY <1>1 DEF malicious, Honest
<1>8. ASSUME sessions # <<>> PROVE now >= Start + N + 6 /\ Start \in Nat
  <2>1. Start \in Nat /\ Len(sessions) >= 1 /\ Start = sessions[Len(sessions)].start
    BY <1>8, SessionFacts DEF LateStep, CalmStep
  <2> DEFINE i == Len(sessions) + 1
  <2>2. i \in 2..Len(sessions') /\ i - 1 = Len(sessions) /\ Len(sessions) \in 1..Len(sessions)
    BY <1>5, <2>1
  <2>3. sessions'[i].start >= sessions'[i - 1].start + N + 7
    BY <2>2 DEF LateStep, CalmStep, Undisturbed, SessionsDoNotOverlap
  <2>4. now + 1 >= Start + N + 7
    BY <1>5, <1>6, <2>1, <2>2, <2>3
  <2> QED BY <1>4, <2>1, <2>4, NatN
<1>9. AllServed' /\ StartPending'
  BY <1>1, <1>5, <1>6 DEF AllServed, Running, StartPending, StartTimer
<1>10. /\ [node |-> View, at |-> (now + 1) + F + 1, what |-> "dsCommit"] \in timers'
       /\ [node |-> View, at |-> (now + 1) + T2 + 1, what |-> "ref", point |-> 2] \in timers'
       /\ [node |-> View, at |-> (now + 1) + T2 + 6, what |-> "cp", point |-> 3] \in timers'
       /\ \A t \in timers' : t \in timers \/ (t.what \in Later => t.at \in Int /\ t.at >= now)
  <2>1. now + 1 \in Nat /\ now <= now + 1
    BY <1>4
  <2>2. \A t \in {[node |-> View, at |-> now + 1, what |-> "start"]} : t.what \notin Later
    BY DEF Later
  <2> QED BY <1>1, <1>4, <2>1, <2>2, InitTimersLate
<1>11. Ahead'
  BY <1>1, <1>10 DEF LateStep, Late, Ahead
<1>12. ASSUME NEW n \in Honest PROVE CommitOK(n)' /\ RefOK(n)' /\ CpOK(n)'
  <2>1. CASE n = View
    <3>1. startTime'[n] = Start' /\ CommitTimer(n)' \in timers' /\ RefTimer(n)' \in timers'
          /\ CpTimer(n)' \in timers'
      BY <1>1, <1>4, <1>6, <1>10, <2>1 DEF CommitTimer, RefTimer, CpTimer
    <3> QED BY <3>1 DEF CommitOK, RefOK, CpOK
  <2>2. CASE n # View
    <3>1. /\ startTime'[n] = startTime[n] /\ ref'[n] = ref[n] /\ D'[n] = D[n]
      BY <1>1, <1>4, <1>7, <1>12, <2>2, ResetHas DEF SameAt, LateStep, CalmStep
    <3>2. CASE sessions = <<>>
      <4>1. startTime'[n] = 0
        BY <1>7, <1>12, <3>1, <3>2 DEF LateStep, Late, StartPending
      <4> QED BY <1>4, <1>6, <4>1 DEF CommitOK, RefOK, CpOK
    <3>3. CASE sessions # <<>>
      <4>1. startTime[n] = Start
        BY <1>1, <1>12, <3>3 DEF LateStep, CalmStep, Good, StartsOK, Alive
      <4>2. now >= Start + N + 6 /\ Start \in Nat /\ N \in Nat /\ T2 = N - 1
        BY <1>8, <3>3, NatN DEF T2
      <4>3. startTime'[n] # Start'
        BY <1>4, <1>6, <3>1, <4>1, <4>2
      <4>4. RefTimer(n) \notin timers /\ CpTimer(n) \notin timers
        <5>1. /\ RefTimer(n).at = Start + T2 + 1 /\ RefTimer(n).what \in Later
              /\ CpTimer(n).at = Start + T2 + 6 /\ CpTimer(n).what \in Later
          BY DEF RefTimer, CpTimer, Later
        <5>2. /\ RefTimer(n) \in timers => Start + T2 + 1 >= now
              /\ CpTimer(n) \in timers => Start + T2 + 6 >= now
          BY <5>1 DEF LateStep, Late, Ahead
        <5> QED BY <1>4, <4>2, <5>2
      <4>5. startTime[n] > 0 => ref[n][2] # None /\ D[n][3] # None
        BY <1>12, <4>4 DEF LateStep, Late, PointsOK, RefOK, CpOK
      <4> QED BY <3>1, <4>3, <4>5 DEF CommitOK, RefOK, CpOK
    <3> QED BY <3>2, <3>3
  <2> QED BY <2>1, <2>2
<1>13. PointsOK'
  BY <1>7, <1>12 DEF PointsOK
<1> QED BY <1>9, <1>11, <1>13 DEF Late

\* A first forward reaches every honest node that is not the sender, or
\* costs a fault.
LEMMA ForwardsHeard ==
  ASSUME LateStep, NEW n, NEW before, NEW also, IsFiniteSet(also),
         Wire(before, also \cup ToAll(n, ForwardMsg(n, Proposal, 2)))
  PROVE  /\ before \subseteq net'
         /\ \A q \in Backups \ {n} :
              \/ \E o \in net' : o.kind = "Forward" /\ o.to = q /\ o.sigs = 2
              \/ faults' >= faults + 1
<1> DEFINE msgs == also \cup ToAll(n, ForwardMsg(n, Proposal, 2))
<1>1. IsFiniteSet(msgs)
  BY ToAllFinite, FS_Union
<1>2. Wire(before, msgs)
  OBVIOUS
<1>3. \A q \in Node \ {n} : \E o \in msgs : o.kind = "Forward" /\ o.to = q /\ o.sigs = 2
  <2>1. ASSUME NEW q \in Node \ {n}
        PROVE  \E o \in ToAll(n, ForwardMsg(n, Proposal, 2)) :
                 o.kind = "Forward" /\ o.to = q /\ o.sigs = 2
    <3>1. PICK m : m = ForwardMsg(n, Proposal, 2)
      OBVIOUS
    <3>2. [m EXCEPT !.to = q] \in ToAll(n, m)
      BY <2>1 DEF ToAll
    <3>3. /\ [m EXCEPT !.to = q].kind = "Forward" /\ [m EXCEPT !.to = q].to = q
          /\ [m EXCEPT !.to = q].sigs = 2
      BY <3>1 DEF ForwardMsg
    <3> QED BY <3>1, <3>2, <3>3
  <2> QED BY <2>1
<1> HIDE DEF msgs
<1>4. PICK lost : /\ lost \subseteq msgs /\ IsFiniteSet(lost)
                  /\ net' = before \cup ({m \in msgs : m.to \notin Deaf} \ lost)
                  /\ faults' = faults + Cardinality(lost)
  BY <1>1, <1>2, SyncWire DEF LateStep, CalmStep, Undisturbed, Synchronous
<1>5. ASSUME NEW q \in Backups \ {n}
      PROVE  \/ \E o \in net' : o.kind = "Forward" /\ o.to = q /\ o.sigs = 2
             \/ faults' >= faults + 1
  <2>1. q \in Node \ {n} /\ q \notin Deaf
    BY <1>5 DEF Backups, Honest, Deaf
  <2>2. PICK o \in msgs : o.kind = "Forward" /\ o.to = q /\ o.sigs = 2
    BY <1>3, <2>1
  <2>3. CASE o \notin lost
    BY <1>4, <2>1, <2>2, <2>3
  <2>4. CASE o \in lost
    <3>1. Cardinality(lost) \in Nat /\ Cardinality(lost) # 0
      BY <1>4, <2>4, FS_CardinalityType, FS_EmptySet
    <3> QED BY <1>4, <3>1 DEF LateStep, CalmStep, Counted
  <2> QED BY <2>3, <2>4
<1> QED BY <1>4, <1>5

\* A proposal is handled: nodes that hear nothing of it cost one more fault.
LEMMA HandleProposeLate ==
  ASSUME LateStep, NEW m \in Inbox, HandlePropose(m)
  PROVE  Late'
<1>0. /\ m.kind = "Propose" /\ m \in net /\ SameRun
      /\ extrSet' = [extrSet EXCEPT ![m.to] = @ \cup {m.val}]
      /\ ForwardOrSpin(m.to, m.val, 1, net \ {m}, tasks, Forward1Msgs(m.to, m.val))
      /\ timers' = timers \cup {VoteTimer(m.to)} /\ UNCHANGED <<commitValue, ref, D>>
  BY DEF HandlePropose, DsHandlePropose, Inbox, proposerVars, tbbVars, SameRun
<1>1. MsgIn(m) /\ m.to \in Node
  BY <1>0 DEF LateStep, CalmStep, Good, NetOK, TypeInv, AllOK, MsgOK
<1>2. Running /\ m.val = Proposal /\ m.due \in Int /\ m.due <= Start /\ m.due >= now
      /\ m.to \in Alive
  BY <1>0, <1>1, Places DEF MsgIn
<1>3. now \in Nat /\ Start \in Nat /\ sessions # <<>>
  BY <1>2, SessionFacts DEF LateStep, CalmStep, Running
<1>4. 1 \in Nat /\ 1 >= 1 /\ now <= Start + 1 - 1
  BY <1>2, <1>3
<1>5. /\ Wire(net \ {m}, Forward1Msgs(m.to, m.val) \cup ToAll(m.to, ForwardMsg(m.to, m.val, 1 + 1)))
      /\ tasks' = tasks
  BY <1>0, <1>2, <1>4, ForwardNow DEF LateStep
<1>6. Wire(net \ {m}, Forward1Msgs(m.to, m.val) \cup ToAll(m.to, ForwardMsg(m.to, Proposal, 2)))
  <2>1. 1 + 1 = 2
    OBVIOUS
  <2> QED BY <1>2, <1>5, <2>1, Zenon
<1>7. /\ net \ {m} \subseteq net'
      /\ \A q \in Backups \ {m.to} :
           \/ \E o \in net' : o.kind = "Forward" /\ o.to = q /\ o.sigs = 2
           \/ faults' >= faults + 1
  BY <1>6, ToAllFinite, ForwardsHeard DEF Forward1Msgs
<1>8. extrSet' = [extrSet EXCEPT ![m.to] = @ \cup {Proposal}] /\ startTime[m.to] = Start
  BY <1>0, <1>2, KnowsStart DEF LateStep, CalmStep
<1>9. HasGrows /\ m.to \in Has'
  BY <1>0, <1>1, <1>2, <1>8, ExtractHas DEF LateStep
<1>10. AllServed'
  <2>0. UNCHANGED <<malicious, Honest, Backups, Targets, Start, Proposal, Running>>
    BY <1>0, SameTargets
  <2>2. \A q : Proposed(q) => Proposed(q)' \/ q = m.to
    BY <1>7 DEF Proposed
  <2>3. \A q : /\ Handling(q) => Handling(q)'
               /\ ForwardComing(q) => ForwardComing(q)'
    BY <1>0, <1>5, <1>7 DEF Handling, ForwardComing
  <2>4. /\ View \in Honest => View \in Has
        /\ faults = 0 => \A q \in Targets : q \in Has \/ Proposed(q)
        /\ \A q \in Backups : Served(q) \/ faults >= Cardinality(Past)
    BY <1>2 DEF LateStep, Late, AllServed
  <2>5. faults \in Nat /\ faults' \in Nat /\ faults' >= faults
    BY DEF LateStep, CalmStep, Counted
  <2>6. ASSUME faults' = 0, NEW q \in Targets PROVE q \in Has' \/ Proposed(q)'
    <3>1. faults = 0
      BY <2>5, <2>6
    <3> QED BY <1>9, <2>2, <2>4, <2>6, <3>1 DEF HasGrows
  <2>7. Cardinality(Past)' <= Cardinality(Past) + 1 /\ Cardinality(Past)' \in Nat
        /\ Cardinality(Past) \in Nat
    <3>1. Past' \in SUBSET (Past \cup {m.to})
      BY <2>0, <2>2 DEF Past
    <3>2. IsFiniteSet(Past \cup {m.to})
          /\ Cardinality(Past \cup {m.to}) <= Cardinality(Past) + 1
      BY TargetsFinite, FS_AddElement
    <3>3. IsFiniteSet(Past') /\ Cardinality(Past') <= Cardinality(Past \cup {m.to})
      BY <3>1, <3>2, FS_Subset
    <3>4. Cardinality(Past') \in Nat /\ Cardinality(Past \cup {m.to}) \in Nat
      BY <3>2, <3>3, FS_CardinalityType
    <3> QED BY <3>2, <3>3, <3>4, TargetsFinite
  <2>8. ASSUME NEW q \in Backups PROVE Served(q)' \/ faults' >= Cardinality(Past)'
    <3>1. CASE q = m.to
      BY <1>9, <3>1 DEF Served
    <3>2. CASE q # m.to /\ Served(q)
      BY <1>9, <2>2, <2>3, <3>2 DEF Served, HasGrows
    <3>3. CASE q # m.to /\ ~Served(q)
      <4>1. faults >= Cardinality(Past)
        BY <2>4, <3>3
      <4>2. ForwardComing(q)' \/ faults' >= faults + 1
        BY <1>7, <3>3 DEF ForwardComing
      <4> QED BY <2>5, <2>7, <4>1, <4>2 DEF Served
    <3> QED BY <3>1, <3>2, <3>3
  <2> QED BY <1>9, <2>0, <2>4, <2>6, <2>8 DEF AllServed, HasGrows
<1>11. PICK none : none = [what |-> "none"]
  OBVIOUS
<1>12. none.what \notin Later \cup {"start"} /\ TimersBut(none)
  BY <1>0, <1>11 DEF Later, TimersBut, VoteTimer
<1>13. StartPending' /\ Ahead'
  BY <1>0, <1>12, PendingStays
<1>14. PointsOK'
  BY <1>0, <1>1, <1>3, <1>8, <1>12, ExtractPoints DEF SameRun
<1> QED BY <1>10, <1>13, <1>14 DEF Late

\* The proposal: each target that it is not on its way to is a fault.
LEMMA ViewProposeLate ==
  ASSUME LateStep, ViewPropose
  PROVE  Late'
<1>0. /\ UNCHANGED <<now, tasks, startTime, setup, sessions, commitValue, ref, D>>
      /\ pc' = "wait" /\ extrSet' = [extrSet EXCEPT ![View] = @ \cup {Last.val}]
  BY DEF ViewPropose, RunPropose, DsViewPropose, tbbVars
<1>1. PICK m : m = [kind |-> "Propose", to |-> Client, due |-> now, val |-> Proposal]
  OBVIOUS
<1> DEFINE msgs == {p \in ToAll(View, m) : View \in malicious => p.to \in {1, 2}}
<1>2. PICK t \in Ripe : /\ t.what = "start" /\ timers' = (timers \ {t}) \cup {VoteTimer(View)}
                        /\ Wire(net, msgs)
  <2>1. PICK t \in Ripe :
          /\ t.what = "start" /\ timers' = (timers \ {t}) \cup {VoteTimer(View)}
          /\ Wire(net, {p \in ToAll(View, [kind |-> "Propose", to |-> Client, due |-> now,
                                val |-> IF View \in malicious THEN Bad ELSE Last.val]) :
                          View \in malicious => p.to \in {1, 2}})
    BY DEF ViewPropose, RunPropose
  <2> QED BY <1>1, <2>1 DEF Proposal
<1>3. t \in timers /\ sessions # <<>> /\ pc = "start"
  BY <1>2 DEF Ripe, LateStep, CalmStep, Good, TimersOK, TimerIn
<1>4. View \in Node /\ startTime[View] = Start /\ extrSet \in [Node -> SUBSET Value]
  BY <1>3, Places DEF LateStep, CalmStep, Good, StartsOK, TypeInv, SetsTyped
<1>5. /\ UNCHANGED <<malicious, Honest, Backups, Targets, Start, Proposal, StartTimer>>
      /\ View \in Honest => Last.val = Proposal
  BY <1>0, SameNodes DEF Proposal, Honest
<1>6. IsFiniteSet(msgs)
  BY ToAllFinite, FS_Subset
<1>7. PICK lost : /\ lost \subseteq msgs /\ IsFiniteSet(lost)
                  /\ net' = net \cup ({p \in msgs : p.to \notin Deaf} \ lost)
                  /\ faults' = faults + Cardinality(lost)
  BY <1>2, <1>6, SyncWire DEF LateStep, CalmStep, Undisturbed, Synchronous
<1>8. AllServed'
  <2>1. \A p \in Targets : [m EXCEPT !.to = p] \in msgs /\ p \notin Deaf
    BY <1>1 DEF ToAll, Targets, Backups, Honest, Deaf
  <2>2. \A p \in Targets : [m EXCEPT !.to = p].to = p /\ [m EXCEPT !.to = p].kind = "Propose"
    BY <1>1
  <2>3. ASSUME NEW p \in Targets, [m EXCEPT !.to = p] \notin lost PROVE Proposed(p)'
    <3>1. [m EXCEPT !.to = p] \in net'
      BY <1>7, <2>1, <2>2, <2>3
    <3> QED BY <2>2, <3>1 DEF Proposed
  <2>4. Cardinality(lost) \in Nat /\ faults \in Nat
    BY <1>7, FS_CardinalityType DEF LateStep, CalmStep, Counted
  <2>5. ASSUME faults' = 0, NEW p \in Targets PROVE Proposed(p)'
    <3>1. Cardinality(lost) = 0
      BY <1>7, <2>4, <2>5
    <3>2. lost = {}
      BY <1>7, <3>1, FS_EmptySet
    <3> QED BY <2>3, <2>5, <3>2
  <2>6. faults' >= Cardinality(Past)'
    <3>1. \A p \in Past' : [m EXCEPT !.to = p] \in lost
      BY <1>5, <2>3 DEF Past
    <3>2. "to" \in DOMAIN m
      BY <1>1
    <3>3. Cardinality(Past') <= Cardinality(lost)
      BY <1>7, <3>1, <3>2, LostCount
    <3>4. Cardinality(Past') \in Nat
      <4>1. Past' \in SUBSET Targets
        BY <1>5 DEF Past
      <4> QED BY <4>1, TargetsFinite, FS_Subset, FS_CardinalityType
    <3> QED BY <1>7, <2>4, <3>3, <3>4
  <2>7. View \in Honest => View \in Has'
    <3>1. Last.val \in extrSet'[View]
      BY <1>0, <1>4
    <3> QED BY <1>4, <1>5, <3>1 DEF Has
  <2> QED BY <1>5, <2>5, <2>6, <2>7 DEF AllServed
<1>9. StartPending'
  BY <1>0, <1>3 DEF StartPending
<1>10. TimersBut(t)
  BY <1>2 DEF TimersBut, VoteTimer, Later
<1>11. Ahead'
  BY <1>0, <1>10 DEF LateStep, Late, Ahead, TimersBut
<1>12. PointsOK'
  BY <1>0, <1>2, <1>3, <1>4, <1>5, <1>10, ExtractPoints DEF Later
<1> QED BY <1>8, <1>9, <1>11, <1>12 DEF Late

-----------------------------------------------------------------------------
(* The invariant, and what it says of the last commit point.               *)

LEMMA ToleratedBefore ==
  ASSUME TbbInv, [Next]_vars, Tolerated'
  PROVE  CalmStep /\ Counted' /\ faults' >= faults /\ Tolerated
<1>1. CountsGrow /\ Undisturbed /\ CalmStep
  BY CalmBefore, StepCounts, TypeNext DEF TbbInv, Tolerated, CalmStep
<1>2. UNCHANGED <<malicious, Honest, Targets>>
  BY <1>1 DEF CountsGrow, malicious, Honest, Backups, Targets
<1>3. faults \in Nat /\ faults' \in Nat /\ faults' >= faults /\ Cardinality(Targets) \in Nat
  BY <1>1, TargetsFinite DEF CountsGrow, Counted, CalmStep
<1>4. pc # "stopped"
  <2> SUFFICES ASSUME pc = "stopped" PROVE FALSE
    OBVIOUS
  <2>1. ~ViewPropose
    BY <1>1 DEF ViewPropose, RunPropose, Ripe, CalmStep, Good, TimersOK, TimerIn
  <2>2. ~ViewInit
    BY DEF ViewInit, RunInit
  <2>3. ASSUME ProposerNext PROVE pc' = pc
    BY <2>3 DEF ProposerNext, HandleCmdPropose, HandleInject, RunPoll, roundVars, proposerVars,
       HandleConsensusDone, RunDone, RunStop
  <2>4. ASSUME DsNext \/ BbNext \/ ClockTick \/ UNCHANGED vars PROVE pc' = pc
    BY <2>4 DEF DsNext, BbNext, ClockTick, Tick, vars, roundVars, proposerVars
  <2>5. ASSUME NEW m, HandleInit(m) \/ HandlePropose(m) \/ ClientInit(m) \/ HandleQuery(m)
                        \/ ClientReply(m)
        PROVE  pc' = pc
    BY <2>5 DEF HandleInit, HandlePropose, ClientInit, HandleQuery, ClientReply, proposerVars
  <2>6. ASSUME NEW t, ReferencePoint(t) \/ CommitPoint(t) \/ ClientQuery(t) PROVE pc' = pc
    BY <2>6 DEF ReferencePoint, CommitPoint, ClientQuery, proposerVars
  <2>7. ASSUME NEW n, CommitPoint1(n) PROVE pc' = pc
    BY <2>7 DEF CommitPoint1, roundVars, proposerVars
  <2>8. pc' = pc
    BY <2>1, <2>2, <2>3, <2>4, <2>5, <2>6, <2>7 DEF Next
  <2> QED BY <2>8 DEF Tolerated
<1>5. Targets = {} \/ faults < Cardinality(Targets)
  BY <1>2, <1>3 DEF Tolerated
<1>6. F >= 1 \/ (View \notin malicious /\ faults = 0)
  BY <1>2, <1>3 DEF Tolerated
<1> QED BY <1>1, <1>2, <1>3, <1>4, <1>5, <1>6 DEF Tolerated, CountsGrow

LEMMA InitLate == Init => LateInv
<1> SUFFICES ASSUME Init PROVE LateInv
  OBVIOUS
<1>1. TbbInv
  BY InitTbb
<1>2. sessions = <<>> /\ timers = {} /\ pc = "poll" /\ \A n \in Node : startTime[n] = 0
  BY DEF Init, RoundsInit
<1>3. AllServed /\ StartPending /\ Ahead /\ PointsOK
  BY <1>2 DEF AllServed, Running, StartPending, Ahead, PointsOK, CommitOK, RefOK, CpOK, Honest
<1> QED BY <1>1, <1>3 DEF LateInv, Late

LEMMA NextLate == LateInv /\ [Next]_vars => LateInv'
<1> SUFFICES ASSUME LateInv, [Next]_vars PROVE LateInv'
  OBVIOUS
<1>1. TbbInv /\ TbbInv'
  BY NextTbb DEF LateInv
<1>2. ASSUME Tolerated' PROVE Late'
  <2>1. LateStep
    BY <1>1, <1>2, ToleratedBefore DEF LateStep, LateInv
  <2>2. CASE UNCHANGED vars
    <3>1. SameRun /\ UNCHANGED <<net, tasks, timers, extrSet, commitValue, ref, D>>
      BY <2>2 DEF vars, roundVars, wireVars, proposerVars, dsVars, tbbVars, SameRun
    <3>2. PICK none : none = [what |-> "none"]
      OBVIOUS
    <3>3. none.what \notin Later \cup {"start"} /\ TimersBut(none) /\ TrafficStays
      BY <3>1, <3>2 DEF Later, TimersBut, TrafficStays
    <3> QED BY <2>1, <3>1, <3>3, QuietLate
  <2> QED BY <2>1, <2>2, ProposerLate, DsLate, BbLate, TickLate, ViewInitLate, ViewProposeLate,
             HandleInitLate, HandleProposeLate, ClientLate, ReferenceLate, CommitPointLate,
             CommitPoint1Late DEF Next
<1> QED BY <1>1, <1>2 DEF LateInv

\* As long as, besides, fewer messages are lost than honest nodes are
\* proposed to and the view is not stopped, every honest node has a value at
\* its third commit point once that is over: what 1-delta-BB has missed, the
\* Dolev-Strong reference supplies.
THEOREM LastPointSupplied == Spec => [](Tolerated => LastPointHasValue)
<1>1. LateInv => (Tolerated => LastPointHasValue)
  <2> SUFFICES ASSUME LateInv, Tolerated, NEW n \in Honest, sessions # <<>>, startTime[n] > 0,
                      [node |-> n, at |-> startTime[n] + T2 + 6, what |-> "cp", point |-> 3]
                        \notin timers
               PROVE  D[n][3] # None
    BY DEF LastPointHasValue
  <2>1. CpOK(n)
    BY DEF LateInv, Late, PointsOK
  <2>2. startTime[n] = Start => CpTimer(n) \notin timers
    BY DEF CpTimer
  <2> QED BY <2>1, <2>2 DEF CpOK
<1>2. Spec => []LateInv
  BY InitLate, NextLate, PTL DEF Spec
<1> QED BY <1>1, <1>2, PTL

-----------------------------------------------------------------------------
(* The run of the proposer.                                                *)

\* The timers that the proposer's run depends on.
RunTimers == {t \in timers : t.what \in {"start", "done", "bbDone"}}

\* What a step of the nodes and of the client leaves of it.
Alone ==
  /\ UNCHANGED proposerVars /\ RunTimers' = RunTimers
  /\ Injects(net') \subseteq Injects(net)

LEMMA ForwardAlone ==
  ASSUME NEW n, NEW val, NEW sigs, NEW netLeft, NEW tasksLeft, NEW also, netLeft \subseteq net,
         Plain(also), ForwardOrSpin(n, val, sigs, netLeft, tasksLeft, also)
  PROVE  Injects(net') \subseteq Injects(net)
<1>1. Plain(also \cup ToAll(n, ForwardMsg(n, val, sigs + 1)))
  <2>1. Plain(ToAll(n, ForwardMsg(n, val, sigs + 1)))
    BY ToAllPlain DEF ForwardMsg
  <2> QED BY <2>1 DEF Plain
<1>2. Injects(net') \subseteq Injects(netLeft)
  BY <1>1, PlainWire, Zenon DEF ForwardOrSpin
<1> QED BY <1>2 DEF Injects

LEMMA DsAlone ==
  ASSUME DsNext
  PROVE  Alone
<1>0. UNCHANGED proposerVars
  BY DEF DsNext
<1>1. ASSUME NEW k, DsAdd(k) PROVE Alone
  <2>1. Plain({})
    BY DEF Plain
  <2>2. Injects(net') \subseteq Injects(net) /\ timers' = timers
    BY <1>1, <2>1, ForwardAlone DEF DsAdd
  <2> QED BY <1>0, <2>2 DEF Alone, RunTimers
<1>2. ASSUME NEW k, DsLeaveLoop(k) PROVE Alone
  <2>1. Plain(ToAll(k.node, ForwardMsg(k.node, k.val, k.sigs + 1)))
    BY ToAllPlain DEF ForwardMsg
  <2> QED BY <1>0, <1>2, <2>1, PlainWire DEF DsLeaveLoop, Alone, RunTimers
<1>3. ASSUME NEW m, DsHandleForward(m) PROVE Alone
  BY <1>0, <1>3 DEF DsHandleForward, Alone, RunTimers, Injects
<1>4. ASSUME NEW t, DsCommit(t) PROVE Alone
  BY <1>0, <1>4 DEF DsCommit, Alone, RunTimers, Injects, wireVars
<1> QED BY <1>1, <1>2, <1>3, <1>4 DEF DsNext

LEMMA BbAlone ==
  ASSUME BbNext
  PROVE  Alone
<1>0. UNCHANGED proposerVars
  BY DEF BbNext
<1>1. ASSUME NEW m, BbHandleForward1(m) \/ BbHandleVote(m) \/ BbInputBA(m) \/ BbForwardBA(m)
      PROVE  Alone
  <2>1. timers' = timers /\ net' \subseteq net
    BY <1>1 DEF BbHandleForward1, BbHandleVote, BbInputBA, BbForwardBA
  <2> QED BY <1>0, <2>1 DEF Alone, RunTimers, Injects
<1>2. ASSUME NEW n, NEW m, {"kind", "to", "due"} \subseteq DOMAIN m, m.kind # "Inject",
             Wire(net, ToAll(n, m))
      PROVE  Injects(net') \subseteq Injects(net)
  BY <1>2, ToAllPlain, PlainWire
<1>3. ASSUME NEW k, BbTally(k) \/ BbCountVote(k) PROVE Alone
  BY <1>0, <1>3 DEF BbTally, BbCountVote, Alone, RunTimers, Injects, wireVars
<1>4. ASSUME NEW k, BbCountBA(k) PROVE Alone
  BY <1>0, <1>4 DEF BbCountBA, Alone, RunTimers, Injects, wireVars
<1>5. ASSUME NEW k, BbLeaveLoop(k) PROVE Alone
  <2> DEFINE m == Forward2(k.node, k.val, k.first, k.sigs + 1, Soon("Forward2"))
  <2>1. Wire(net, ToAll(k.node, m)) /\ timers' = timers
    BY <1>5 DEF BbLeaveLoop
  <2>2. {"kind", "to", "due"} \subseteq DOMAIN m /\ m.kind # "Inject"
    BY DEF Forward2
  <2> HIDE DEF m
  <2>3. Injects(net') \subseteq Injects(net)
    BY <1>2, <2>1, <2>2
  <2> QED BY <1>0, <2>1, <2>3 DEF Alone, RunTimers
<1>6. ASSUME NEW t, BbVoteTimer(t) PROVE Alone
  <2> DEFINE m(v) == [kind |-> "Vote", to |-> Client, from |-> t.node, val |-> v,
                      due |-> Soon("Vote")]
  <2>1. /\ t.what = "vote" /\ timers' = timers \ {t}
        /\ net' = net \/ \E v \in proposeSet[t.node] : Wire(net, ToAll(t.node, m(v)))
    BY <1>6 DEF BbVoteTimer, wireVars
  <2>2. \A v : {"kind", "to", "due"} \subseteq DOMAIN m(v) /\ m(v).kind # "Inject"
    OBVIOUS
  <2> HIDE DEF m
  <2>3. Injects(net') \subseteq Injects(net)
    BY <1>2, <2>1, <2>2
  <2> QED BY <1>0, <2>1, <2>3 DEF Alone, RunTimers
<1>7. ASSUME NEW t, BbStartBA(t) PROVE Alone
  <2> DEFINE v == SingleOrZero(blckSet[t.node])
             m == Forward2(t.node, v, t.node, 1, now)
  <2>1. Wire(net, ToAll(t.node, m)) /\ timers' = timers \ {t} /\ t.what = "baStart"
    BY <1>7 DEF BbStartBA
  <2>2. {"kind", "to", "due"} \subseteq DOMAIN m /\ m.kind # "Inject"
    BY DEF Forward2
  <2> HIDE DEF m
  <2>3. Injects(net') \subseteq Injects(net)
    BY <1>2, <2>1, <2>2
  <2> QED BY <1>0, <2>1, <2>3 DEF Alone, RunTimers
<1>8. ASSUME NEW t, BbSendBA(t) PROVE Alone
  <2> DEFINE m == Forward2(t.node, t.val, Aggregate(t.node), 1, now)
  <2>1. Wire(net, ToAll(t.node, m)) /\ timers' = timers \ {t} /\ t.what = "baSend"
    BY <1>8 DEF BbSendBA
  <2>2. {"kind", "to", "due"} \subseteq DOMAIN m /\ m.kind # "Inject"
    BY DEF Forward2
  <2> HIDE DEF m
  <2>3. Injects(net') \subseteq Injects(net)
    BY <1>2, <2>1, <2>2
  <2> QED BY <1>0, <2>1, <2>3 DEF Alone, RunTimers
<1>9. ASSUME NEW t, BbFinal(t) PROVE Alone
  BY <1>0, <1>9 DEF BbFinal, Alone, RunTimers, Injects, wireVars
<1> QED BY <1>1, <1>3, <1>4, <1>5, <1>6, <1>7, <1>8, <1>9 DEF BbNext

LEMMA PointsAlone ==
  \/ \E t \in Ripe : ReferencePoint(t) \/ CommitPoint(t)
  \/ \E n \in Node : CommitPoint1(n)
  => Alone
<1>1. ASSUME NEW t, ReferencePoint(t) \/ CommitPoint(t) PROVE Alone
  <2>1. /\ t.what \in {"ref", "cp"} /\ timers' = timers \ {t} /\ net' = net
        /\ UNCHANGED proposerVars
    BY <1>1 DEF ReferencePoint, CommitPoint, wireVars
  <2> QED BY <2>1 DEF Alone, RunTimers, Injects
<1>2. ASSUME NEW n, CommitPoint1(n) PROVE Alone
  BY <1>2 DEF CommitPoint1, Alone, RunTimers, Injects, roundVars, wireVars
<1> QED BY <1>1, <1>2

\* Only the view's own Init sets a timer for the end of a session.
LEMMA MessagesAlone ==
  ASSUME TypeInv, NEW m \in Inbox,
         HandleInit(m) \/ HandlePropose(m) \/ ClientInit(m) \/ HandleQuery(m) \/ ClientReply(m)
  PROVE  Alone
<1>0. m \in net /\ MsgOK(m)
  BY DEF Inbox, TypeInv, AllOK
<1>1. CASE HandleInit(m)
  <2>1. m.to # View
    BY <1>0, <1>1, Places DEF HandleInit, MsgOK
  <2>2. \A t \in InitTimers(m.to, m.start) : t.what \notin {"start", "done", "bbDone"}
    BY <2>1 DEF InitTimers, DsTimers, BbTimers
  <2> QED BY <1>1, <2>2 DEF HandleInit, Alone, RunTimers, Injects
<1>2. CASE HandlePropose(m)
  <2>1. Plain(Forward1Msgs(m.to, m.val))
    BY ToAllPlain DEF Forward1Msgs
  <2>2. /\ ForwardOrSpin(m.to, m.val, 1, net \ {m}, tasks, Forward1Msgs(m.to, m.val))
        /\ timers' = timers \cup {VoteTimer(m.to)} /\ UNCHANGED proposerVars
    BY <1>2 DEF HandlePropose, DsHandlePropose
  <2>3. Injects(net') \subseteq Injects(net)
    BY <2>1, <2>2, ForwardAlone
  <2> QED BY <2>2, <2>3 DEF Alone, RunTimers, VoteTimer
<1>3. CASE ClientInit(m)
  <2>1. \A a : QueryTimer(a).what \notin {"start", "done", "bbDone"}
    BY DEF QueryTimer
  <2> QED BY <1>3, <2>1 DEF ClientInit, Alone, RunTimers, Injects
<1>4. CASE HandleQuery(m)
  <2> DEFINE r == [kind |-> "Reply", to |-> Client, val |-> FirstOf(D[m.to]),
                   qcs |-> Cardinality(qcSet[m.to]), asked |-> m.asked, due |-> Soon("Reply")]
  <2>1. Wire(net \ {m}, {r}) /\ timers' = timers /\ UNCHANGED proposerVars
    BY <1>4 DEF HandleQuery
  <2>2. Plain({r})
    BY DEF Plain
  <2> HIDE DEF r
  <2>3. Injects(net') \subseteq Injects(net \ {m})
    BY <2>1, <2>2, PlainWire
  <2> QED BY <2>1, <2>3 DEF Alone, RunTimers, Injects
<1>5. CASE ClientReply(m)
  <2>1. \A a : QueryTimer(a).what \notin {"start", "done", "bbDone"}
    BY DEF QueryTimer
  <2> DEFINE q == QueryTimer(clientStart + T1 + 6)
  <2>2. (timers' = timers \/ timers' = timers \cup {q}) /\ net' = net \ {m} /\ UNCHANGED proposerVars
    BY <1>5 DEF ClientReply
  <2>3. q.what \notin {"start", "done", "bbDone"}
    BY <2>1
  <2> HIDE DEF q
  <2> QED BY <2>2, <2>3 DEF Alone, RunTimers, Injects
<1> QED BY <1>1, <1>2, <1>3, <1>4, <1>5

LEMMA QueryAlone ==
  ASSUME NEW t, ClientQuery(t)
  PROVE  Alone
<1> DEFINE q == [kind |-> "Query", to |-> View, asked |-> Len(sessions), due |-> Soon("Query")]
<1>1. Wire(net, {q}) /\ timers' = timers \ {t} /\ t.what = "query" /\ UNCHANGED proposerVars
  BY DEF ClientQuery
<1>2. Plain({q})
  BY DEF Plain
<1> HIDE DEF q
<1>3. Injects(net') \subseteq Injects(net)
  BY <1>1, <1>2, PlainWire
<1> QED BY <1>1, <1>3 DEF Alone, RunTimers

\* The clock never goes back.
LEMMA NowGrows ==
  ASSUME TypeInv, [Next]_vars
  PROVE  now' \in Nat /\ now' >= now
<1>0. now \in Nat
  BY DEF TypeInv, RunTyped
<1>1. now' = now \/ now' = now + 1
  <2>1. CASE ViewPropose \/ ViewInit
    BY <2>1, Zenon DEF ViewPropose, RunPropose, ViewInit, RunInit
  <2>2. CASE ProposerNext
    BY <2>2 DEF ProposerNext, HandleCmdPropose, HandleInject, RunPoll, roundVars,
       HandleConsensusDone, RunDone, RunStop
  <2>3. CASE DsNext \/ BbNext \/ ClockTick \/ UNCHANGED vars
    BY <2>3 DEF DsNext, BbNext, ClockTick, Tick, vars, roundVars
  <2>4. ASSUME NEW m, HandleInit(m) \/ HandlePropose(m) \/ ClientInit(m) \/ HandleQuery(m)
                        \/ ClientReply(m)
        PROVE  now' = now
    BY <2>4 DEF HandleInit, HandlePropose, ClientInit, HandleQuery, ClientReply
  <2>5. ASSUME NEW t, ReferencePoint(t) \/ CommitPoint(t) \/ ClientQuery(t)
        PROVE  now' = now
    BY <2>5 DEF ReferencePoint, CommitPoint, ClientQuery
  <2>6. ASSUME NEW n, CommitPoint1(n) PROVE now' = now
    BY <2>6 DEF CommitPoint1, roundVars
  <2> QED BY <2>1, <2>2, <2>3, <2>4, <2>5, <2>6 DEF Next
<1> QED BY <1>0, <1>1

LEMMA RunSteps ==
  ASSUME TypeInv, [Next]_vars
  PROVE  Alone \/ ViewInit \/ ViewPropose \/ ProposerNext
<1>1. CASE UNCHANGED vars
  BY <1>1 DEF vars, roundVars, wireVars, Alone, RunTimers, Injects
<1>2. CASE ClockTick
  BY <1>2 DEF ClockTick, Tick, wireVars, Alone, RunTimers, Injects
<1> QED BY <1>1, <1>2, DsAlone, BbAlone, PointsAlone, MessagesAlone, QueryAlone DEF Next

\* The end of a session is timed, the first session has its time, and a
\* string is in one place.  Signals are not told apart and may be left over
\* from the session before, so that nothing is claimed of the time of a
\* third session.
OneStart == \A t \in RunTimers : t.what = "start" => pc = "start" /\ t = StartTimer
NoneBefore == sessions = <<>> => consensusDone = 0 /\ RunTimers = {}
FirstTimed ==
  Len(sessions) = 1 =>
    /\ \A t \in RunTimers : t.what \in {"done", "bbDone"} => t.at = Start + N + 6
    /\ pc = "poll" \/ consensusDone = 1 => now >= Start + N + 6
FirstApart == Len(sessions) <= 2 => SessionsDoNotOverlap
RunInv == OneStart /\ NoneBefore /\ FirstTimed /\ FirstApart /\ EndIsTimed /\ OnePlace

RunStep == TypeInv /\ RunInv /\ now' \in Nat /\ now' >= now

LEMMA InitRunInv == Init => RunInv
<1> SUFFICES ASSUME Init PROVE RunInv
  OBVIOUS
<1>1. sessions = <<>> /\ timers = {} /\ pc = "poll" /\ consensusDone = 0 /\ Len(sessions) = 0
  BY DEF Init, RoundsInit
<1>2. OnePlace
  BY InitialPlace DEF Init
<1>3. RunTimers = {}
  BY <1>1 DEF RunTimers
<1> QED BY <1>1, <1>2, <1>3 DEF RunInv, OneStart, NoneBefore, FirstTimed, FirstApart, EndIsTimed,
        SessionsDoNotOverlap

LEMMA SessionCount ==
  ASSUME TypeInv
  PROVE  /\ Len(sessions) \in Nat /\ (sessions = <<>> <=> Len(sessions) = 0)
         /\ sessions # <<>> => Start \in Nat
<1>1. sessions \in Seq(Session)
  BY DEF TypeInv, RunTyped
<1>2. Len(sessions) \in Nat /\ (sessions = <<>> <=> Len(sessions) = 0)
  BY <1>1, EmptySeq, LenProperties
<1>3. ASSUME sessions # <<>> PROVE Start \in Nat
  <2>1. Len(sessions) \in 1..Len(sessions)
    BY <1>2, <1>3
  <2>2. sessions[Len(sessions)] \in Session
    BY <1>1, <2>1, ElementOfSeq
  <2> QED BY <2>2 DEF Start, Last, Session
<1> QED BY <1>2, <1>3

\* A step that leaves the proposer where it is.
LEMMA RunStays ==
  ASSUME RunStep, UNCHANGED <<pc, sessions, consensusDone>>, RunTimers' = RunTimers
  PROVE  OneStart' /\ NoneBefore' /\ FirstTimed' /\ FirstApart' /\ EndIsTimed'
<1>1. UNCHANGED <<Start, StartTimer, Last>>
  BY DEF Start, StartTimer, Last
<1>2. OneStart' /\ NoneBefore' /\ FirstApart'
  BY <1>1 DEF RunStep, RunInv, OneStart, NoneBefore, FirstApart, SessionsDoNotOverlap
<1>3. FirstTimed'
  <2>1. now \in Nat /\ N \in Nat /\ (Len(sessions) = 1 => Start \in Nat)
    BY SessionCount, NatN DEF RunStep, TypeInv, RunTyped
  <2> QED BY <1>1, <2>1 DEF RunStep, RunInv, FirstTimed
<1>4. EndIsTimed'
  BY <1>1 DEF RunStep, RunInv, EndIsTimed, RunTimers
<1> QED BY <1>2, <1>3, <1>4

LEMMA RunProposer ==
  ASSUME RunStep, ProposerNext
  PROVE  RunInv'
<1>1. OnePlace'
  <2>1. stringQueue \in Seq(String) /\ \A m \in Injects(net) : m.val \in String
    BY DEF RunStep, TypeInv, RunTyped, AllOK, MsgOK, Injects
  <2> QED BY <2>1, ProposerPlace DEF RunStep, RunInv
<1>2. CASE RunPoll \/ (\E s \in String : HandleCmdPropose(s)) \/ (\E m \in Inbox : HandleInject(m))
  <2>1. UNCHANGED <<pc, sessions, consensusDone, timers>>
    BY <1>2 DEF RunPoll, HandleCmdPropose, HandleInject, roundVars, proposerVars
  <2> QED BY <1>1, <2>1, RunStays DEF RunInv, RunTimers
<1> USE DEF RunStep, RunInv
<1>3. N \in Nat /\ now \in Nat /\ UNCHANGED <<Start, StartTimer, Last>> /\ sessions' = sessions
      /\ consensusDone \in {0, 1} /\ FirstApart'
  <2>1. sessions' = sessions
    BY DEF ProposerNext, HandleCmdPropose, HandleInject, RunPoll, roundVars, proposerVars,
       HandleConsensusDone, RunDone, RunStop
  <2> QED BY <2>1, NatN DEF Start, StartTimer, Last, TypeInv, RunTyped, FirstApart, SessionsDoNotOverlap
<1>4. ASSUME NEW t \in Ripe, HandleConsensusDone(t) PROVE RunInv'
  <2>1. /\ t \in timers /\ t.at <= now /\ t \in RunTimers /\ t.what \in {"done", "bbDone"}
        /\ RunTimers' = RunTimers \ {t} /\ consensusDone' = 1 /\ now' = now /\ pc' = pc
    BY <1>4 DEF HandleConsensusDone, Ripe, RunTimers
  <2>2. OneStart' /\ NoneBefore'
    BY <1>3, <2>1 DEF OneStart, NoneBefore
  <2>3. FirstTimed'
    <3>1. Len(sessions) = 1 => Start \in Nat /\ t.at = Start + N + 6
      BY <2>1, SessionCount DEF FirstTimed
    <3> QED BY <1>3, <2>1, <3>1 DEF FirstTimed
  <2> QED BY <1>1, <1>3, <2>1, <2>2, <2>3 DEF EndIsTimed
<1>5. CASE RunDone
  <2>1. /\ pc = "wait" /\ consensusDone = 1 /\ consensusDone' = 0 /\ pc' = "poll"
        /\ RunTimers' = RunTimers /\ now' = now
    BY <1>5 DEF RunDone, RunTimers
  <2> QED BY <1>1, <1>3, <2>1 DEF OneStart, NoneBefore, FirstTimed, EndIsTimed
<1>6. CASE RunStop
  <2>1. /\ pc \in {"poll", "wait"} /\ consensusDone' = consensusDone /\ pc' = "stopped"
        /\ RunTimers' \subseteq RunTimers /\ now' = now
    BY <1>6 DEF RunStop, RunTimers
  <2> QED BY <1>1, <1>3, <2>1 DEF OneStart, NoneBefore, FirstTimed, EndIsTimed
<1> QED BY <1>2, <1>4, <1>5, <1>6 DEF ProposerNext

LEMMA RunViewPropose ==
  ASSUME RunStep, ViewPropose
  PROVE  RunInv'
<1>1. OnePlace'
  BY ProposePlace DEF RunStep, RunInv, ViewPropose
<1>2. PICK t \in Ripe :
        /\ t.what = "start" /\ timers' = (timers \ {t}) \cup {VoteTimer(View)} /\ pc' = "wait"
        /\ UNCHANGED <<sessions, consensusDone, now>>
  BY DEF ViewPropose, RunPropose
<1>3. t \in RunTimers /\ RunTimers' = RunTimers \ {t}
  BY <1>2 DEF Ripe, RunTimers, VoteTimer
<1>4. pc = "start" /\ t = StartTimer /\ UNCHANGED <<Start, StartTimer, Last>>
  BY <1>2, <1>3 DEF RunStep, RunInv, OneStart, Start, StartTimer, Last
<1>5. OneStart' /\ NoneBefore' /\ FirstTimed' /\ FirstApart'
  BY <1>2, <1>3, <1>4 DEF RunStep, RunInv, OneStart, NoneBefore, FirstTimed, FirstApart, SessionsDoNotOverlap
<1>6. EndIsTimed'
  BY <1>2, <1>4 DEF RunStep, RunInv, EndIsTimed
<1> QED BY <1>1, <1>5, <1>6 DEF RunInv

LEMMA RunViewInit ==
  ASSUME RunStep, ViewInit
  PROVE  RunInv'
<1>1. OnePlace'
  BY InitPlace DEF RunStep, RunInv, ViewInit, TypeInv, RunTyped
<1> DEFINE e == [start |-> now + 1, val |-> Head(stringQueue)]
           st == [node |-> View, at |-> now + 1, what |-> "start"]
<1>2. /\ sessions' = Append(sessions, e) /\ stringQueue # <<>> /\ pc = "poll" /\ pc' = "start"
      /\ consensusDone' = consensusDone /\ now' = now
      /\ timers' = timers \cup InitTimers(View, now + 1) \cup {st}
  BY DEF ViewInit, RunInit
<1>3. e \in Session /\ now \in Nat /\ N \in Nat /\ sessions \in Seq(Session)
  BY <1>2, HeadTailProperties, NatN DEF Session, RunStep, TypeInv, RunTyped
<1>4. /\ sessions' # <<>> /\ Len(sessions') = Len(sessions) + 1 /\ Last' = e
      /\ \A i \in 1..Len(sessions) : sessions'[i] = sessions[i]
      /\ sessions'[Len(sessions) + 1] = e
  BY <1>2, <1>3, LastOfAppend, AppendProperties
<1>5. Start' = now + 1 /\ StartTimer' = st /\ Start' + N + 6 = now + N + 7
  BY <1>3, <1>4 DEF Start, StartTimer
<1>6. \A t \in RunTimers' \ RunTimers :
        \/ t = st
        \/ t.what \in {"done", "bbDone"} /\ t.at = now + N + 7
  BY <1>2 DEF RunTimers, InitTimers, DsTimers, BbTimers
<1>7. [node |-> View, at |-> now + N + 7, what |-> "done"] \in timers'
  BY <1>2 DEF InitTimers, DsTimers
<1>8. Len(sessions) \in Nat /\ (sessions = <<>> <=> Len(sessions) = 0)
      /\ (sessions # <<>> => Start \in Nat)
  BY SessionCount DEF RunStep
<1>9. EndIsTimed'
  BY <1>4, <1>3, <1>7 DEF EndIsTimed
<1>10. OneStart'
  <2>1. \A t \in RunTimers : t.what # "start"
    BY <1>2 DEF RunStep, RunInv, OneStart
  <2>2. \A t \in RunTimers' : t.what = "start" => t = st
    BY <1>6, <2>1
  <2> QED BY <1>2, <1>5, <2>2 DEF OneStart
<1>11. NoneBefore'
  BY <1>4 DEF NoneBefore
<1>12. FirstTimed'
  <2>1. CASE Len(sessions) = 0
    <3>1. RunTimers = {} /\ consensusDone = 0
      BY <1>8, <2>1 DEF RunStep, RunInv, NoneBefore
    <3>2. \A t \in RunTimers' : t.what \in {"done", "bbDone"} => t.at = now + N + 7
      BY <1>6, <3>1
    <3> QED BY <1>2, <1>5, <3>1, <3>2 DEF FirstTimed
  <2>2. CASE Len(sessions) # 0
    <3>1. Len(sessions') # 1
      BY <1>4, <1>8, <2>2
    <3> QED BY <3>1 DEF FirstTimed
  <2> QED BY <2>1, <2>2
<1>13. FirstApart'
  <2> HIDE DEF e
  <2>1. CASE Len(sessions) = 1
    <3>1. now >= Start + N + 6 /\ Start = sessions[1].start /\ Start \in Nat
      BY <1>2, <1>8, <2>1 DEF RunStep, RunInv, FirstTimed, Start, Last
    <3>2. sessions'[2] = e /\ sessions'[1] = sessions[1] /\ e.start = now + 1
      BY <1>4, <2>1 DEF e
    <3>3. sessions'[2].start >= sessions'[1].start + N + 7
      BY <1>3, <3>1, <3>2
    <3>4. Len(sessions') = 2
      BY <1>4, <2>1
    <3>5. \A i \in 2..Len(sessions') : i = 2 /\ i - 1 = 1
      BY <3>4
    <3>6. SessionsDoNotOverlap'
      <4> SUFFICES ASSUME NEW i \in 2..Len(sessions')
                   PROVE  sessions'[i].start >= sessions'[i - 1].start + N + 7
        BY DEF SessionsDoNotOverlap
      <4>1. i = 2 /\ i - 1 = 1
        BY <3>5
      <4> QED BY <3>3, <4>1
    <3> QED BY <3>6 DEF FirstApart
  <2>2. CASE Len(sessions) # 1
    <3> DEFINE l == Len(sessions)
               k == Len(sessions')
    <3>0. l \in Nat /\ l # 1 /\ k = l + 1
      BY <1>4, <1>8, <2>2
    <3> HIDE DEF l, k
    <3>1. k = 1 \/ k > 2
      BY <3>0
    <3> USE DEF k
    <3>2. CASE Len(sessions') = 1
      <4>1. 2..Len(sessions') = {}
        BY <3>2
      <4> QED BY <4>1, Zenon DEF FirstApart, SessionsDoNotOverlap
    <3>3. CASE Len(sessions') > 2
      <4>1. ~(Len(sessions') <= 2)
        BY <3>3, <3>0
      <4> QED BY <4>1, Zenon DEF FirstApart
    <3> QED BY <3>1, <3>2, <3>3
  <2> QED BY <2>1, <2>2
<1> QED BY <1>1, <1>9, <1>10, <1>11, <1>12, <1>13 DEF RunInv

LEMMA NextRunInv == TypeInv /\ RunInv /\ [Next]_vars => RunInv'
<1> SUFFICES ASSUME TypeInv, RunInv, [Next]_vars PROVE RunInv'
  OBVIOUS
<1>1. RunStep
  BY NowGrows DEF RunStep
<1>2. CASE Alone
  <2>1. OnePlace'
    BY <1>2, SamePlace DEF Alone, SameStrings, proposerVars, RunInv
  <2> QED BY <1>1, <1>2, <2>1, RunStays DEF Alone, RunInv, proposerVars
<1> QED BY <1>1, <1>2, RunSteps, RunProposer, RunViewPropose, RunViewInit

LEMMA RunInvariance == Spec => [](TypeInv /\ RunInv)
BY InitRunInv, NextRunInv, TypeInit, TypeNext, PTL DEF Spec

\* The run of the proposer does not get stuck in a session, with the two
\* modules that signal its end as well as with one.
THEOREM SessionsAreEnded == Spec => []EndIsTimed
<1>1. RunInv => EndIsTimed
  BY DEF RunInv
<1> QED BY <1>1, RunInvariance, PTL

\* A command makes one session at most.
THEOREM CommandsProposedOnce == Spec => []ProposedOnce
<1>1. RunInv => ProposedOnce
  BY DEF RunInv, OnePlace
<1> QED BY <1>1, RunInvariance, PTL

\* The second session has the time of the first one before it, although its
\* end is signalled twice: only from the third session on a signal left over
\* can cut one short.
THEOREM FirstSessionsApart == Spec => [](Len(sessions) <= 2 => SessionsDoNotOverlap)
<1>1. RunInv => (Len(sessions) <= 2 => SessionsDoNotOverlap)
  BY DEF RunInv, FirstApart
<1> QED BY <1>1, RunInvariance, PTL

\* Hops in time, every Init delivered, and an honest view or certificates of
\* two votes at least.
Timely ==
  /\ Synchronous /\ "Init" \notin setup.lossKind
  /\ View \in Honest \/ Quorum >= 2

\* So in the first two sessions the commit points agree, and the client
\* confirms the string of an honest view, without anything being assumed of
\* when sessions end.
THEOREM FirstSessionsAgree ==
  Spec => [](Timely /\ Len(sessions) <= 2 => CommitPointsAgree /\ ClientConfirmsString)
<1>1. (Len(sessions) <= 2 => SessionsDoNotOverlap) /\ Timely /\ Len(sessions) <= 2 => Undisturbed
  BY DEF Timely, Undisturbed
<1> QED BY <1>1, FirstSessionsApart, PointsAgree, ClientIsRight, PTL
=============================================================================
