-------------------------------- MODULE Tbb --------------------------------
(* The TBB deployment: the string client and proposer, on every node the   *)
(* TBB module with its Dolev-Strong and 1-delta-BB modules, which it       *)
(* drives and from whose sets it takes the values of its three commit      *)
(* points, and the client that queries the view twice (queryTBBMod).       *)
EXTENDS DolevStrong, OneDeltaBB

CONSTANT T1   \* int(NodeNum * config.ResilientRatio) - 1

ASSUME T1Assumption == T1 \in 0..N - 1

T2 == N - 1

VARIABLES
  D,            \* localSetD: the value of each commit point
  ref,          \* referenceValue1 and referenceValue2
  tbbCommit,    \* isCommit
  clientStart,  \* the client's copy of the start time
  latencys,     \* number of latencies the client has noted
  confirmed     \* history: session of question and answer, point and value

tbbVars == <<D, ref, tbbCommit>>
clientVars == <<clientStart, latencys, confirmed>>
vars == <<roundVars, dsVars, bbVars, tbbVars, clientVars>>

Init ==
  /\ RoundsInit /\ DsInitState /\ BbInitState
  /\ D = [n \in Node |-> [i \in 1..3 |-> None]]
  /\ ref = [n \in Node |-> [i \in 1..2 |-> None]]
  /\ tbbCommit = [n \in Node |-> FALSE]
  /\ clientStart = 0 /\ latencys = 0 /\ confirmed = {}

(***************************************************************************)
(* Handlers of a node.                                                     *)
(***************************************************************************)

\* The timers of handleInitMsg, those of the two modules included.
InitTimers(n, start) ==
  DsTimers(n, start) \cup BbTimers(n, start) \cup
  {[node |-> n, at |-> start + T1 + 1, what |-> "ref", point |-> 1],
   [node |-> n, at |-> start + T2 + 1, what |-> "ref", point |-> 2],
   [node |-> n, at |-> start + T1 + 6, what |-> "cp", point |-> 2],
   [node |-> n, at |-> start + T2 + 6, what |-> "cp", point |-> 3]}

ResetAllButD(n) ==
  /\ ref' = [ref EXCEPT ![n] = [i \in 1..2 |-> None]]
  /\ tbbCommit' = [tbbCommit EXCEPT ![n] = FALSE]
  /\ DsHandleInit(n) /\ BbHandleInit(n)
  /\ UNCHANGED D

\* handleInitMsg: the effect on the state of the three modules.
ResetAll(n) ==
  /\ D' = [D EXCEPT ![n] = [i \in 1..3 |-> None]]
  /\ ref' = [ref EXCEPT ![n] = [i \in 1..2 |-> None]]
  /\ tbbCommit' = [tbbCommit EXCEPT ![n] = FALSE]
  /\ DsHandleInit(n) /\ BbHandleInit(n)

ViewInit ==
  /\ RunInit(InitTimers(View, now + 1))
  /\ ResetAll(View)
  /\ UNCHANGED clientVars

HandleInit(m) ==
  /\ m.kind = "Init" /\ m.to \in Node
  /\ net' = net \ {m}
  /\ startTime' = [startTime EXCEPT ![m.to] = m.start]
  /\ timers' = timers \cup InitTimers(m.to, m.start)
  /\ ResetAll(m.to)
  /\ UNCHANGED <<now, tasks, setup, faults, lates, proposerVars, clientVars>>

\* handleProposeMsg of the view, called by its proposer.
ViewPropose ==
  /\ RunPropose({VoteTimer(View)})
  /\ BbPropose(View, Last.val)
  /\ DsViewPropose(Last.val)
  /\ UNCHANGED <<tbbVars, clientVars>>

\* handleProposeMsg of another node: first 1-delta-BB, then Dolev-Strong.
HandlePropose(m) ==
  /\ m.kind = "Propose"
  /\ BbPropose(m.to, m.val)
  /\ timers' = timers \cup {VoteTimer(m.to)}
  /\ DsHandlePropose(m.to, m.val, net \ {m}, Forward1Msgs(m.to, m.val))
  /\ UNCHANGED <<now, startTime, setup, proposerVars, tbbVars, clientVars>>

\* The reference points: a single extracted value that Dolev-Strong has
\* committed.
ReferencePoint(t) ==
  /\ t.what = "ref"
  /\ timers' = timers \ {t}
  /\ \/ /\ extrSet[t.node] = {commitValue[t.node]}
        /\ ref' = [ref EXCEPT ![t.node][t.point] = commitValue[t.node]]
     \/ /\ extrSet[t.node] # {commitValue[t.node]}
        /\ UNCHANGED ref
  /\ UNCHANGED <<now, tasks, startTime, setup, wireVars, proposerVars, dsVars,
                 bbVars, D, tbbCommit, clientVars>>

\* Commit point 1: 1-delta-BB has committed within three ticks.
CommitPoint1(n) ==
  /\ trigger[n] = 1
  /\ trigger' = [trigger EXCEPT ![n] = 0]
  /\ D' = [D EXCEPT ![n][1] = bbValue[n]]
  /\ tbbCommit' = [tbbCommit EXCEPT ![n] = TRUE]
  /\ UNCHANGED <<roundVars, dsVars, proposeSet, voteMap, qcSet, blckSet, baMap,
                 baBlckSet, bbCommit, bbValue, ref, clientVars>>

CommitPointNoReference(t) ==
  /\ t.what = "cp"
  /\ timers' = timers \ {t}
  /\ D' = [D EXCEPT ![t.node][t.point] =
             IF Cardinality(blckSet[t.node]) = 1 THEN SingleOrZero(blckSet[t.node]) ELSE @]
  /\ UNCHANGED <<now, tasks, startTime, setup, wireVars, proposerVars, dsVars,
                 bbVars, ref, tbbCommit, clientVars>>

\* Commit points 2 and 3: the certified value if there is just one, else
\* the reference value, which may be empty.  Point 2 does nothing after a
\* commit at point 1.
CommitPoint(t) ==
  /\ t.what = "cp"
  /\ timers' = timers \ {t}
  /\ \/ t.point = 2 /\ tbbCommit[t.node] /\ UNCHANGED D
     \/ /\ ~(t.point = 2 /\ tbbCommit[t.node])
        /\ D' = [D EXCEPT ![t.node][t.point] =
                   IF Cardinality(blckSet[t.node]) = 1 THEN SingleOrZero(blckSet[t.node])
                   ELSE ref[t.node][t.point - 1]]
  /\ UNCHANGED <<now, tasks, startTime, setup, wireVars, proposerVars, dsVars,
                 bbVars, ref, tbbCommit, clientVars>>

\* handleQueryMsg: the first commit point that has a value, and how many
\* certificates there are.
FirstOf(d) ==
  IF \A i \in 1..3 : d[i] = None THEN None
  ELSE d[CHOOSE i \in 1..3 : d[i] # None /\ \A j \in 1..i - 1 : d[j] = None]

HandleQuery(m) ==
  /\ m.kind = "Query"
  /\ Wire(net \ {m}, {[kind |-> "Reply", to |-> Client, val |-> FirstOf(D[m.to]),
                       qcs |-> Cardinality(qcSet[m.to]), asked |-> m.asked,
                       due |-> Soon("Reply")]})
  /\ UNCHANGED <<now, timers, tasks, startTime, setup, proposerVars, dsVars,
                 bbVars, tbbVars, clientVars>>

(***************************************************************************)
(* The client.                                                             *)
(***************************************************************************)

QueryTimer(at) == [node |-> Client, at |-> at, what |-> "query"]

\* handleInitMsg: one aggressive and one conservative query.
ClientInit(m) ==
  /\ m.kind = "Init" /\ m.to = Client
  /\ net' = net \ {m}
  /\ clientStart' = m.start
  /\ timers' = timers \cup {QueryTimer(m.start + 3), QueryTimer(m.start + T2 + 6)}
  /\ UNCHANGED <<now, tasks, startTime, setup, faults, lates, proposerVars,
                 dsVars, bbVars, tbbVars, latencys, confirmed>>

\* sendQueryOnTimeout: half a tick after the timers of the nodes.
ClientQuery(t) ==
  /\ t.what = "query"
  /\ \A u \in Ripe : u.node = Client
  /\ timers' = timers \ {t}
  /\ Wire(net, {[kind |-> "Query", to |-> View, asked |-> Len(sessions), due |-> Soon("Query")]})
  /\ UNCHANGED <<now, tasks, startTime, setup, proposerVars, dsVars, bbVars,
                 tbbVars, clientVars>>

\* handleReplyQueryMsg.  Before commit point 2 the client confirms a value
\* unless it saw two certificates, and asks again when there is no value;
\* before commit point 3 and after it, it confirms what it got.
ClientReply(m) ==
  LET t == now - clientStart
      point == IF t < T1 + 6 THEN 1 ELSE IF t < T2 + 6 THEN 2 ELSE 3
  IN /\ m.kind = "Reply"
     /\ net' = net \ {m}
     /\ timers' = timers \cup
          IF point = 1 /\ m.qcs <= 1 /\ m.val = None
          THEN {QueryTimer(clientStart + T1 + 6)} ELSE {}
     /\ confirmed' = confirmed \cup
          IF point > 1 \/ (m.qcs <= 1 /\ m.val # None)
          THEN {[asked |-> m.asked, session |-> Len(sessions), point |-> point, val |-> m.val]}
          ELSE {}
     /\ latencys' = latencys +
          IF \/ point = 1 /\ m.qcs <= 1 /\ m.val # None
             \/ point = 2 /\ m.val # None
             \/ point = 3 /\ latencys = 0
          THEN 1 ELSE 0
     /\ UNCHANGED <<now, tasks, startTime, setup, faults, lates, proposerVars,
                    dsVars, bbVars, tbbVars, clientStart>>

(***************************************************************************)
(* The system.                                                             *)
(***************************************************************************)

ClockTick ==
  /\ Tick
  /\ \A n \in Node : trigger[n] = 0
  /\ UNCHANGED <<dsVars, bbVars, tbbVars, clientVars>>

Next ==
  \/ ProposerNext /\ UNCHANGED <<dsVars, bbVars, tbbVars, clientVars>>
  \/ DsNext /\ UNCHANGED <<bbVars, tbbVars, clientVars>>
  \/ BbNext /\ UNCHANGED <<dsVars, tbbVars, clientVars>>
  \/ ClockTick
  \/ ViewInit \/ ViewPropose
  \/ \E m \in Inbox : \/ HandleInit(m) \/ HandlePropose(m)
                    \/ ClientInit(m) \/ HandleQuery(m) \/ ClientReply(m)
  \/ \E t \in Ripe : ReferencePoint(t) \/ CommitPoint(t) \/ ClientQuery(t)
  \/ \E n \in Node : CommitPoint1(n)

Spec == Init /\ [][Next]_vars

(***************************************************************************)
(* Properties.                                                             *)
(***************************************************************************)

TypeOK ==
  /\ D \in [Node -> [1..3 -> Value \cup {None}]]
  /\ ref \in [Node -> [1..2 -> Value \cup {None}]]
  /\ voteMap \in [Node -> [Value -> SUBSET (0..N)]]
  /\ blckSet \in [Node -> SUBSET Value] /\ qcSet = blckSet
  /\ trigger \in [Node -> 0..1] /\ consensusDone \in 0..1

\* The values at the commit points of honest nodes agree, at one node and
\* between nodes, whichever of certificate and reference they come from.
CommitPointsAgree ==
  Synchronous =>
    \A n, o \in Honest : startTime[n] = startTime[o] =>
      \A i, j \in 1..3 : D[n][i] # None /\ D[o][j] # None => D[n][i] = D[o][j]

\* After the last commit point of a session every honest node has a value
\* there, however the unlocked tallies of its votes went: the reference from
\* Dolev-Strong stands in for a certificate that was missed.
LastPointHasValue ==
  Synchronous =>
    \A n \in Honest :
      /\ sessions # <<>> /\ startTime[n] > 0
      /\ now >= startTime[n] + T2 + 6
      /\ [node |-> n, at |-> startTime[n] + T2 + 6, what |-> "cp", point |-> 3] \notin timers
      => D[n][3] # None

\* What the client confirms of an honest view's session, aggressively or
\* conservatively, is the string of that session, when question and answer
\* fall into it.
ClientConfirmsString ==
  Synchronous /\ View \in Honest =>
    \A c \in confirmed :
      c.asked = c.session /\ c.val # None => c.val = sessions[c.session].val

=============================================================================
