----------------------------- MODULE OneDeltaBB -----------------------------
(* The 1-delta-BB module of a node (_1Delta_BBConsensusMod) with the BADS  *)
(* protocol embedded in it; composed in Tbb.  Signature checks accept      *)
(* everything; a vote is abstracted to its signer.                         *)
(*                                                                         *)
(* voteMap and BAproposeMap are plain Go maps of sets that handlers and    *)
(* timers use without a lock.  Each use looks the entry up, creates it     *)
(* when it saw none, adds to the entry then found and counts it: the       *)
(* look-up, the addition and the count are separate steps here, so a vote  *)
(* can vanish with an entry that is created twice, and a count can jump    *)
(* over the threshold it is compared with.                                 *)
EXTENDS StringRounds

VARIABLES
  proposeSet,  \* values proposed to or forwarded to the node
  voteMap,     \* per node and value the signers; absent entries are NoVotes
  qcSet,       \* values with a quorum certificate (the keys of QCMap)
  blckSet,     \* BlckSet
  baMap,       \* BAproposeMap, as voteMap
  baBlckSet,   \* BABlckSet
  bbCommit,    \* isCommit
  bbValue,     \* CommitValue
  trigger      \* tokens in CommitPoint1Trigger

bbVars == <<proposeSet, voteMap, qcSet, blckSet, baMap, baBlckSet, bbCommit, bbValue, trigger>>

NoVotes == {Client}   \* no entry: no set of signers contains the client
EmptyMap == [v \in Value |-> NoVotes]
Quorum == N - F

BbInitState ==
  /\ proposeSet = [n \in Node |-> {}] /\ voteMap = [n \in Node |-> EmptyMap]
  /\ qcSet = [n \in Node |-> {}] /\ blckSet = [n \in Node |-> {}]
  /\ baMap = [n \in Node |-> EmptyMap] /\ baBlckSet = [n \in Node |-> {}]
  /\ bbCommit = [n \in Node |-> FALSE] /\ bbValue = [n \in Node |-> None]
  /\ trigger = [n \in Node |-> 0]

\* The timers HandleInitMsg sets.
BbTimers(n, start) ==
  {[node |-> n, at |-> start + 4, what |-> "baStart"],
   [node |-> n, at |-> start + F + 6, what |-> "bbFinal"]}
    \cup IF n = View THEN {[node |-> n, at |-> now + N + 7, what |-> "bbDone"]} ELSE {}

BbHandleInitKeepsBlck(n) ==
  /\ proposeSet' = [proposeSet EXCEPT ![n] = {}]
  /\ voteMap' = [voteMap EXCEPT ![n] = EmptyMap]
  /\ qcSet' = [qcSet EXCEPT ![n] = {}]
  /\ baMap' = [baMap EXCEPT ![n] = EmptyMap]
  /\ baBlckSet' = [baBlckSet EXCEPT ![n] = {}]
  /\ bbCommit' = [bbCommit EXCEPT ![n] = FALSE]
  /\ bbValue' = [bbValue EXCEPT ![n] = None]
  /\ trigger' = [trigger EXCEPT ![n] = 0]
  /\ UNCHANGED blckSet

\* HandleInitMsg: everything of the last session is dropped.
BbHandleInit(n) ==
  /\ proposeSet' = [proposeSet EXCEPT ![n] = {}]
  /\ voteMap' = [voteMap EXCEPT ![n] = EmptyMap]
  /\ qcSet' = [qcSet EXCEPT ![n] = {}]
  /\ blckSet' = [blckSet EXCEPT ![n] = {}]
  /\ baMap' = [baMap EXCEPT ![n] = EmptyMap]
  /\ baBlckSet' = [baBlckSet EXCEPT ![n] = {}]
  /\ bbCommit' = [bbCommit EXCEPT ![n] = FALSE]
  /\ bbValue' = [bbValue EXCEPT ![n] = None]
  /\ trigger' = [trigger EXCEPT ![n] = 0]

(***************************************************************************)
(* Proposal, forwards and votes.                                           *)
(***************************************************************************)

VoteTimer(n) == [node |-> n, at |-> now + 1, what |-> "vote"]

\* HandleProposeMsg: the change of the set.  The composing module sets the
\* vote timer and, at a node other than the view, sends Forward1Msgs.
BbPropose(n, val) ==
  /\ proposeSet' = [proposeSet EXCEPT ![n] = @ \cup {val}]
  /\ UNCHANGED <<voteMap, qcSet, blckSet, baMap, baBlckSet, bbCommit, bbValue, trigger>>

Forward1Msgs(n, val) ==
  ToAll(n, [kind |-> "Forward1", to |-> Client, val |-> val, due |-> Soon("Forward1")])

\* HandleForward1Msg: a value already there changes nothing.  No vote timer
\* is set: who hears of the value this way only does not vote.
BbHandleForward1(m) ==
  /\ m.kind = "Forward1"
  /\ net' = net \ {m}
  /\ BbPropose(m.to, m.val)
  /\ UNCHANGED <<faults, lates, timers, tasks>>

\* The tally of a vote: the look-up has happened, with what it saw.
Tally(n, for, val, signer, entry) ==
  [node |-> n, at |-> "tally", for |-> for, val |-> val, signer |-> signer,
   create |-> entry = NoVotes]

\* The vote timer: a node that saw exactly one value signs it, adds the
\* vote to its own map, which counts nothing, and broadcasts it.
BbVoteTimer(t) ==
  /\ t.what = "vote"
  /\ timers' = timers \ {t}
  /\ \/ /\ Cardinality(proposeSet[t.node]) # 1
        /\ UNCHANGED <<tasks, wireVars>>
     \/ \E v \in proposeSet[t.node] :
          /\ proposeSet[t.node] = {v}
          /\ tasks' = tasks \cup {Tally(t.node, "vote", v, t.node, voteMap[t.node][v])}
          /\ Wire(net, ToAll(t.node, [kind |-> "Vote", to |-> Client, from |-> t.node,
                                      val |-> v, due |-> Soon("Vote")]))
  /\ UNCHANGED bbVars

\* HandleVoteMsg: the look-up.
BbHandleVote(m) ==
  /\ m.kind = "Vote"
  /\ net' = net \ {m}
  /\ tasks' = tasks \cup {Tally(m.to, "vote", m.val, m.from, voteMap[m.to][m.val])}
  /\ UNCHANGED <<faults, lates, timers, bbVars>>

\* Creation, when the look-up saw no entry, and addition.  The own vote of
\* the node is done; another one still has to be counted.
AddTo(entry, k) == (IF k.create THEN {} ELSE entry) \cup {k.signer}

BbTally(k) ==
  /\ k.at = "tally"
  /\ \/ /\ k.for = "vote"
        /\ voteMap' = [voteMap EXCEPT ![k.node][k.val] = AddTo(@, k)]
        /\ UNCHANGED baMap
     \/ /\ k.for = "ba"
        /\ baMap' = [baMap EXCEPT ![k.node][k.val] = AddTo(@, k)]
        /\ UNCHANGED voteMap
  /\ tasks' = (tasks \ {k}) \cup
       IF k.signer = k.node THEN {}
       ELSE {[node |-> k.node, at |-> "count", for |-> k.for, val |-> k.val,
              signer |-> k.signer]}
  /\ UNCHANGED <<wireVars, timers, proposeSet, qcSet, blckSet, baBlckSet,
                 bbCommit, bbValue, trigger>>

MakesQCAny(k) == k.val \notin qcSet[k.node]

\* A count makes a certificate when it meets the threshold exactly and there
\* is none yet.
MakesQC(k) == Cardinality(voteMap[k.node][k.val]) = Quorum /\ k.val \notin qcSet[k.node]

\* HandleVoteMsg: the count.  The certificate commits the value when it is
\* the only one and three ticks have not passed.  The QC message that is
\* then broadcast is decoded by its receivers and otherwise ignored.
BbCountVote(k) ==
  /\ k.at = "count" /\ k.for = "vote"
  /\ tasks' = tasks \ {k}
  /\ \/ ~MakesQC(k) /\ UNCHANGED bbVars
     \/ /\ MakesQC(k)
        /\ qcSet' = [qcSet EXCEPT ![k.node] = @ \cup {k.val}]
        /\ blckSet' = [blckSet EXCEPT ![k.node] = @ \cup {k.val}]
        /\ IF Cardinality(blckSet'[k.node]) = 1 /\ now - startTime[k.node] < 3
           THEN /\ bbValue' = [bbValue EXCEPT ![k.node] = k.val]
                /\ bbCommit' = [bbCommit EXCEPT ![k.node] = TRUE]
                /\ trigger' = [trigger EXCEPT ![k.node] = 1]
           ELSE UNCHANGED <<bbValue, bbCommit, trigger>>
        /\ UNCHANGED <<proposeSet, voteMap, baMap, baBlckSet>>
  /\ UNCHANGED <<wireVars, timers>>

(***************************************************************************)
(* BADS.                                                                   *)
(***************************************************************************)

\* first is the signer of the first signature of the list; an aggregate of
\* node n counts as the signer Aggregate(n).
Forward2(from, val, first, sigs, due) ==
  [kind |-> "Forward2", to |-> Client, from |-> from, val |-> val, first |-> first,
   sigs |-> sigs, due |-> due]
Aggregate(n) == N + 1 + n

\* The value of a set with one element, "0" for any other.
SingleOrZero(S) == IF Cardinality(S) = 1 THEN CHOOSE v \in S : TRUE ELSE Zero

\* After four ticks: the node's input to BADS, added to the own map without
\* a count and broadcast.
BbStartBA(t) ==
  /\ t.what = "baStart"
  /\ timers' = timers \ {t}
  /\ LET v == SingleOrZero(blckSet[t.node])
     IN /\ tasks' = tasks \cup {Tally(t.node, "ba", v, t.node, baMap[t.node][v])}
        /\ Wire(net, ToAll(t.node, Forward2(t.node, v, t.node, 1, now)))
  /\ UNCHANGED bbVars

\* HandleForward2Msg before five ticks: the tally of an input.
BbInputBA(m) ==
  /\ m.kind = "Forward2" /\ now - startTime[m.to] < 5
  /\ net' = net \ {m}
  /\ tasks' = tasks \cup {Tally(m.to, "ba", m.val, m.first, baMap[m.to][m.val])}
  /\ UNCHANGED <<faults, lates, timers, bbVars>>

\* The count of an input: enough of them are aggregated and broadcast after
\* six ticks.
BbCountBA(k) ==
  /\ k.at = "count" /\ k.for = "ba"
  /\ tasks' = tasks \ {k}
  /\ timers' = timers \cup
       IF Cardinality(baMap[k.node][k.val]) # Quorum THEN {}
       ELSE {[node |-> k.node, at |-> startTime[k.node] + 6, what |-> "baSend", val |-> k.val]}
  /\ UNCHANGED <<wireVars, bbVars>>

BbSendBA(t) ==
  /\ t.what = "baSend"
  /\ timers' = timers \ {t}
  /\ Wire(net, ToAll(t.node, Forward2(t.node, t.val, Aggregate(t.node), 1, now)))
  /\ UNCHANGED <<tasks, bbVars>>

\* HandleForward2Msg from five ticks on: as in Dolev-Strong, a new value is
\* added and forwarded when the round allows; the loop compares the round
\* counted from tick five with the length of the list.
BbForwardBA(m) ==
  /\ m.kind = "Forward2" /\ now - startTime[m.to] >= 5
  /\ \/ /\ m.val \in baBlckSet[m.to]
        /\ net' = net \ {m}
        /\ UNCHANGED <<faults, lates, tasks, baBlckSet>>
     \/ /\ m.val \notin baBlckSet[m.to]
        /\ baBlckSet' = [baBlckSet EXCEPT ![m.to] = @ \cup {m.val}]
        /\ tasks' = tasks \cup {[node |-> m.to, at |-> "spin", for |-> "Forward2",
                                 val |-> m.val, first |-> m.first, sigs |-> m.sigs,
                                 limit |-> m.sigs + 5]}
        /\ net' = net \ {m}
        /\ UNCHANGED <<faults, lates>>
  /\ UNCHANGED <<timers, proposeSet, voteMap, qcSet, blckSet, baMap, bbCommit,
                 bbValue, trigger>>

BbLeaveLoop(k) ==
  /\ k.at = "spin" /\ k.for = "Forward2"
  /\ tasks' = tasks \ {k}
  /\ Wire(net, ToAll(k.node, Forward2(k.node, k.val, k.first, k.sigs + 1, Soon("Forward2"))))
  /\ UNCHANGED <<timers, bbVars>>

\* After F + 6 ticks: a node that did not commit takes the result of BADS.
BbFinal(t) ==
  /\ t.what = "bbFinal"
  /\ timers' = timers \ {t}
  /\ bbValue' = [bbValue EXCEPT ![t.node] =
                   IF bbCommit[t.node] THEN @ ELSE SingleOrZero(baBlckSet[t.node])]
  /\ UNCHANGED <<wireVars, tasks, proposeSet, voteMap, qcSet, blckSet, baMap,
                 baBlckSet, bbCommit, trigger>>

\* The steps of the module that involve no other module of the node.
BbNext ==
  /\ \/ \E m \in Inbox : BbHandleForward1(m) \/ BbHandleVote(m) \/ BbInputBA(m) \/ BbForwardBA(m)
     \/ \E k \in Ready : BbTally(k) \/ BbCountVote(k) \/ BbCountBA(k) \/ BbLeaveLoop(k)
     \/ \E t \in Ripe : BbVoteTimer(t) \/ BbStartBA(t) \/ BbSendBA(t) \/ BbFinal(t)
  /\ UNCHANGED <<now, startTime, setup, proposerVars>>

=============================================================================
