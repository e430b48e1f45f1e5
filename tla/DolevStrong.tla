----------------------------- MODULE DolevStrong -----------------------------
(* The Dolev-Strong module of a node (DSCosensusMod).  Its actions leave   *)
(* to the composing module what happens to the other modules' variables:   *)
(* on its own it is composed in DsSystem, as part of TBB in Tbb.           *)
(*                                                                         *)
(* A signature list is abstracted to its length: checkSigList accepts any  *)
(* list, and a length that does not fit the round is only logged.          *)
EXTENDS StringRounds

VARIABLES
  extrSet,      \* ExtrSet, the values extracted in this session
  commitValue,  \* CommitValue; Init does not reset it
  decided       \* history: value committed by a node for the session started at

dsVars == <<extrSet, commitValue, decided>>

DsInitState ==
  /\ extrSet = [n \in Node |-> {}]
  /\ commitValue = [n \in Node |-> None]
  /\ decided = {}

DsTimersNoDone(n, start) == {[node |-> n, at |-> start + F + 1, what |-> "dsCommit"]}

DsTimersDoneEarly(n, start) ==
  {[node |-> n, at |-> start + F + 1, what |-> "dsCommit"]}
    \cup IF n = View THEN {[node |-> n, at |-> now + N, what |-> "done"]} ELSE {}

\* The timers HandleInitMsg sets: commit after F + 1 rounds, and on the view
\* the end of the session, counted from the handling of Init.
DsTimers(n, start) ==
  {[node |-> n, at |-> start + F + 1, what |-> "dsCommit"]}
    \cup IF n = View THEN {[node |-> n, at |-> now + N + 7, what |-> "done"]} ELSE {}

DsHandleInitKeepsSet(n) == UNCHANGED dsVars

\* HandleInitMsg: the effect on the module's own state.
DsHandleInit(n) ==
  /\ extrSet' = [extrSet EXCEPT ![n] = {}]
  /\ UNCHANGED <<commitValue, decided>>

ForwardMsgUnsigned(n, val, sigs) ==
  [kind |-> "Forward", to |-> Client, from |-> n, val |-> val, sigs |-> sigs - 1,
   due |-> Soon("Forward")]

ForwardMsg(n, val, sigs) ==
  [kind |-> "Forward", to |-> Client, from |-> n, val |-> val, sigs |-> sigs,
   due |-> Soon("Forward")]

\* A handler that holds val with a list of length sigs leaves its loop at
\* once when the round is below sigs and then broadcasts the list with its
\* own signature; otherwise it spins.  "also" is what the handler has sent
\* before.
ForwardOrSpin(n, val, sigs, netLeft, tasksLeft, also) ==
  \/ /\ Round(n) < sigs
     /\ Wire(netLeft, also \cup ToAll(n, ForwardMsg(n, val, sigs + 1)))
     /\ tasks' = tasksLeft
  \/ /\ Round(n) >= sigs
     /\ tasks' = tasksLeft \cup {[node |-> n, at |-> "spin", for |-> "Forward",
                                  val |-> val, sigs |-> sigs, limit |-> sigs]}
     /\ Wire(netLeft, also)

DsProposeNoForward(n, val, netLeft, also) ==
  /\ extrSet' = [extrSet EXCEPT ![n] = @ \cup {val}]
  /\ Wire(netLeft, also)
  /\ UNCHANGED <<tasks, commitValue, decided>>

\* HandleProposeMsg at a node other than the view.
DsHandlePropose(n, val, netLeft, also) ==
  /\ extrSet' = [extrSet EXCEPT ![n] = @ \cup {val}]
  /\ ForwardOrSpin(n, val, 1, netLeft, tasks, also)
  /\ UNCHANGED <<commitValue, decided>>

\* HandleProposeMsg at the view, which forwards nothing.
DsViewPropose(val) ==
  /\ extrSet' = [extrSet EXCEPT ![View] = @ \cup {val}]
  /\ UNCHANGED <<commitValue, decided>>

\* HandleForwardMsg: the look-up in ExtrSet.
DsHandleForward(m) ==
  /\ m.kind = "Forward"
  /\ net' = net \ {m}
  /\ tasks' = IF m.val \in extrSet[m.to] THEN tasks
              ELSE tasks \cup {[node |-> m.to, at |-> "add", for |-> "Forward",
                                val |-> m.val, sigs |-> m.sigs]}
  /\ UNCHANGED <<faults, lates, timers, dsVars>>

\* HandleForwardMsg: Add is a second lock section, then the waiting loop.
DsAdd(k) ==
  /\ k.at = "add" /\ k.for = "Forward"
  /\ extrSet' = [extrSet EXCEPT ![k.node] = @ \cup {k.val}]
  /\ ForwardOrSpin(k.node, k.val, k.sigs, net, tasks \ {k}, {})
  /\ UNCHANGED <<timers, commitValue, decided>>

\* A spinning handler is let go by an Init that moves startTime.
DsLeaveLoop(k) ==
  /\ k.at = "spin" /\ k.for = "Forward"
  /\ Wire(net, ToAll(k.node, ForwardMsg(k.node, k.val, k.sigs + 1)))
  /\ tasks' = tasks \ {k}
  /\ UNCHANGED <<timers, dsVars>>

\* The value of a set with one element, "0" for any other.
Single(S) == IF Cardinality(S) = 1 THEN CHOOSE v \in S : TRUE ELSE Zero

\* The commit timer.
DsCommit(t) ==
  /\ t.what = "dsCommit"
  /\ timers' = timers \ {t}
  /\ LET v == Single(extrSet[t.node])
     IN /\ commitValue' = [commitValue EXCEPT ![t.node] = v]
        /\ decided' = decided \cup {[node |-> t.node, start |-> t.at - (F + 1), val |-> v]}
  /\ UNCHANGED <<tasks, wireVars, extrSet>>

\* The steps of the module that involve no other module of the node.
DsNext ==
  /\ \/ \E m \in Inbox : DsHandleForward(m)
     \/ \E k \in Ready : DsAdd(k) \/ DsLeaveLoop(k)
     \/ \E t \in Ripe : DsCommit(t)
  /\ UNCHANGED <<now, startTime, setup, proposerVars>>

(***************************************************************************)
(* Properties.                                                             *)
(***************************************************************************)

\* Agreement of Dolev-Strong: honest nodes that commit for the same session
\* commit the same value, whether the view is honest or proposes "bad" to
\* some nodes, and even when a node hears of the value from forwards only.
Agreement ==
  Synchronous => \A d, e \in decided :
    d.start = e.start /\ {d.node, e.node} \subseteq Honest => d.val = e.val

\* Validity: under an honest view every honest node commits the string of
\* the session.  It fails if an earlier session's value leaks into ExtrSet.
Validity ==
  Synchronous /\ View \in Honest =>
    \A d \in decided : d.node \in Honest =>
      \E i \in 1..Len(sessions) : sessions[i] = [start |-> d.start, val |-> d.val]

\* "Initially, every node i's extracted set extri=0": between the Init of a
\* session and its first proposal a node's set stays empty.
ExtrEmptyAtStart ==
  \A n \in Honest :
    (sessions # <<>> /\ startTime[n] = Last.start /\ pc = "start") => extrSet[n] = {}

=============================================================================
