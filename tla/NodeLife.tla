------------------------------ MODULE NodeLife ------------------------------
(***************************************************************************)
(* The life of the processes: the client starts the nodes of the shards    *)
(* one by one, its load generator waits until all of them listen, an       *)
(* interrupt cancels the client's context and its stop module sends every  *)
(* node a MsgStop, and a process ends when all its modules have returned.  *)
(* The client's two senders share one pool of connections per node, the    *)
(* sync.Pool of ConnMananger.                                              *)
(*                                                                         *)
(* Nodes are numbered in the order the client starts them.  Time is not    *)
(* counted: WaitForAllIPsReady may give up whenever the node it looks at   *)
(* does not listen.  A node's store may fail to open, which ends it.       *)
(***************************************************************************)
EXTENDS Integers

CONSTANTS
  K,           \* number of nodes, ShardNum * NodeNum
  ViewNode,    \* the nodes that are the view of their shard
  Ticks,       \* bound: ticks of the generator
  MayFail      \* the nodes whose start may fail

Node == 0..K - 1

ASSUME LifeAssumption ==
  /\ K \in Nat \ {0} /\ ViewNode \subseteq Node /\ MayFail \subseteq Node
  /\ Ticks \in Nat

VARIABLES
  proc,         \* Node -> "absent", "boot", "up" or "exited"
  ctx,          \* Node -> its context is cancelled
  running,      \* Node -> a module of it has not returned
  stopMsg,      \* nodes with a MsgStop that is not handled yet
  clientProc,   \* "up" or "exited"
  clientCtx,    \* the client's context is cancelled
  startPc,      \* the next node startLocalSystem starts
  waitPc,       \* the next node the generator waits for, K when all listen
  genPc,        \* "wait", "send" or "end"
  ticks,        \* ticks of the generator
  stopPc,       \* the next node stopSystem sends to
  toInject,     \* views that this tick has still to send to
  send,         \* the Send each module of the client is in
  idle,         \* Node -> connections in its pool
  reachable     \* history: the nodes that listened at the interrupt

Sender == {"gen", "stop"}
NoSend == [to |-> K, at |-> "none"]

nodeVars == <<proc, ctx, running>>
moduleVars == <<startPc, waitPc, genPc, ticks, stopPc, toInject>>
connVars == <<send, idle>>
clientVars == <<clientProc, clientCtx, reachable>>
vars == <<nodeVars, stopMsg, moduleVars, connVars, clientVars>>

Listens(n) == proc[n] = "up"

Init ==
  /\ proc = [n \in Node |-> "absent"] /\ ctx = [n \in Node |-> FALSE]
  /\ running = [n \in Node |-> FALSE] /\ stopMsg = {}
  /\ clientProc = "up" /\ clientCtx = FALSE /\ reachable = {}
  /\ startPc = 0 /\ waitPc = 0 /\ genPc = "wait" /\ ticks = 0 /\ stopPc = 0
  /\ toInject = {}
  /\ send = [m \in Sender |-> NoSend] /\ idle = [n \in Node |-> 0]

-----------------------------------------------------------------------------
(* A node.                                                                 *)

\* NewNode, then Run: register the stop handler, listen, start the modules.
\* StartListen logs a failed listen and Run goes on; such a node, which cannot
\* be reached, is left out, and no property says anything of one.
NodeUp(n) ==
  /\ proc[n] = "boot"
  /\ proc' = [proc EXCEPT ![n] = "up"]
  /\ running' = [running EXCEPT ![n] = TRUE]
  /\ UNCHANGED <<ctx, stopMsg, moduleVars, connVars, clientVars>>

\* NewNodeAttr panics because the block chain cannot be opened.
NodeFails(n) ==
  /\ proc[n] = "boot" /\ n \in MayFail
  /\ proc' = [proc EXCEPT ![n] = "exited"]
  /\ UNCHANGED <<ctx, running, stopMsg, moduleVars, connVars, clientVars>>

\* The last module returns: at once on a node that is not the view, at
\* ctx.Done on the view.
ModulesReturn(n) ==
  /\ running[n] /\ (n \in ViewNode => ctx[n])
  /\ running' = [running EXCEPT ![n] = FALSE]
  /\ UNCHANGED <<proc, ctx, stopMsg, moduleVars, connVars, clientVars>>

\* The handler of MsgStop.
HandleStop(n) ==
  /\ n \in stopMsg
  /\ stopMsg' = stopMsg \ {n}
  /\ ctx' = [ctx EXCEPT ![n] = TRUE]
  /\ UNCHANGED <<proc, running, moduleVars, connVars, clientVars>>

\* Mutant of MayExit: the modules' end is enough.
MayExitEarly(n) == ~running[n]
\* Run is past the select and wg.Wait returns.
MayExit(n) == ctx[n] /\ ~running[n]

NodeExit(n) ==
  /\ Listens(n) /\ MayExit(n)
  /\ proc' = [proc EXCEPT ![n] = "exited"]
  /\ UNCHANGED <<ctx, running, stopMsg, moduleVars, connVars, clientVars>>

-----------------------------------------------------------------------------
(* ConnMananger.Send of the client.                                        *)

\* pool.Get: an idle connection, or a new one, which needs a listener.  The
\* pool may miss an idle connection that another thread has put.
Get(m, next) ==
  LET n == send[m].to IN
  \/ /\ idle[n] > 0
     /\ idle' = [idle EXCEPT ![n] = @ - 1]
     /\ send' = [send EXCEPT ![m].at = next]
  \/ /\ Listens(n)
     /\ send' = [send EXCEPT ![m].at = next]
     /\ UNCHANGED idle
  \/ /\ ~Listens(n)
     /\ send' = [send EXCEPT ![m] = NoSend]
     /\ UNCHANGED idle

\* The first connection is taken and never used, ...
SendGet(m) == send[m].at = "get" /\ Get(m, "getAgain")

\* ... the second one is written to.
SendGetAgain(m) == send[m].at = "getAgain" /\ Get(m, "write")

\* Write, and Put even if it fails.  What is written to a process that has
\* ended is lost.  Only a MsgStop matters here.
SendWrite(m) ==
  LET n == send[m].to IN
  /\ send[m].at = "write"
  /\ stopMsg' = IF m = "stop" /\ Listens(n) THEN stopMsg \cup {n} ELSE stopMsg
  /\ idle' = [idle EXCEPT ![n] = @ + 1]
  /\ send' = [send EXCEPT ![m] = NoSend]

Send(m) ==
  /\ \/ (SendGet(m) \/ SendGetAgain(m)) /\ UNCHANGED stopMsg
     \/ SendWrite(m)
  /\ UNCHANGED <<nodeVars, moduleVars, clientVars>>

CallSend(m, n) ==
  /\ send[m] = NoSend
  /\ send' = [send EXCEPT ![m] = [to |-> n, at |-> "get"]]
  /\ UNCHANGED idle

-----------------------------------------------------------------------------
(* The modules of the client.                                              *)

\* Mutant of StartsLeft: one node too many.
StartsLeftPlusOne == startPc <= K
StartsLeft == startPc < K

\* startLocalSystem starts the next node; it does not look at the context.
StartNode ==
  /\ StartsLeft
  /\ startPc' = startPc + 1
  /\ proc' = [proc EXCEPT ![startPc] = "boot"]
  /\ UNCHANGED <<ctx, running, stopMsg, waitPc, genPc, ticks, stopPc, toInject,
                 connVars, clientVars>>

\* WaitForAllIPsReady: the next node listens, ...
WaitNext ==
  /\ genPc = "wait" /\ Listens(waitPc)
  /\ waitPc' = waitPc + 1
  /\ genPc' = IF waitPc + 1 = K THEN "send" ELSE "wait"
  /\ UNCHANGED <<nodeVars, stopMsg, startPc, ticks, stopPc, toInject, connVars,
                 clientVars>>

\* Mutant of TimesOut: the wait has no timeout.
TimesOutNever == FALSE
TimesOut == ~Listens(waitPc)

\* ... or the time is up.
WaitGivesUp ==
  /\ genPc = "wait" /\ TimesOut
  /\ genPc' = "end"
  /\ UNCHANGED <<nodeVars, stopMsg, startPc, waitPc, ticks, stopPc, toInject,
                 connVars, clientVars>>

\* A tick: send to the views, one after the other.
GenTick ==
  /\ genPc = "send" /\ toInject = {} /\ send["gen"] = NoSend /\ ticks < Ticks
  /\ ticks' = ticks + 1
  /\ toInject' = ViewNode
  /\ UNCHANGED <<nodeVars, stopMsg, startPc, waitPc, genPc, stopPc, connVars,
                 clientVars>>

GenSend(n) ==
  /\ n \in toInject
  /\ CallSend("gen", n)
  /\ toInject' = toInject \ {n}
  /\ UNCHANGED <<nodeVars, stopMsg, startPc, waitPc, genPc, ticks, stopPc,
                 clientVars>>

\* The select between two ticks sees ctx.Done.
GenStop ==
  /\ genPc = "send" /\ toInject = {} /\ send["gen"] = NoSend /\ clientCtx
  /\ genPc' = "end"
  /\ UNCHANGED <<nodeVars, stopMsg, startPc, waitPc, ticks, stopPc, toInject,
                 connVars, clientVars>>

\* stopSystem after ctx.Done: one Send per node.
StopNext ==
  /\ clientCtx /\ stopPc < K
  /\ CallSend("stop", stopPc)
  /\ stopPc' = stopPc + 1
  /\ UNCHANGED <<nodeVars, stopMsg, startPc, waitPc, genPc, ticks, toInject,
                 clientVars>>

\* Mutant of StopsSent: the end of the last Send is not waited for.
StopsSentNearly == stopPc = K
StopsSent == stopPc = K /\ send["stop"] = NoSend

\* The client's own Run: ctx.Done, then wg.Wait for every module.
ClientExit ==
  /\ clientProc = "up" /\ clientCtx
  /\ startPc = K /\ genPc = "end" /\ StopsSent
  /\ clientProc' = "exited"
  /\ send' = [m \in Sender |-> NoSend]
  /\ UNCHANGED <<nodeVars, stopMsg, moduleVars, idle, clientCtx, reachable>>

\* Ctrl+C at the client; the nodes are detached from its terminal.
Interrupt ==
  /\ clientProc = "up" /\ ~clientCtx
  /\ clientCtx' = TRUE
  /\ reachable' = {n \in Node : Listens(n)}
  /\ UNCHANGED <<nodeVars, stopMsg, moduleVars, connVars, clientProc>>

NodeStep(n) == NodeUp(n) \/ ModulesReturn(n) \/ HandleStop(n) \/ NodeExit(n)
ClientStep ==
  /\ clientProc = "up"
  /\ \/ StartNode \/ WaitNext \/ WaitGivesUp \/ GenStop \/ StopNext \/ ClientExit
     \/ \E n \in Node : GenSend(n)
     \/ \E m \in Sender : Send(m)

Next ==
  \/ \E n \in Node : NodeStep(n) \/ NodeFails(n)
  \/ ClientStep \/ (clientProc = "up" /\ GenTick) \/ Interrupt

\* Every goroutine goes on; the interrupt, a failing node and the ticks are
\* not promised.
Fairness ==
  /\ \A n \in Node : WF_vars(NodeUp(n)) /\ WF_vars(ModulesReturn(n))
                     /\ WF_vars(HandleStop(n)) /\ WF_vars(NodeExit(n))
  /\ \A m \in Sender : WF_vars(clientProc = "up" /\ Send(m))
  /\ WF_vars(clientProc = "up" /\ StartNode)
  /\ WF_vars(clientProc = "up" /\ (WaitNext \/ WaitGivesUp))
  /\ WF_vars(clientProc = "up" /\ \E n \in Node : GenSend(n))
  /\ WF_vars(clientProc = "up" /\ GenStop)
  /\ WF_vars(clientProc = "up" /\ StopNext)
  /\ WF_vars(clientProc = "up" /\ ClientExit)

Spec == Init /\ [][Next]_vars /\ Fairness

-----------------------------------------------------------------------------
TypeOK ==
  /\ proc \in [Node -> {"absent", "boot", "up", "exited"}]
  /\ ctx \in [Node -> BOOLEAN] /\ running \in [Node -> BOOLEAN]
  /\ stopMsg \subseteq Node /\ clientProc \in {"up", "exited"}
  /\ clientCtx \in BOOLEAN /\ reachable \subseteq Node
  /\ startPc \in 0..K /\ waitPc \in 0..K /\ stopPc \in 0..K
  /\ genPc \in {"wait", "send", "end"} /\ ticks \in 0..Ticks
  /\ toInject \subseteq ViewNode
  /\ send \in [Sender -> [to : Node, at : {"get", "getAgain", "write"}]
                         \cup {NoSend}]
  /\ idle \in [Node -> Nat]

\* A node that runs stays up until a MsgStop was sent to it: the end of its
\* modules, or another node's end, does not take it down.
StaysUpUntilStopped ==
  \A n \in Node : proc[n] = "exited" /\ n \notin MayFail => clientCtx /\ stopPc > n

\* Every node that listens when the client is interrupted ends, whatever the
\* two senders do with the connections (stopSystem, Send, HandleStop, Run).
StopReachesListeners ==
  \A n \in Node : (n \in reachable) ~> (proc[n] = "exited")

\* The client ends after an interrupt, also when a node never came up.
ClientEnds == clientCtx ~> (clientProc = "exited")
=============================================================================
