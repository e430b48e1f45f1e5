--------------------------- MODULE NodeLifeProofs ---------------------------
(* Types, and that a node stays up until it is stopped, for any number of  *)
(* nodes, any views, any bound on ticks and any nodes that fail.           *)
EXTENDS NodeLife, TLAPS

\* The generator waits for a node that exists.
WaitsForNode == genPc = "wait" => waitPc < K

\* A stop comes from the client's stop module after the interrupt: a Send of
\* it, a MsgStop on its way and a cancelled context all mean that StopNext
\* has passed the node.
StopIsSent ==
  \A n \in Node :
    (send["stop"].to = n \/ n \in stopMsg \/ ctx[n]) => clientCtx /\ stopPc > n

LifeInv == TypeOK /\ WaitsForNode /\ StopIsSent /\ StaysUpUntilStopped

At == {"get", "getAgain", "write"}
Call == [to : Node, at : At] \cup {NoSend}

LEMMA NatK == K \in Nat \ {0} /\ K \notin Node /\ ViewNode \subseteq Node /\ Ticks \in Nat
BY LifeAssumption DEF Node

\* The client has called nobody, nothing is on its way.
LEMMA InitLife == Init => LifeInv
<1> SUFFICES ASSUME Init PROVE LifeInv
  OBVIOUS
<1>1. TypeOK
  <2>1. /\ ctx \in [Node -> BOOLEAN] /\ running \in [Node -> BOOLEAN]
        /\ clientCtx \in BOOLEAN
    BY Zenon DEF Init
  <2>2. send \in [Sender -> [to : Node, at : {"get", "getAgain", "write"}] \cup {NoSend}]
    BY Zenon DEF Init
  <2> QED BY <2>1, <2>2, NatK DEF Init, TypeOK
<1>2. WaitsForNode
  BY NatK DEF Init, WaitsForNode
<1>3. StopIsSent
  BY NatK DEF Init, StopIsSent, NoSend, Sender
<1>4. StaysUpUntilStopped
  BY DEF Init, StaysUpUntilStopped
<1> QED BY <1>1, <1>2, <1>3, <1>4 DEF LifeInv

\* The steps of a node: HandleStop turns a MsgStop into a cancelled context,
\* NodeExit needs one, NodeFails needs a node of MayFail.
LEMMA NodeStepLife ==
  ASSUME LifeInv, NEW n \in Node, NodeStep(n) \/ NodeFails(n)
  PROVE  LifeInv'
<1> USE NatK
<1>1. CASE NodeUp(n)
  BY <1>1 DEF NodeUp, LifeInv, TypeOK, WaitsForNode, StopIsSent,
              StaysUpUntilStopped, moduleVars, connVars, clientVars
<1>2. CASE NodeFails(n)
  BY <1>2 DEF NodeFails, LifeInv, TypeOK, WaitsForNode, StopIsSent,
              StaysUpUntilStopped, moduleVars, connVars, clientVars
<1>3. CASE ModulesReturn(n)
  BY <1>3 DEF ModulesReturn, LifeInv, TypeOK, WaitsForNode, StopIsSent,
              StaysUpUntilStopped, moduleVars, connVars, clientVars
<1>4. CASE HandleStop(n)
  BY <1>4 DEF HandleStop, LifeInv, TypeOK, WaitsForNode, StopIsSent,
              StaysUpUntilStopped, moduleVars, connVars, clientVars
<1>5. CASE NodeExit(n)
  BY <1>5 DEF NodeExit, MayExit, LifeInv, TypeOK, WaitsForNode, StopIsSent,
              StaysUpUntilStopped, moduleVars, connVars, clientVars
<1> QED BY <1>1, <1>2, <1>3, <1>4, <1>5 DEF NodeStep

\* A pool.Get leaves the receiver of the Send, or ends it.
LEMMA GetLife ==
  ASSUME LifeInv, NEW m \in Sender, send[m].at \in At,
         NEW next \in At, Get(m, next)
  PROVE  /\ send' \in [Sender -> Call] /\ idle' \in [Node -> Nat]
         /\ send'["stop"].to \in {send["stop"].to, K}
<1> USE NatK
<1>0. send \in [Sender -> Call] /\ idle \in [Node -> Nat]
  BY DEF LifeInv, TypeOK, Call, At
<1>1. send[m] \in [to : Node, at : At]
  BY <1>0 DEF Call, NoSend, At
<1>2. /\ send' = [send EXCEPT ![m].at = next] \/ send' = [send EXCEPT ![m] = NoSend]
      /\ idle' = idle \/ (idle[send[m].to] > 0
                          /\ idle' = [idle EXCEPT ![send[m].to] = @ - 1])
  BY DEF Get
<1>3. idle' \in [Node -> Nat]
  BY <1>0, <1>1, <1>2
<1>4. CASE send' = [send EXCEPT ![m].at = next]
  <2>1. send'[m] = [send[m] EXCEPT !.at = next]
    BY <1>0, <1>4
  <2>2. send'[m] \in [to : Node, at : At] /\ send'[m].to = send[m].to
    BY <1>1, <2>1
  <2> QED BY <1>0, <1>3, <1>4, <2>2 DEF Call, Sender
<1>5. CASE send' = [send EXCEPT ![m] = NoSend]
  BY <1>0, <1>3, <1>5 DEF Call, Sender, NoSend
<1> QED BY <1>2, <1>4, <1>5

\* A Send: only the write of the stop module makes a MsgStop, to the node
\* the module has called.
LEMMA SendLife ==
  ASSUME LifeInv, NEW m \in Sender, Send(m)
  PROVE  LifeInv'
<1> USE NatK
<1>0. send \in [Sender -> Call] /\ idle \in [Node -> Nat]
  BY DEF LifeInv, TypeOK, Call, At
<1>1. UNCHANGED <<nodeVars, moduleVars, clientVars>>
  BY DEF Send
<1>2. /\ send' \in [Sender -> Call] /\ idle' \in [Node -> Nat]
      /\ send'["stop"].to \in {send["stop"].to, K}
      /\ \/ stopMsg' = stopMsg
         \/ /\ send["stop"].to \in Node
            /\ stopMsg' = stopMsg \cup {send["stop"].to}
  <2>1. CASE SendGet(m) /\ UNCHANGED stopMsg
    BY <2>1, GetLife DEF SendGet, At
  <2>2. CASE SendGetAgain(m) /\ UNCHANGED stopMsg
    BY <2>2, GetLife DEF SendGetAgain, At
  <2>3. CASE SendWrite(m)
    <3>1. send[m] \in [to : Node, at : At]
      BY <1>0, <2>3 DEF SendWrite, Call, NoSend, At
    <3>2. /\ send' = [send EXCEPT ![m] = NoSend]
          /\ idle' = [idle EXCEPT ![send[m].to] = @ + 1]
          /\ \/ stopMsg' = stopMsg
             \/ m = "stop" /\ stopMsg' = stopMsg \cup {send[m].to}
      BY <2>3 DEF SendWrite
    <3>3. idle' \in [Node -> Nat]
      BY <1>0, <3>1, <3>2
    <3> QED BY <1>0, <3>1, <3>2, <3>3 DEF Call, Sender, NoSend
  <2> QED BY <2>1, <2>2, <2>3 DEF Send
<1>3. TypeOK'
  BY <1>1, <1>2 DEF LifeInv, TypeOK, Call, At, nodeVars, moduleVars, clientVars
<1>4. WaitsForNode' /\ StaysUpUntilStopped'
  BY <1>1 DEF LifeInv, WaitsForNode, StaysUpUntilStopped, nodeVars, moduleVars, clientVars
<1>5. StopIsSent'
  BY <1>1, <1>2 DEF LifeInv, StopIsSent, nodeVars, moduleVars, clientVars
<1> QED BY <1>3, <1>4, <1>5 DEF LifeInv

\* Calling Send with a node keeps the types of the calls.
LEMMA CallLife ==
  ASSUME LifeInv, NEW m \in Sender, NEW n \in Node, CallSend(m, n)
  PROVE  /\ send' \in [Sender -> Call] /\ idle' = idle
         /\ send'["stop"].to = IF m = "stop" THEN n ELSE send["stop"].to
<1>1. send \in [Sender -> Call]
  BY DEF LifeInv, TypeOK, Call, At
<1> QED BY <1>1 DEF CallSend, Sender, Call, At

\* The steps of the client's modules: StopNext moves past the node it calls
\* Send for, the others stop nobody.
LEMMA ClientStepLife ==
  ASSUME LifeInv, ClientStep \/ GenTick \/ Interrupt
  PROVE  LifeInv'
<1> USE NatK
<1>1. CASE StartNode
  BY <1>1 DEF StartNode, StartsLeft, LifeInv, TypeOK, WaitsForNode, StopIsSent,
              StaysUpUntilStopped, connVars, clientVars, Node
<1>2. CASE WaitNext
  BY <1>2 DEF WaitNext, LifeInv, TypeOK, WaitsForNode, StopIsSent,
              StaysUpUntilStopped, nodeVars, connVars, clientVars
<1>3. CASE WaitGivesUp
  BY <1>3 DEF WaitGivesUp, LifeInv, TypeOK, WaitsForNode, StopIsSent,
              StaysUpUntilStopped, nodeVars, connVars, clientVars
<1>4. CASE GenStop
  BY <1>4 DEF GenStop, LifeInv, TypeOK, WaitsForNode, StopIsSent,
              StaysUpUntilStopped, nodeVars, connVars, clientVars
<1>5. CASE GenTick
  BY <1>5 DEF GenTick, LifeInv, TypeOK, WaitsForNode, StopIsSent,
              StaysUpUntilStopped, nodeVars, connVars, clientVars
<1>6. CASE StopNext
  <2>1. stopPc \in Node /\ clientCtx /\ CallSend("stop", stopPc) /\ stopPc' = stopPc + 1
    BY <1>6 DEF StopNext, LifeInv, TypeOK, Node
  <2>2. UNCHANGED <<nodeVars, stopMsg, startPc, waitPc, genPc, ticks, toInject, clientVars>>
    BY <1>6 DEF StopNext
  <2>3. /\ send' \in [Sender -> Call] /\ idle' = idle
        /\ send'["stop"].to = stopPc
    BY <2>1, CallLife DEF Sender
  <2>4. TypeOK'
    BY <2>1, <2>2, <2>3 DEF LifeInv, TypeOK, Call, At, Node, nodeVars, clientVars
  <2>5. WaitsForNode' /\ StaysUpUntilStopped'
    BY <2>1, <2>2 DEF LifeInv, WaitsForNode, StaysUpUntilStopped, Node, nodeVars, clientVars
  <2>6. StopIsSent'
    BY <2>1, <2>2, <2>3 DEF LifeInv, StopIsSent, Node, nodeVars, clientVars
  <2> QED BY <2>4, <2>5, <2>6 DEF LifeInv
<1>7. ASSUME NEW n \in Node, GenSend(n)
      PROVE  LifeInv'
  <2>1. UNCHANGED <<nodeVars, stopMsg, startPc, waitPc, genPc, ticks, stopPc, clientVars>>
        /\ toInject' = toInject \ {n}
    BY <1>7 DEF GenSend
  <2>2. /\ send' \in [Sender -> Call] /\ idle' = idle
        /\ send'["stop"].to = send["stop"].to
    BY <1>7, CallLife DEF Sender, GenSend
  <2>3. TypeOK'
    BY <2>1, <2>2 DEF LifeInv, TypeOK, Call, At, nodeVars, clientVars
  <2>4. WaitsForNode' /\ StaysUpUntilStopped' /\ StopIsSent'
    BY <2>1, <2>2 DEF LifeInv, WaitsForNode, StaysUpUntilStopped, StopIsSent,
                      nodeVars, clientVars
  <2> QED BY <2>3, <2>4 DEF LifeInv
<1>8. CASE ClientExit
  <2>1. UNCHANGED <<nodeVars, stopMsg, moduleVars, idle, clientCtx, reachable>>
        /\ clientProc' = "exited" /\ send' = [m \in Sender |-> NoSend]
    BY <1>8 DEF ClientExit
  <2>2. TypeOK'
    BY <2>1 DEF LifeInv, TypeOK, nodeVars, moduleVars
  <2>3. WaitsForNode' /\ StaysUpUntilStopped'
    BY <2>1 DEF LifeInv, WaitsForNode, StaysUpUntilStopped, nodeVars, moduleVars
  <2>4. send'["stop"].to = K
    BY <2>1 DEF Sender, NoSend
  <2>5. StopIsSent'
    BY <2>1, <2>4 DEF LifeInv, StopIsSent, nodeVars, moduleVars
  <2> QED BY <2>2, <2>3, <2>5 DEF LifeInv
<1>9. CASE Interrupt
  BY <1>9 DEF Interrupt, Listens, LifeInv, TypeOK, WaitsForNode, StopIsSent,
              StaysUpUntilStopped, nodeVars, moduleVars, connVars
<1> QED BY <1>1, <1>2, <1>3, <1>4, <1>5, <1>6, <1>7, <1>8, <1>9, SendLife
        DEF ClientStep

\* The inductive step.
LEMMA NextLife == LifeInv /\ [Next]_vars => LifeInv'
<1> SUFFICES ASSUME LifeInv, [Next]_vars PROVE LifeInv'
  OBVIOUS
<1>1. CASE UNCHANGED vars
  BY <1>1 DEF vars, LifeInv, TypeOK, WaitsForNode, StopIsSent, StaysUpUntilStopped,
              nodeVars, moduleVars, connVars, clientVars
<1>2. CASE Next
  BY <1>2, NodeStepLife, ClientStepLife DEF Next
<1> QED BY <1>1, <1>2

LEMMA LifeInvariance == Spec => []LifeInv
BY InitLife, NextLife, PTL DEF Spec

\* Every reachable state of client and nodes is well typed: nodes are started
\* once each, no Send has a receiver that does not exist, and no pool is
\* asked for a connection it does not hold.
THEOREM LifeTyped == Spec => []TypeOK
<1>1. LifeInv => TypeOK
  BY DEF LifeInv
<1> QED BY <1>1, LifeInvariance, PTL

\* With any number of nodes, a node that did not fail at its start ends only
\* after the interrupt and after stopSystem has come to it.
THEOREM StaysUp == Spec => []StaysUpUntilStopped
<1>1. LifeInv => StaysUpUntilStopped
  BY DEF LifeInv
<1> QED BY <1>1, LifeInvariance, PTL
=============================================================================
