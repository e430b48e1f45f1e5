--------------------------- MODULE DsSystemProofs ---------------------------
(* The Dolev-Strong deployment, for any number of nodes and of malicious   *)
(* ones, any strings and any messages lost, late or reordered: its types,  *)
(* its sessions, which neither overlap nor hang and take a string once;    *)
(* as long as hops are in time and no Init is lost, that sets start empty  *)
(* and the client is shown the session; and, while the faults are          *)
(* Tolerated, agreement, validity and the abstract broadcast.              *)
EXTENDS DsSystem, StringRoundsProofs

\* The timers the proposer's life hangs on.
Signal == {"start", "done", "bbDone"}
StartTimer == [node |-> View, at |-> Last.start, what |-> "start"]
DoneTimer == [node |-> View, at |-> Last.start + N + 6, what |-> "done"]

\* An Init never goes to the view, whose proposer calls its own handler; an
\* Inject carries a string.
GoodMsg(m) ==
  /\ {"kind", "to", "due"} \subseteq DOMAIN m
  /\ m.kind = "Init" => m.to # View
  /\ m.kind = "Inject" => "val" \in DOMAIN m /\ m.val \in String
AllGood(msgs) == \A m \in msgs : GoodMsg(m)

ProposerTyped ==
  /\ now \in Nat /\ sessions \in Seq(Session) /\ stringQueue \in Seq(String)
  /\ pc \in {"poll", "start", "wait", "stopped"} /\ consensusDone \in {0, 1}
  /\ pc \in {"start", "wait"} => sessions # <<>>

\* There is one start timer, while the proposer waits for the start, and it
\* has not run out.
StartPending ==
  /\ \A t \in timers : t.what = "start" => pc = "start" /\ t = StartTimer
  /\ pc = "start" => StartTimer \in timers /\ now <= Last.start

\* The end of a session is signalled once: by the one done timer or by the
\* token that it has left.
OneSignal ==
  /\ pc # "stopped" =>
       \A t \in timers : t.what \in {"done", "bbDone"} =>
         pc \in {"start", "wait"} /\ consensusDone = 0 /\ t = DoneTimer
  /\ pc \in {"poll", "start"} => consensusDone = 0

\* When the proposer is free, or about to be, the last session had its time.
SessionHadTime ==
  (pc = "poll" /\ sessions # <<>>) \/ (pc = "wait" /\ consensusDone = 1)
    => now >= Last.start + N + 6

SessionInv ==
  /\ ProposerTyped /\ StartPending /\ OneSignal /\ SessionHadTime
  /\ AllGood(net) /\ SessionsDoNotOverlap

\* Losing messages and delaying them keeps what is known of them.
LEMMA WireKeeps ==
  ASSUME NEW before, NEW msgs, AllGood(before), AllGood(msgs), Wire(before, msgs)
  PROVE  AllGood(net')
<1>1. ASSUME NEW m, GoodMsg(m)
      PROVE  GoodMsg([m EXCEPT !.due = @ + 1])
  BY <1>1 DEF GoodMsg
<1>2. PICK sent, lost, slow :
        /\ sent \subseteq msgs /\ slow \subseteq sent
        /\ net' = before \cup (sent \ (lost \cup slow))
                         \cup {[m EXCEPT !.due = @ + 1] : m \in slow}
  BY Zenon DEF Wire
<1> SUFFICES ASSUME NEW m \in net' PROVE GoodMsg(m)
  BY DEF AllGood
<1>3. CASE m \in before \cup sent
  BY <1>2, <1>3 DEF AllGood
<1>4. CASE \E o \in slow : m = [o EXCEPT !.due = @ + 1]
  BY <1>1, <1>2, <1>4 DEF AllGood
<1> QED BY <1>2, <1>3, <1>4

\* A broadcast that is no Init, or comes from the view, is good.
LEMMA ToAllGood ==
  ASSUME NEW n, NEW m, {"kind", "to", "due"} \subseteq DOMAIN m,
         m.kind # "Inject", m.kind = "Init" => n = View
  PROVE  AllGood(ToAll(n, m))
<1> SUFFICES ASSUME NEW o \in Node \ {n} PROVE GoodMsg([m EXCEPT !.to = o])
  BY DEF AllGood, ToAll
<1> QED BY DEF GoodMsg, View

\* What a step that leaves the proposer alone has to keep.
LEMMA QuietStep ==
  ASSUME SessionInv, UNCHANGED <<now, proposerVars>>, AllGood(net'),
         \A t \in timers' : t \in timers \/ t.what \notin Signal,
         \A t \in timers : t.what = "start" => t \in timers'
  PROVE  SessionInv'
<1>0. UNCHANGED <<now, stringQueue, pc, consensusDone, sessions, Last, StartTimer, DoneTimer>>
  BY DEF proposerVars, Last, StartTimer, DoneTimer
<1>1. ProposerTyped'
  BY <1>0 DEF SessionInv, ProposerTyped
<1>2. StartPending'
  BY <1>0 DEF SessionInv, StartPending, Signal, StartTimer
<1>3. OneSignal'
  BY <1>0 DEF SessionInv, OneSignal, Signal
<1>4. SessionHadTime'
  BY <1>0 DEF SessionInv, SessionHadTime
<1>5. SessionsDoNotOverlap'
  BY <1>0 DEF SessionInv, SessionsDoNotOverlap
<1> QED BY <1>1, <1>2, <1>3, <1>4, <1>5 DEF SessionInv

LEMMA InitSession == Init => SessionInv
<1> SUFFICES ASSUME Init PROVE SessionInv
  OBVIOUS
<1>1. ProposerTyped
  BY EmptySeq DEF Init, RoundsInit, ProposerTyped
<1>2. StartPending /\ OneSignal /\ SessionHadTime /\ AllGood(net)
  BY DEF Init, RoundsInit, StartPending, OneSignal, SessionHadTime, AllGood
<1>3. SessionsDoNotOverlap
  BY DEF Init, RoundsInit, SessionsDoNotOverlap
<1> QED BY <1>1, <1>2, <1>3 DEF SessionInv

-----------------------------------------------------------------------------
(* The steps of the proposer.                                              *)

\* A queue is moved without the session's end being touched.
LEMMA QueueStep ==
  ASSUME SessionInv, UNCHANGED <<now, timers, pc, consensusDone, sessions>>,
         AllGood(net'), stringQueue' \in Seq(String)
  PROVE  SessionInv'
<1>0. UNCHANGED <<Last, StartTimer, DoneTimer>>
  BY DEF Last, StartTimer, DoneTimer
<1> QED BY <1>0 DEF SessionInv, ProposerTyped, StartPending, OneSignal,
                    SessionHadTime, SessionsDoNotOverlap

LEMMA CmdProposeKeeps ==
  ASSUME SessionInv, NEW s \in String, HandleCmdPropose(s)
  PROVE  SessionInv'
<1> DEFINE m == [kind |-> "Inject", to |-> View, val |-> s, due |-> Soon("Inject")]
<1>1. Wire(net, {m}) /\ UNCHANGED <<now, timers, stringQueue, pc, consensusDone, sessions>>
  BY DEF HandleCmdPropose
<1>2. AllGood({m})
  BY DEF AllGood, GoodMsg
<1>3. AllGood(net')
  BY <1>1, <1>2, WireKeeps DEF SessionInv
<1> QED BY <1>1, <1>3, QueueStep DEF SessionInv, ProposerTyped

LEMMA InjectKeeps ==
  ASSUME SessionInv, NEW m \in Inbox, HandleInject(m)
  PROVE  SessionInv'
<1>1. m \in net /\ m.val \in String
  BY DEF HandleInject, Inbox, SessionInv, AllGood, GoodMsg
<1>2. AllGood(net') /\ UNCHANGED <<now, timers, pc, consensusDone, sessions>>
  BY DEF HandleInject, SessionInv, AllGood
<1>3. stringQueue' \in Seq(String)
  BY <1>1, AppendProperties DEF HandleInject, SessionInv, ProposerTyped
<1> QED BY <1>2, <1>3, QueueStep

\* The token replaces the timer, which had run out.
LEMMA ConsensusDoneKeeps ==
  ASSUME SessionInv, NEW t \in Ripe, HandleConsensusDone(t)
  PROVE  SessionInv'
<1> USE NatN
<1>0. /\ t \in timers /\ t.at <= now /\ t.what \in {"done", "bbDone"}
      /\ timers' = timers \ {t} /\ consensusDone' = 1
      /\ UNCHANGED <<now, net, stringQueue, pc, sessions>>
  BY DEF HandleConsensusDone, Ripe, wireVars
<1>1. UNCHANGED <<Last, StartTimer, DoneTimer>>
  BY <1>0 DEF Last, StartTimer, DoneTimer
<1>2. ProposerTyped' /\ SessionsDoNotOverlap' /\ AllGood(net')
  BY <1>0 DEF SessionInv, ProposerTyped, SessionsDoNotOverlap
<1>3. StartPending'
  BY <1>0, <1>1 DEF SessionInv, StartPending, StartTimer
<1>4. CASE pc = "stopped"
  BY <1>0, <1>2, <1>3, <1>4 DEF SessionInv, OneSignal, SessionHadTime
<1>5. CASE pc # "stopped"
  <2>1. pc \in {"start", "wait"} /\ t = DoneTimer /\ sessions # <<>>
    BY <1>0, <1>5 DEF SessionInv, OneSignal, ProposerTyped
  <2>2. Last \in Session
    BY <2>1 DEF SessionInv, ProposerTyped, Last
  <2>3. now \in Nat /\ Last.start \in Nat
    BY <2>2 DEF SessionInv, ProposerTyped, Session
  <2>4. now >= Last.start + N + 6
    BY <1>0, <2>1, <2>3 DEF DoneTimer
  <2>5. pc = "wait"
    BY <2>1, <2>3, <2>4 DEF SessionInv, StartPending
  <2>6. OneSignal'
    BY <1>0, <2>1, <2>5 DEF SessionInv, OneSignal
  <2>7. SessionHadTime'
    BY <1>0, <1>1, <2>4 DEF SessionHadTime
  <2> QED BY <1>2, <1>3, <2>6, <2>7 DEF SessionInv
<1> QED BY <1>4, <1>5

LEMMA RunDoneKeeps ==
  ASSUME SessionInv, RunDone
  PROVE  SessionInv'
<1>0. /\ pc = "wait" /\ consensusDone = 1 /\ consensusDone' = 0 /\ pc' = "poll"
      /\ UNCHANGED <<now, timers, net, stringQueue, sessions>>
  BY DEF RunDone, wireVars
<1>1. UNCHANGED <<Last, StartTimer, DoneTimer>>
  BY <1>0 DEF Last, StartTimer, DoneTimer
<1> QED BY <1>0, <1>1 DEF SessionInv, ProposerTyped, StartPending, OneSignal,
                          SessionHadTime, SessionsDoNotOverlap

LEMMA RunStopKeeps ==
  ASSUME SessionInv, RunStop
  PROVE  SessionInv'
<1>0. /\ pc \in {"poll", "wait"} /\ pc' = "stopped"
      /\ timers' \subseteq timers /\ net' \subseteq net
      /\ UNCHANGED <<now, stringQueue, sessions, consensusDone>>
  BY DEF RunStop
<1> QED BY <1>0 DEF SessionInv, ProposerTyped, StartPending, OneSignal,
                    SessionHadTime, SessionsDoNotOverlap, AllGood

LEMMA ProposerKeeps ==
  ASSUME SessionInv, ProposerNext
  PROVE  SessionInv'
<1>1. CASE RunPoll
  BY <1>1, QueueStep DEF RunPoll, roundVars, wireVars, proposerVars, SessionInv, ProposerTyped
<1> QED BY <1>1, CmdProposeKeeps, InjectKeeps, ConsensusDoneKeeps, RunDoneKeeps,
           RunStopKeeps DEF ProposerNext

\* A session is started: the one before it had its time.
LEMMA ViewInitKeeps ==
  ASSUME SessionInv, ViewInit
  PROVE  SessionInv'
<1> USE NatN
<1> DEFINE e == [start |-> now + 1, val |-> Head(stringQueue)]
           init == [kind |-> "Init", to |-> Client, start |-> now + 1, due |-> now]
           start == [node |-> View, at |-> now + 1, what |-> "start"]
           done == [node |-> View, at |-> now + N + 7, what |-> "done"]
           commit == [node |-> View, at |-> (now + 1) + F + 1, what |-> "dsCommit"]
<1>0. /\ pc = "poll" /\ pc' = "start" /\ stringQueue # <<>>
      /\ Wire(net, ToAll(View, init) \cup {init})
      /\ timers' = timers \cup {commit, done, start}
      /\ sessions' = Append(sessions, e)
      /\ stringQueue' = Tail(stringQueue)
      /\ UNCHANGED <<now, consensusDone>>
  BY DEF ViewInit, RunInit, DsTimers
<1>1. now \in Nat /\ e \in Session /\ stringQueue' \in Seq(String)
  BY <1>0, HeadTailProperties DEF SessionInv, ProposerTyped, Session
<1>2. /\ sessions' \in Seq(Session) /\ sessions' # <<>> /\ Last' = e
      /\ Len(sessions') = Len(sessions) + 1
      /\ \A i \in 1..Len(sessions) : sessions'[i] = sessions[i]
  BY <1>0, <1>1, LastOfAppend DEF SessionInv, ProposerTyped
<1>3. Last'.start = now + 1 /\ StartTimer' = start /\ DoneTimer' = done
  BY <1>1, <1>2 DEF StartTimer, DoneTimer
<1>4. ProposerTyped'
  BY <1>0, <1>1, <1>2 DEF SessionInv, ProposerTyped
<1>5. StartPending'
  BY <1>0, <1>1, <1>3 DEF SessionInv, StartPending
<1>6. OneSignal'
  BY <1>0, <1>3 DEF SessionInv, OneSignal
<1>7. SessionHadTime'
  BY <1>0 DEF SessionHadTime
<1>8. AllGood(net')
  <2>1. AllGood(ToAll(View, init))
    BY ToAllGood DEF View
  <2>2. GoodMsg(init)
    BY DEF GoodMsg, Client, View
  <2>3. AllGood(ToAll(View, init) \cup {init})
    BY <2>1, <2>2 DEF AllGood
  <2> QED BY <1>0, <2>3, WireKeeps DEF SessionInv
<1>9. SessionsDoNotOverlap'
  <2> SUFFICES ASSUME NEW i \in 2..Len(sessions')
               PROVE  sessions'[i].start >= sessions'[i - 1].start + N + 7
    BY DEF SessionsDoNotOverlap
  <2>0. Len(sessions) \in Nat
    BY LenProperties DEF SessionInv, ProposerTyped
  <2>1. CASE i \in 2..Len(sessions)
    BY <1>2, <2>0, <2>1 DEF SessionInv, SessionsDoNotOverlap
  <2>2. CASE i = Len(sessions) + 1
    <3>1. sessions # <<>> /\ sessions'[i - 1] = Last /\ sessions'[i] = e
      BY <1>0, <1>2, <2>0, <2>2 DEF Last, SessionInv, ProposerTyped
    <3>2. Last \in Session
      BY <3>1 DEF SessionInv, ProposerTyped, Last
    <3>3. Last.start \in Nat
      BY <3>2 DEF Session
    <3>4. now >= Last.start + N + 6
      BY <1>0, <3>1 DEF SessionInv, SessionHadTime
    <3> QED BY <1>1, <3>1, <3>3, <3>4
  <2> QED BY <1>2, <2>0, <2>1, <2>2
<1> QED BY <1>4, <1>5, <1>6, <1>7, <1>8, <1>9 DEF SessionInv

LEMMA ViewProposeKeeps ==
  ASSUME SessionInv, ViewPropose
  PROVE  SessionInv'
<1> DEFINE m == [kind |-> "Propose", to |-> Client, due |-> now,
                 val |-> IF View \in malicious THEN Bad ELSE Last.val]
<1>1. PICK t \in Ripe :
        /\ t.what = "start" /\ timers' = (timers \ {t}) \cup {} /\ pc' = "wait"
        /\ Wire(net, {p \in ToAll(View, m) : View \in malicious => p.to \in {1, 2}})
        /\ UNCHANGED <<now, stringQueue, consensusDone, sessions>>
  BY DEF ViewPropose, RunPropose
<1>2. t \in timers /\ pc = "start" /\ t = StartTimer
  BY <1>1 DEF Ripe, SessionInv, StartPending
<1>3. UNCHANGED <<Last, StartTimer, DoneTimer>>
  BY <1>1 DEF Last, StartTimer, DoneTimer
<1>4. AllGood(net')
  <2>1. AllGood(ToAll(View, m))
    BY ToAllGood
  <2>2. AllGood({p \in ToAll(View, m) : View \in malicious => p.to \in {1, 2}})
    BY <2>1 DEF AllGood
  <2> QED BY <1>1, <2>2, WireKeeps DEF SessionInv
<1>5. ProposerTyped' /\ SessionsDoNotOverlap'
  BY <1>1, <1>2 DEF SessionInv, ProposerTyped, SessionsDoNotOverlap
<1>6. StartPending' /\ OneSignal' /\ SessionHadTime'
  BY <1>1, <1>2, <1>3 DEF SessionInv, StartPending, OneSignal, SessionHadTime
<1> QED BY <1>4, <1>5, <1>6 DEF SessionInv

-----------------------------------------------------------------------------
(* The steps of the nodes and of the client.                               *)

\* A forward is good, sent at once or left to a handler that spins.
LEMMA ForwardGood ==
  ASSUME NEW n, NEW val, NEW sigs
  PROVE  AllGood(ToAll(n, ForwardMsg(n, val, sigs)))
BY ToAllGood DEF ForwardMsg

LEMMA ForwardOrSpinKeeps ==
  ASSUME NEW n, NEW val, NEW sigs, NEW netLeft, NEW tasksLeft, AllGood(netLeft),
         ForwardOrSpin(n, val, sigs, netLeft, tasksLeft, {})
  PROVE  AllGood(net')
<1>1. CASE Wire(netLeft, {} \cup ToAll(n, ForwardMsg(n, val, sigs + 1)))
  <2>1. AllGood({} \cup ToAll(n, ForwardMsg(n, val, sigs + 1)))
    BY ForwardGood DEF AllGood
  <2> QED BY <1>1, <2>1, WireKeeps
<1>2. CASE Wire(netLeft, {})
  <2>1. AllGood({})
    BY DEF AllGood
  <2> QED BY <1>2, <2>1, WireKeeps
<1> QED BY <1>1, <1>2, Zenon DEF ForwardOrSpin

LEMMA DsKeeps ==
  ASSUME SessionInv, DsNext
  PROVE  SessionInv'
<1>0. UNCHANGED <<now, proposerVars>>
  BY DEF DsNext
<1>1. ASSUME NEW m \in Inbox, DsHandleForward(m)
      PROVE  SessionInv'
  <2>1. net' \subseteq net /\ timers' = timers
    BY <1>1 DEF DsHandleForward
  <2>2. AllGood(net')
    BY <2>1 DEF SessionInv, AllGood
  <2> QED BY <1>0, <2>1, <2>2, QuietStep
<1>2. ASSUME NEW k, DsAdd(k)
      PROVE  SessionInv'
  <2>1. AllGood(net')
    BY <1>2, ForwardOrSpinKeeps DEF DsAdd, SessionInv
  <2>2. timers' = timers
    BY <1>2 DEF DsAdd
  <2> QED BY <1>0, <2>1, <2>2, QuietStep
<1>3. ASSUME NEW k, DsLeaveLoop(k)
      PROVE  SessionInv'
  <2>1. AllGood(net')
    BY <1>3, ForwardGood, WireKeeps DEF DsLeaveLoop, SessionInv
  <2>2. timers' = timers
    BY <1>3 DEF DsLeaveLoop
  <2> QED BY <1>0, <2>1, <2>2, QuietStep
<1>4. ASSUME NEW t \in Ripe, DsCommit(t)
      PROVE  SessionInv'
  <2>1. timers' = timers \ {t} /\ t.what = "dsCommit" /\ net' = net
    BY <1>4 DEF DsCommit, wireVars
  <2> QED BY <1>0, <2>1, QuietStep DEF SessionInv
<1> QED BY <1>1, <1>2, <1>3, <1>4 DEF DsNext

\* The Init of another node sets no timer of the proposer.
LEMMA HandleInitKeeps ==
  ASSUME SessionInv, NEW m \in Inbox, HandleInit(m)
  PROVE  SessionInv'
<1>1. m \in net /\ m.to # View
  BY DEF HandleInit, Inbox, SessionInv, AllGood, GoodMsg
<1>2. \A t \in timers' : t \in timers \/ t.what \notin Signal
  BY <1>1 DEF HandleInit, DsTimers, Signal
<1>3. timers \subseteq timers' /\ UNCHANGED <<now, proposerVars>> /\ net' \subseteq net
  BY DEF HandleInit
<1>4. AllGood(net')
  BY <1>3 DEF SessionInv, AllGood
<1> QED BY <1>2, <1>3, <1>4, QuietStep

LEMMA HandleProposeKeeps ==
  ASSUME SessionInv, NEW m \in Inbox, HandlePropose(m)
  PROVE  SessionInv'
<1>1. AllGood(net \ {m})
  BY DEF SessionInv, AllGood
<1>2. AllGood(net')
  BY <1>1, ForwardOrSpinKeeps DEF HandlePropose, DsHandlePropose
<1> QED BY <1>2, QuietStep DEF HandlePropose

LEMMA ClientKeeps ==
  ASSUME SessionInv,
         \/ \E m \in Inbox : ClientInit(m) \/ HandleQuery(m) \/ ClientReply(m)
         \/ \E t \in Ripe : ClientQuery(t)
  PROVE  SessionInv'
<1>0. ASSUME NEW m PROVE AllGood(net \ {m})
  BY DEF SessionInv, AllGood
<1>1. ASSUME NEW m \in Inbox, ClientInit(m)
      PROVE  SessionInv'
  BY <1>0, <1>1, QuietStep DEF ClientInit, Signal
<1>2. ASSUME NEW m \in Inbox, HandleQuery(m)
      PROVE  SessionInv'
  <2> DEFINE o == [kind |-> "Reply", to |-> Client, val |-> commitValue[m.to],
                   due |-> Soon("Reply")]
  <2>1. AllGood({o})
    BY DEF AllGood, GoodMsg
  <2>2. Wire(net \ {m}, {o}) /\ UNCHANGED <<now, timers, proposerVars>>
    BY <1>2 DEF HandleQuery
  <2>3. AllGood(net')
    BY <1>0, <2>1, <2>2, WireKeeps
  <2> QED BY <2>2, <2>3, QuietStep
<1>3. ASSUME NEW m \in Inbox, ClientReply(m)
      PROVE  SessionInv'
  BY <1>0, <1>3, QuietStep DEF ClientReply
<1>4. ASSUME NEW t \in Ripe, ClientQuery(t)
      PROVE  SessionInv'
  <2> DEFINE o == [kind |-> "Query", to |-> View, due |-> Soon("Query")]
  <2>1. AllGood({o})
    BY DEF AllGood, GoodMsg
  <2>2. /\ Wire(net, {o}) /\ UNCHANGED <<now, proposerVars>>
        /\ timers' = timers \ {t} /\ t.what = "query"
    BY <1>4 DEF ClientQuery
  <2>3. AllGood(net')
    BY <2>1, <2>2, WireKeeps DEF SessionInv
  <2> QED BY <2>2, <2>3, QuietStep
<1> QED BY <1>1, <1>2, <1>3, <1>4

\* The clock does not pass a start timer.
LEMMA TickKeeps ==
  ASSUME SessionInv, Tick
  PROVE  SessionInv'
<1> USE NatN
<1>0. /\ now' = now + 1 /\ now \in Nat
      /\ UNCHANGED <<timers, net, stringQueue, pc, consensusDone, sessions>>
  BY DEF Tick, wireVars, proposerVars, SessionInv, ProposerTyped
<1>1. UNCHANGED <<Last, StartTimer, DoneTimer>>
  BY <1>0 DEF Last, StartTimer, DoneTimer
<1>2. sessions # <<>> => Last.start \in Nat
  <2>1. sessions # <<>> => Last \in Session
    BY DEF SessionInv, ProposerTyped, Last
  <2> QED BY <2>1 DEF Session
<1>3. ProposerTyped' /\ SessionsDoNotOverlap'
  BY <1>0 DEF SessionInv, ProposerTyped, SessionsDoNotOverlap
<1>4. StartPending'
  <2>1. pc = "start" => now < Last.start
    BY <1>0, <1>2 DEF Tick, TickEnabled, SessionInv, StartPending, StartTimer, ProposerTyped
  <2> QED BY <1>0, <1>1, <1>2, <2>1 DEF SessionInv, StartPending, ProposerTyped
<1>5. OneSignal'
  BY <1>0, <1>1 DEF SessionInv, OneSignal
<1>6. SessionHadTime'
  BY <1>0, <1>1, <1>2 DEF SessionInv, SessionHadTime, ProposerTyped
<1> QED BY <1>0, <1>3, <1>4, <1>5, <1>6 DEF SessionInv

\* The inductive step.
LEMMA NextSession == SessionInv /\ [Next]_vars => SessionInv'
<1> SUFFICES ASSUME SessionInv, [Next]_vars PROVE SessionInv'
  OBVIOUS
<1>1. CASE UNCHANGED vars
  BY <1>1, QueueStep DEF vars, roundVars, wireVars, proposerVars, SessionInv, ProposerTyped
<1>2. CASE Next
  BY <1>2, ProposerKeeps, DsKeeps, TickKeeps, ViewInitKeeps, ViewProposeKeeps,
     HandleInitKeeps, HandleProposeKeeps, ClientKeeps, Zenon DEF Next
<1> QED BY <1>1, <1>2

LEMMA SessionInvariance == Spec => []SessionInv
BY InitSession, NextSession, PTL DEF Spec

\* Dolev-Strong: whatever is lost, late or reordered, and however many nodes
\* are malicious, the proposer starts a session only when the one before it
\* had its N + 7 ticks.
THEOREM SessionsApart == Spec => []SessionsDoNotOverlap
<1>1. SessionInv => SessionsDoNotOverlap
  BY DEF SessionInv
<1> QED BY <1>1, SessionInvariance, PTL

-----------------------------------------------------------------------------
(* Dolev-Strong agrees: for any interleaving of handlers, timers and hops, *)
(* as long as every hop takes less than a tick and no Init is lost, sets   *)
(* start empty and the client is shown the session, whatever else is lost; *)
(* if fewer messages are lost than honest nodes are proposed to, the       *)
(* honest nodes commit one value per session, an honest view's string.     *)

(***************************************************************************)
(* The inductive invariant: every message, task and timer belongs to the   *)
(* running session and carries its proposal.                               *)
(***************************************************************************)

\* What the proof is about: no hop takes a tick or more, and every Init
\* arrives.
Prompt == Synchronous /\ "Init" \notin setup.lossKind

Has(n) == Proposal \in extrSet[n]
Holders == {n \in Node : Has(n)}

GoodInit(m) ==
  /\ m.kind = "Init" /\ pc = "start" /\ m.to \in Backups \cup {Client}
  /\ m.start = Start /\ m.due = Start - 1
GoodPropose(m) ==
  /\ m.kind = "Propose" /\ pc # "start" /\ m.to \in Targets
  /\ m.val = Proposal /\ m.due = Start
\* A list of s signatures is s - 1 hops from the view, each at most a tick,
\* and s - 1 nodes have extracted its value.
GoodForward(m) ==
  /\ m.kind = "Forward" /\ pc # "start" /\ Targets # {}
  /\ m.to \in Backups \cup {View} /\ m.from # m.to
  /\ m.val = Proposal /\ m.sigs \in Nat /\ m.sigs >= 2
  /\ m.due <= Start + m.sigs - 1 /\ Cardinality(Holders) >= m.sigs - 1
GoodQuery(m) ==
  /\ m.kind = "Query" /\ m.to = View
  /\ View \in Honest => /\ pc # "start" /\ m.due <= Start + F + 2
                        /\ commitValue[View] = Last.val
GoodReply(m) ==
  /\ m.kind = "Reply"
  /\ View \in Honest => /\ pc # "start" /\ m.due <= Start + F + 3
                        /\ m.val = Last.val
Expected(m) ==
  /\ m.due \in Nat /\ m.due >= now
  /\ \/ m.kind = "Inject"
     \/ /\ sessions # <<>>
        /\ GoodInit(m) \/ GoodPropose(m) \/ GoodForward(m) \/ GoodQuery(m) \/ GoodReply(m)
NetOK == \A m \in net : Expected(m)

\* No handler spins: a forward comes before the round of its signatures is
\* over.
GoodTask(k) ==
  /\ sessions # <<>> /\ pc # "start" /\ Targets # {}
  /\ k.at = "add" /\ k.for = "Forward" /\ k.val = Proposal
  /\ k.node \in Backups \/ (k.node = View /\ View \in malicious)
  /\ k.sigs \in Nat /\ k.sigs >= 2 /\ now <= Start + k.sigs - 1
  /\ Cardinality(Holders \ {k.node}) >= k.sigs - 1
TasksOK == \A k \in tasks : GoodTask(k)

GoodTimer(t) ==
  \/ t.what \in {"start", "done"}
  \/ /\ sessions # <<>> /\ t.at = Start + F + 1 /\ t.at >= now
     /\ \/ t.what = "dsCommit" /\ t.node \in Backups \cup {View}
           /\ startTime[t.node] = Start
        \/ t.what = "query" /\ t.node = Client
TimersOK == \A t \in timers : GoodTimer(t)

NodesTyped ==
  /\ startTime \in [Node -> Nat] /\ extrSet \in [Node -> SUBSET Value]
  /\ commitValue \in [Node -> Value \cup {None}]

\* Every honest node knows the session or has its Init on the way.
InitComing(n) == \E m \in net : m.kind = "Init" /\ m.to = n
StartsKnown ==
  /\ sessions = <<>> => \A n \in Backups : startTime[n] = 0
  /\ sessions # <<>> =>
       /\ startTime[View] = Start
       /\ \A n \in Backups : startTime[n] = Start \/ InitComing(n)

\* A node that knows the session has extracted nothing but its proposal.
SetsOK ==
  sessions # <<>> =>
    /\ \A n \in Backups : startTime[n] = Start =>
         extrSet[n] \subseteq IF pc = "start" \/ Targets = {} THEN {} ELSE {Proposal}
    /\ View \in Honest => extrSet[View] = IF pc = "start" THEN {} ELSE {Proposal}

Proposed(n) == \E m \in net : m.kind = "Propose" /\ m.to = n
Handling(n) == \E k \in tasks : k.node = n /\ k.sigs = 2
ForwardComing(n) == \E m \in net : m.kind = "Forward" /\ m.to = n /\ m.sigs = 2
Served(n) == Has(n) \/ Proposed(n) \/ Handling(n) \/ ForwardComing(n)
\* The targets whose proposal has arrived or is lost.
Past == {p \in Targets : ~Proposed(p)}

\* A node that is not served has lost a message to or from every target
\* whose proposal is no longer on its way.
AllServed ==
  sessions # <<>> /\ pc # "start" /\ Targets # {} =>
    /\ faults = 0 => \A n \in Targets : Has(n) \/ Proposed(n)
    /\ \A n \in Backups : Served(n) \/ faults >= Cardinality(Past)

CommitTimer(n) == [node |-> n, at |-> Start + F + 1, what |-> "dsCommit"]
ViewCommits ==
  sessions # <<>> /\ pc # "stopped" /\ View \in Honest =>
    CommitTimer(View) \in timers \/ commitValue[View] = Last.val

\* What the honest nodes make of a session.
Outcome(s) ==
  IF View \in Honest THEN s.val ELSE IF Targets = {} THEN Zero ELSE Bad
DecidedOK ==
  Tolerated =>
    \A d \in decided : d.node \in Honest =>
      \E i \in 1..Len(sessions) : d.start = sessions[i].start /\ d.val = Outcome(sessions[i])
StartsDiffer ==
  \A i, j \in 1..Len(sessions) : i < j => sessions[i].start < sessions[j].start
ResultsOK ==
  \A r \in results : /\ r.session \in 1..Len(sessions)
                     /\ View \in Honest => r.val = sessions[r.session].val

Good ==
  /\ NetOK /\ TasksOK /\ TimersOK /\ NodesTyped /\ StartsKnown /\ SetsOK
  /\ AllServed /\ ViewCommits /\ DecidedOK /\ StartsDiffer /\ ResultsOK

DsInv == SessionInv /\ Counted /\ (Prompt => Good)

-----------------------------------------------------------------------------
(* The network of a prompt step.                                           *)

\* Nothing undoes a fault.
LEMMA StepCounts ==
  ASSUME Counted, [Next]_vars
  PROVE  Counted' /\ setup' = setup /\ faults' >= faults /\ lates' >= lates
<1>1. ASSUME UNCHANGED <<setup, faults, lates>>
      PROVE  Counted' /\ setup' = setup /\ faults' >= faults /\ lates' >= lates
  BY <1>1 DEF Counted
<1>2. ASSUME setup' = setup, NEW before, NEW msgs, IsFiniteSet(msgs), Wire(before, msgs)
      PROVE  Counted' /\ setup' = setup /\ faults' >= faults /\ lates' >= lates
  BY <1>2, WireGrows DEF Counted
<1>3. ASSUME NEW n, NEW val, NEW sigs, NEW before, NEW left, setup' = setup,
             ForwardOrSpin(n, val, sigs, before, left, {})
      PROVE  Counted' /\ setup' = setup /\ faults' >= faults /\ lates' >= lates
  <2>1. CASE Wire(before, {} \cup ToAll(n, ForwardMsg(n, val, sigs + 1)))
    BY <1>2, <1>3, <2>1, ToAllFinite
  <2>2. CASE Wire(before, {})
    BY <1>2, <1>3, <2>2, FS_EmptySet
  <2> QED BY <1>3, <2>1, <2>2, Zenon DEF ForwardOrSpin
<1>4. CASE UNCHANGED vars
  BY <1>1, <1>4 DEF vars, roundVars, wireVars
<1>5. ASSUME NEW s \in String, HandleCmdPropose(s)
      PROVE  Counted' /\ setup' = setup /\ faults' >= faults /\ lates' >= lates
  BY <1>2, <1>5, FS_Singleton DEF HandleCmdPropose
<1>6. CASE ProposerNext
  BY <1>1, <1>5, <1>6 DEF ProposerNext, HandleInject, RunPoll, roundVars,
     HandleConsensusDone, RunDone, RunStop, wireVars
<1>7. CASE DsNext
  <2>1. ASSUME NEW k, DsAdd(k), setup' = setup
        PROVE  Counted' /\ setup' = setup /\ faults' >= faults /\ lates' >= lates
    BY <1>3, <2>1 DEF DsAdd
  <2>2. ASSUME NEW k, DsLeaveLoop(k), setup' = setup
        PROVE  Counted' /\ setup' = setup /\ faults' >= faults /\ lates' >= lates
    BY <1>2, <2>2, ToAllFinite DEF DsLeaveLoop
  <2> QED BY <1>1, <1>7, <2>1, <2>2 DEF DsNext, DsHandleForward, DsCommit, wireVars
<1>8. CASE Tick
  BY <1>1, <1>8 DEF Tick, wireVars
<1>9. CASE ViewInit
  <2> DEFINE init == [kind |-> "Init", to |-> Client, start |-> now + 1, due |-> now]
  <2>1. Wire(net, ToAll(View, init) \cup {init}) /\ setup' = setup
    BY <1>9 DEF ViewInit, RunInit
  <2>2. IsFiniteSet(ToAll(View, init) \cup {init})
    BY ToAllFinite, FS_AddElement
  <2> QED BY <1>2, <2>1, <2>2
<1>10. CASE ViewPropose
  <2> DEFINE m == [kind |-> "Propose", to |-> Client, due |-> now,
                   val |-> IF View \in malicious THEN Bad ELSE Last.val]
             msgs == {p \in ToAll(View, m) : View \in malicious => p.to \in {1, 2}}
  <2>1. Wire(net, msgs) /\ setup' = setup
    BY <1>10 DEF ViewPropose, RunPropose
  <2>2. IsFiniteSet(msgs)
    BY ToAllFinite, FS_Subset
  <2> QED BY <1>2, <2>1, <2>2
<1>11. ASSUME NEW m, HandleInit(m) \/ HandlePropose(m) \/ ClientInit(m) \/ ClientReply(m)
       PROVE  Counted' /\ setup' = setup /\ faults' >= faults /\ lates' >= lates
  BY <1>1, <1>3, <1>11 DEF HandleInit, HandlePropose, DsHandlePropose, ClientInit, ClientReply
<1>12. ASSUME NEW m, HandleQuery(m)
       PROVE  Counted' /\ setup' = setup /\ faults' >= faults /\ lates' >= lates
  BY <1>2, <1>12, FS_Singleton DEF HandleQuery
<1>13. ASSUME NEW t, ClientQuery(t)
       PROVE  Counted' /\ setup' = setup /\ faults' >= faults /\ lates' >= lates
  BY <1>2, <1>13, FS_Singleton DEF ClientQuery
<1> QED BY <1>4, <1>6, <1>7, <1>8, <1>9, <1>10, <1>11, <1>12, <1>13 DEF Next

LEMMA TargetsFinite ==
  /\ IsFiniteSet(Targets) /\ Cardinality(Targets) \in Nat
  /\ IsFiniteSet(Past) /\ Cardinality(Past) \in Nat
<1>1. Targets \in SUBSET Node /\ Past \in SUBSET Node
  BY DEF Targets, Backups, Honest, Past
<1> QED BY <1>1, Places, FS_Subset, FS_CardinalityType

\* So a step to a prompt or a tolerated state starts in one.
LEMMA PromptBefore ==
  ASSUME Counted, [Next]_vars
  PROVE  /\ Prompt' => Prompt
         /\ Tolerated' => Tolerated
         /\ UNCHANGED <<setup, Targets, Backups, Honest>>
<1>1. Counted' /\ setup' = setup /\ faults' >= faults /\ lates' >= lates
  BY StepCounts
<1>2. UNCHANGED <<setup, Targets, Backups, Honest>>
  BY <1>1 DEF Targets, Backups, Honest, malicious
<1>3. Prompt' => Prompt
  BY <1>1 DEF Prompt, Synchronous, Counted
<1>4. ASSUME Tolerated' PROVE Tolerated
  <2>1. Targets = {} \/ faults < Cardinality(Targets)
    BY <1>1, <1>2, <1>4, TargetsFinite DEF Tolerated, Counted
  <2>2. F >= 1 \/ (View \notin malicious /\ faults = 0)
    BY <1>1, <1>4 DEF Tolerated, Counted, malicious
  <2> QED BY <1>1, <1>4, <2>1, <2>2 DEF Tolerated
<1> QED BY <1>2, <1>3, <1>4

\* What every lemma on a step of the running system starts from.
PromptStep ==
  /\ SessionInv /\ SessionInv' /\ Counted /\ Counted' /\ Prompt /\ Prompt' /\ Good
  /\ setup' = setup /\ faults' >= faults /\ (Tolerated' => Tolerated)

LEMMA SessionFacts ==
  ASSUME SessionInv, sessions # <<>>
  PROVE  /\ now \in Nat /\ Last \in Session /\ Start \in Nat /\ Last.val \in String
         /\ Len(sessions) \in Nat /\ Len(sessions) >= 1
         /\ Last = sessions[Len(sessions)]
<1>1. Last \in Session /\ now \in Nat /\ Len(sessions) \in Nat /\ Len(sessions) >= 1
  BY DEF SessionInv, ProposerTyped, Last
<1> QED BY <1>1 DEF Session, Start, Last

LEMMA SameSession ==
  ASSUME UNCHANGED <<setup, sessions>>
  PROVE  UNCHANGED <<malicious, Honest, Backups, Targets, Last, Start, Proposal>>
BY DEF malicious, Honest, Backups, Targets, Last, Start, Proposal

\* Sets of nodes are counted.
LEMMA NodesCount ==
  ASSUME NEW S \in SUBSET Node
  PROVE  /\ IsFiniteSet(S) /\ Cardinality(S) \in Nat /\ Cardinality(S) <= N
         /\ \A T \in SUBSET S : Cardinality(T) <= Cardinality(S)
<1>1. IsFiniteSet(Node) /\ Cardinality(Node) = N
  <2>1. N \in Nat /\ N >= 1
    BY NatN
  <2>2. IsFiniteSet(0..N - 1) /\ Cardinality(0..N - 1) = IF 0 > N - 1 THEN 0 ELSE (N - 1) - 0 + 1
    BY <2>1, FS_Interval
  <2> QED BY <2>1, <2>2 DEF Node
<1>2. IsFiniteSet(S) /\ Cardinality(S) <= Cardinality(Node)
  BY <1>1, FS_Subset
<1>3. Cardinality(S) \in Nat
  BY <1>2, FS_CardinalityType
<1>4. ASSUME NEW T \in SUBSET S PROVE Cardinality(T) <= Cardinality(S)
  BY <1>2, FS_Subset
<1> QED BY <1>1, <1>2, <1>3, <1>4

\* Sets that grow are those of as many holders.
LEMMA HoldersGrow ==
  ASSUME Proposal' = Proposal, \A n \in Node : extrSet[n] \subseteq extrSet'[n]
  PROVE  /\ Cardinality(Holders) \in Nat /\ Cardinality(Holders') \in Nat
         /\ Cardinality(Holders) <= Cardinality(Holders')
         /\ \A n : /\ Cardinality(Holders \ {n}) \in Nat
                   /\ Cardinality(Holders' \ {n}) \in Nat
                   /\ Cardinality(Holders \ {n}) <= Cardinality(Holders' \ {n})
<1>1. Holders \in SUBSET Holders' /\ Holders' \in SUBSET Node /\ Holders \in SUBSET Node
  BY DEF Holders, Has
<1>2. /\ Cardinality(Holders) \in Nat /\ Cardinality(Holders') \in Nat
      /\ Cardinality(Holders) <= Cardinality(Holders')
  BY <1>1, NodesCount
<1>3. ASSUME NEW n
      PROVE  /\ Cardinality(Holders \ {n}) \in Nat /\ Cardinality(Holders' \ {n}) \in Nat
             /\ Cardinality(Holders \ {n}) <= Cardinality(Holders' \ {n})
  <2>1. /\ Holders \ {n} \in SUBSET (Holders' \ {n}) /\ Holders' \ {n} \in SUBSET Node
        /\ Holders \ {n} \in SUBSET Node
    BY <1>1
  <2> QED BY <2>1, NodesCount
<1> QED BY <1>2, <1>3

\* A message that was expected still is, while the clock and the session
\* stand still and no set shrinks.
LEMMA ExpectedKeeps ==
  ASSUME PromptStep, UNCHANGED <<now, sessions>>, pc' = "start" <=> pc = "start",
         pc = "start" \/ \A n \in Node : extrSet[n] \subseteq extrSet'[n],
         View \in Honest /\ commitValue[View] = Last.val => commitValue'[View] = Last.val,
         NEW m, Expected(m)
  PROVE  Expected(m)'
<1>1. UNCHANGED <<malicious, Honest, Backups, Targets, Last, Start, Proposal>>
  BY SameSession DEF PromptStep
<1>2. GoodInit(m) => GoodInit(m)'
  BY <1>1 DEF GoodInit
<1>3. GoodPropose(m) => GoodPropose(m)'
  BY <1>1 DEF GoodPropose
<1>4. GoodForward(m) => GoodForward(m)'
  <2> SUFFICES ASSUME GoodForward(m) PROVE GoodForward(m)'
    OBVIOUS
  <2>1. Cardinality(Holders') >= m.sigs - 1
    BY <1>1, HoldersGrow DEF GoodForward
  <2> QED BY <1>1, <2>1 DEF GoodForward
<1>5. GoodQuery(m) => GoodQuery(m)'
  BY <1>1 DEF GoodQuery
<1>6. GoodReply(m) => GoodReply(m)'
  BY <1>1 DEF GoodReply
<1> QED BY <1>2, <1>3, <1>4, <1>5, <1>6 DEF Expected

LEMMA TimersStay ==
  ASSUME PromptStep, UNCHANGED <<now, startTime, sessions>>, timers' \subseteq timers
  PROVE  TimersOK'
<1>1. UNCHANGED <<malicious, Honest, Backups, Targets, Last, Start, Proposal>>
  BY SameSession DEF PromptStep
<1> QED BY <1>1 DEF PromptStep, Good, TimersOK, GoodTimer

\* Nobody is served less than before.
LEMMA ServedStep ==
  ASSUME PromptStep, sessions' = sessions, pc' = "start" <=> pc = "start", Past' = Past,
         \A n \in Backups : Served(n) => Served(n)',
         \A n \in Backups : Has(n) \/ Proposed(n) => Has(n)' \/ Proposed(n)'
  PROVE  AllServed'
<1>0. UNCHANGED <<malicious, Honest, Backups, Targets, Last, Start, Proposal>>
  BY SameSession DEF PromptStep
<1>1. Targets \subseteq Backups
  BY DEF Targets
<1>2. faults \in Nat /\ faults' \in Nat /\ faults' >= faults /\ Cardinality(Past) \in Nat
  BY TargetsFinite DEF PromptStep, Counted
<1> SUFFICES ASSUME sessions # <<>>, pc # "start", Targets # {}
             PROVE  /\ faults' = 0 => \A n \in Targets : Has(n)' \/ Proposed(n)'
                    /\ \A n \in Backups : Served(n)' \/ faults' >= Cardinality(Past')
  BY <1>0 DEF AllServed
<1>3. /\ faults = 0 => \A n \in Targets : Has(n) \/ Proposed(n)
      /\ \A n \in Backups : Served(n) \/ faults >= Cardinality(Past)
  BY DEF PromptStep, Good, AllServed
<1>4. ASSUME faults' = 0, NEW n \in Targets PROVE Has(n)' \/ Proposed(n)'
  BY <1>1, <1>2, <1>3, <1>4
<1>5. ASSUME NEW n \in Backups PROVE Served(n)' \/ faults' >= Cardinality(Past')
  BY <1>2, <1>3, <1>5
<1> QED BY <1>4, <1>5

\* A step beside the protocol: the sets, the proposals and forwards on their
\* way to honest nodes and the handlers of these stay as they are.
LEMMA SideStep ==
  ASSUME PromptStep, UNCHANGED <<startTime, sessions, extrSet>>,
         now' = now \/ tasks = {}, pc' = "start" <=> pc = "start",
         \A m \in net : m.to \in Backups /\ m.kind \in {"Init", "Propose", "Forward"}
                          => m \in net',
         \A m \in net' : m.kind = "Propose" => m \in net,
         tasks' \subseteq tasks, \A k \in tasks : k.node \in Backups => k \in tasks'
  PROVE  TasksOK' /\ StartsKnown' /\ SetsOK' /\ AllServed' /\ StartsDiffer'
<1>0. UNCHANGED <<malicious, Honest, Backups, Targets, Last, Start, Proposal>>
  BY SameSession DEF PromptStep
<1>1. TasksOK'
  BY <1>0 DEF PromptStep, Good, TasksOK, GoodTask, Holders, Has
<1>2. StartsKnown'
  BY <1>0 DEF PromptStep, Good, StartsKnown, InitComing
<1>3. SetsOK'
  BY <1>0 DEF PromptStep, Good, SetsOK
<1>4. StartsDiffer'
  BY DEF PromptStep, Good, StartsDiffer
<1>5. Targets \subseteq Backups
  BY DEF Targets
<1>6. \A n \in Backups : Has(n)' = Has(n) /\ (Served(n) => Served(n)')
  BY <1>0 DEF Has, Served, Proposed, Handling, ForwardComing
<1>7. \A n \in Backups : Proposed(n)' <=> Proposed(n)
  BY DEF Proposed
<1>8. Past' = Past
  BY <1>0, <1>5, <1>7 DEF Past
<1>9. AllServed'
  BY <1>6, <1>7, <1>8, ServedStep
<1> QED BY <1>1, <1>2, <1>3, <1>4, <1>9

-----------------------------------------------------------------------------
(* The steps of the client and the proposer.                               *)

\* What the frame leaves of the invariant.
LEMMA SideGood ==
  ASSUME PromptStep, NetOK', TimersOK', NodesTyped', ViewCommits', DecidedOK', ResultsOK',
         TasksOK' /\ StartsKnown' /\ SetsOK' /\ AllServed' /\ StartsDiffer'
  PROVE  Good'
BY DEF Good

\* A step that touches neither the values committed nor the results.
LEMMA HistoryStays ==
  ASSUME PromptStep, UNCHANGED <<sessions, commitValue, decided, results>>,
         pc' # "stopped" => pc # "stopped",
         \A t \in timers : t.what = "dsCommit" => t \in timers' \/ pc' = "stopped"
  PROVE  ViewCommits' /\ DecidedOK' /\ ResultsOK'
<1>0. UNCHANGED <<malicious, Honest, Backups, Targets, Last, Start, Proposal>>
  BY SameSession DEF PromptStep
<1>1. ViewCommits'
  <2>1. CommitTimer(View)' = CommitTimer(View) /\ CommitTimer(View).what = "dsCommit"
    BY <1>0 DEF CommitTimer
  <2> QED BY <1>0, <2>1 DEF PromptStep, Good, ViewCommits
<1>2. DecidedOK'
  BY <1>0 DEF PromptStep, Good, DecidedOK, Outcome
<1>3. ResultsOK'
  BY <1>0 DEF PromptStep, Good, ResultsOK
<1> QED BY <1>1, <1>2, <1>3

LEMMA CmdProposeGood ==
  ASSUME PromptStep, NEW s \in String, HandleCmdPropose(s), UNCHANGED <<dsVars, results>>
  PROVE  Good'
<1>0. UNCHANGED <<now, timers, tasks, startTime, pc, sessions, extrSet, commitValue,
                  decided, results>>
  BY DEF HandleCmdPropose, dsVars
<1>1. PICK m : m = [kind |-> "Inject", to |-> View, val |-> s, due |-> Soon("Inject")]
               /\ Wire(net, {m})
  BY DEF HandleCmdPropose
<1>2. m.kind = "Inject" /\ m.due \in Nat /\ m.due >= now
  <2>1. now \in Nat
    BY DEF PromptStep, SessionInv, ProposerTyped
  <2> QED BY <1>1, <2>1 DEF Soon
<1>3. net \subseteq net' /\ net' \subseteq net \cup {m}
  <2>1. IsFiniteSet({m})
    BY FS_Singleton
  <2> QED BY <1>1, <2>1, SyncWire DEF PromptStep, Prompt, Synchronous
<1>4. NetOK'
  <2>1. Expected(m)'
    BY <1>0, <1>2 DEF Expected
  <2> QED BY <1>0, <1>3, <2>1, ExpectedKeeps DEF PromptStep, Good, NetOK
<1>5. TasksOK' /\ StartsKnown' /\ SetsOK' /\ AllServed' /\ StartsDiffer'
  BY <1>0, <1>2, <1>3, SideStep
<1>6. TimersOK' /\ ViewCommits' /\ DecidedOK' /\ ResultsOK'
  BY <1>0, TimersStay, HistoryStays
<1>7. NodesTyped'
  BY <1>0 DEF PromptStep, Good, NodesTyped
<1> QED BY <1>4, <1>5, <1>6, <1>7, SideGood

\* A message is taken, and nothing sent.
LEMMA TakeNet ==
  ASSUME PromptStep, UNCHANGED <<now, sessions, pc, commitValue>>, net' \subseteq net,
         pc = "start" \/ extrSet' = extrSet
  PROVE  NetOK'
BY ExpectedKeeps DEF PromptStep, Good, NetOK

LEMMA InjectGood ==
  ASSUME PromptStep, NEW m \in Inbox, HandleInject(m), UNCHANGED <<dsVars, results>>
  PROVE  Good'
<1>0. /\ UNCHANGED <<now, timers, tasks, startTime, pc, sessions, extrSet, commitValue,
                     decided, results>>
      /\ net' = net \ {m} /\ m.kind = "Inject"
  BY DEF HandleInject, dsVars
<1>1. TasksOK' /\ StartsKnown' /\ SetsOK' /\ AllServed' /\ StartsDiffer'
  BY <1>0, SideStep
<1>2. TimersOK' /\ ViewCommits' /\ DecidedOK' /\ ResultsOK' /\ NetOK'
  BY <1>0, TimersStay, HistoryStays, TakeNet
<1>3. NodesTyped'
  BY <1>0 DEF PromptStep, Good, NodesTyped
<1> QED BY <1>1, <1>2, <1>3, SideGood

\* Polling, the end of a session and a step that changes nothing.
LEMMA IdleGood ==
  ASSUME PromptStep, UNCHANGED <<now, tasks, startTime, sessions, extrSet, commitValue,
                               decided, results, net>>,
         \A t \in timers : t.what = "dsCommit" => t \in timers', timers' \subseteq timers,
         pc' = pc \/ {pc, pc'} \subseteq {"wait", "poll"}
  PROVE  Good'
<1>0. (pc' = "start" <=> pc = "start") /\ (pc' # "stopped" => pc # "stopped")
  OBVIOUS
<1>1. TasksOK' /\ StartsKnown' /\ SetsOK' /\ AllServed' /\ StartsDiffer'
  BY <1>0, SideStep
<1>2. TimersOK' /\ ViewCommits' /\ DecidedOK' /\ ResultsOK'
  BY <1>0, TimersStay, HistoryStays
<1>3. NetOK'
  BY <1>0, ExpectedKeeps DEF PromptStep, Good, NetOK
<1>4. NodesTyped'
  BY DEF PromptStep, Good, NodesTyped
<1> QED BY <1>1, <1>2, <1>3, <1>4, SideGood

\* The view's process ends; the messages to it and its handlers go with it.
LEMMA StopGood ==
  ASSUME PromptStep, RunStop, UNCHANGED <<dsVars, results>>
  PROVE  Good'
<1>0. /\ UNCHANGED <<now, startTime, sessions, extrSet, commitValue, decided, results>>
      /\ pc # "start" /\ pc' = "stopped"
      /\ timers' \subseteq timers
      /\ tasks' = {k \in tasks : k.node # View} /\ net' = {m \in net : m.to # View}
  BY DEF RunStop, dsVars
<1>1. View \notin Backups
  BY DEF Backups
<1>2. TasksOK' /\ StartsKnown' /\ SetsOK' /\ AllServed' /\ StartsDiffer'
  BY <1>0, <1>1, SideStep
<1>3. TimersOK' /\ ViewCommits' /\ DecidedOK' /\ ResultsOK'
  BY <1>0, TimersStay, HistoryStays
<1>4. NetOK'
  BY <1>0, ExpectedKeeps DEF PromptStep, Good, NetOK
<1>5. NodesTyped'
  BY <1>0 DEF PromptStep, Good, NodesTyped
<1> QED BY <1>2, <1>3, <1>4, <1>5, SideGood

LEMMA ProposerGood ==
  ASSUME PromptStep, ProposerNext, UNCHANGED <<dsVars, results>>
  PROVE  Good'
<1>1. CASE RunPoll
  BY <1>1, IdleGood DEF RunPoll, roundVars, wireVars, proposerVars, dsVars
<1>2. ASSUME NEW t \in Ripe, HandleConsensusDone(t) PROVE Good'
  BY <1>2, IdleGood DEF HandleConsensusDone, wireVars, dsVars
<1>3. CASE RunDone
  BY <1>3, IdleGood DEF RunDone, wireVars, dsVars
<1> QED BY <1>1, <1>2, <1>3, CmdProposeGood, InjectGood, StopGood DEF ProposerNext

-----------------------------------------------------------------------------
(* The steps of the client.                                                *)

LEMMA FromNet ==
  ASSUME PromptStep, NEW m \in Inbox
  PROVE  m \in net /\ Expected(m)
BY DEF PromptStep, Good, NetOK, Inbox

LEMMA FromTimers ==
  ASSUME PromptStep, NEW t \in Ripe
  PROVE  t \in timers /\ GoodTimer(t) /\ t.at <= now /\ Urgent = {}
<1>1. t \in timers /\ t.at <= now /\ Urgent = {}
  BY DEF Ripe
<1> QED BY <1>1 DEF PromptStep, Good, TimersOK

LEMMA ClientInitGood ==
  ASSUME PromptStep, NEW m \in Inbox, ClientInit(m)
  PROVE  Good'
<1>0. UNCHANGED <<now, tasks, startTime, pc, sessions, extrSet, commitValue, decided, results>>
  BY DEF ClientInit, dsVars, proposerVars
<1>1. m \in net /\ m.kind = "Init" /\ m.to = Client /\ net' = net \ {m}
  BY FromNet DEF ClientInit
<1>2. GoodInit(m) /\ sessions # <<>> /\ m.due >= now
  BY <1>1, FromNet DEF Expected, GoodPropose, GoodForward, GoodQuery, GoodReply
<1>3. Client \notin Backups
  BY Places DEF Backups, Honest
<1>4. TasksOK' /\ StartsKnown' /\ SetsOK' /\ AllServed' /\ StartsDiffer'
  BY <1>0, <1>1, <1>3, SideStep
<1>5. PICK t : t = [node |-> Client, at |-> m.start + F + 1, what |-> "query"]
               /\ timers' = timers \cup {t}
  BY DEF ClientInit
<1>6. TimersOK'
  <2>0. UNCHANGED <<malicious, Honest, Backups, Targets, Last, Start, Proposal>>
    BY <1>0, SameSession DEF PromptStep
  <2>1. t.at = Start + F + 1 /\ t.at >= now
    BY <1>2, <1>5, SessionFacts, Places DEF GoodInit, PromptStep
  <2>2. GoodTimer(t)'
    BY <1>0, <1>2, <1>5, <2>0, <2>1 DEF GoodTimer
  <2>3. \A u \in timers : GoodTimer(u)'
    BY <1>0, <2>0 DEF PromptStep, Good, TimersOK, GoodTimer
  <2> QED BY <1>5, <2>2, <2>3 DEF TimersOK
<1>7. ViewCommits' /\ DecidedOK' /\ ResultsOK'
  BY <1>0, <1>5, HistoryStays
<1>8. NetOK'
  BY <1>0, <1>1, TakeNet
<1>9. NodesTyped'
  BY <1>0 DEF PromptStep, Good, NodesTyped
<1> QED BY <1>4, <1>6, <1>7, <1>8, <1>9, SideGood

LEMMA ClientReplyGood ==
  ASSUME PromptStep, NEW m \in Inbox, ClientReply(m)
  PROVE  Good'
<1>0. UNCHANGED <<now, timers, tasks, startTime, pc, sessions, extrSet, commitValue, decided>>
  BY DEF ClientReply, dsVars, proposerVars
<1>1. m \in net /\ m.kind = "Reply" /\ net' = net \ {m}
  BY FromNet DEF ClientReply
<1>2. GoodReply(m) /\ sessions # <<>>
  BY <1>1, FromNet DEF Expected, GoodPropose, GoodForward, GoodQuery, GoodInit
<1>3. TasksOK' /\ StartsKnown' /\ SetsOK' /\ AllServed' /\ StartsDiffer'
  BY <1>0, <1>1, SideStep
<1>4. TimersOK' /\ NetOK'
  BY <1>0, <1>1, TimersStay, TakeNet
<1>5. NodesTyped'
  BY <1>0 DEF PromptStep, Good, NodesTyped
<1>6. UNCHANGED <<malicious, Honest, Backups, Targets, Last, Start, Proposal>>
  BY <1>0, SameSession DEF PromptStep
<1>7. ViewCommits' /\ DecidedOK'
  BY <1>0, <1>6 DEF PromptStep, Good, ViewCommits, CommitTimer, DecidedOK, Outcome
<1>8. ResultsOK'
  <2>1. PICK r : r = [session |-> Len(sessions), val |-> m.val]
                 /\ results' = results \cup {r}
    BY DEF ClientReply
  <2>2. r.session \in 1..Len(sessions)
    BY <1>2, <2>1, SessionFacts DEF PromptStep
  <2>3. View \in Honest => r.val = sessions[r.session].val
    BY <1>2, <2>1, SessionFacts DEF PromptStep, GoodReply
  <2> QED BY <1>0, <1>6, <2>1, <2>2, <2>3 DEF PromptStep, Good, ResultsOK
<1> QED BY <1>3, <1>4, <1>5, <1>7, <1>8, SideGood

\* One message that is no Init, Propose or Forward is sent, perhaps for
\* another that is taken.
LEMMA SendGood ==
  ASSUME PromptStep, NEW m, NEW before, Wire(before, {m}),
         UNCHANGED <<now, tasks, startTime, pc, sessions, extrSet, commitValue, decided,
                     results>>,
         timers' \subseteq timers, \A t \in timers : t.what = "dsCommit" => t \in timers',
         m.kind \in {"Query", "Reply"}, before \subseteq net,
         \A o \in net : o.kind \notin {"Query", "Reply"} => o \in before,
         m.to \notin Deaf => Expected(m)
  PROVE  Good'
<1>1. IsFiniteSet({m})
  BY FS_Singleton
<1>2. before \subseteq net' /\ \A o \in net' : o \in net \/ (o = m /\ o.to \notin Deaf)
  BY <1>1, SyncWire DEF PromptStep, Prompt, Synchronous
<1>3. TasksOK' /\ StartsKnown' /\ SetsOK' /\ AllServed' /\ StartsDiffer'
  BY <1>2, SideStep
<1>4. TimersOK' /\ ViewCommits' /\ DecidedOK' /\ ResultsOK'
  BY TimersStay, HistoryStays
<1>5. NetOK'
  BY <1>2, ExpectedKeeps DEF PromptStep, Good, NetOK
<1>6. NodesTyped'
  BY DEF PromptStep, Good, NodesTyped
<1> QED BY <1>3, <1>4, <1>5, <1>6, SideGood

LEMMA HandleQueryGood ==
  ASSUME PromptStep, NEW m \in Inbox, HandleQuery(m)
  PROVE  Good'
<1>0. UNCHANGED <<now, timers, tasks, startTime, pc, sessions, extrSet, commitValue,
                  decided, results>>
  BY DEF HandleQuery, dsVars, proposerVars
<1>1. m.kind = "Query"
  BY DEF HandleQuery
<1>2. GoodQuery(m) /\ sessions # <<>> /\ m.due \in Nat /\ m.due >= now
  BY <1>1, FromNet DEF Expected, GoodPropose, GoodForward, GoodReply, GoodInit
<1>3. PICK o : o = [kind |-> "Reply", to |-> Client, val |-> commitValue[m.to],
                    due |-> Soon("Reply")] /\ Wire(net \ {m}, {o})
  BY DEF HandleQuery
<1>4. now \in Nat /\ Start \in Nat
  BY <1>2, SessionFacts DEF PromptStep
<1>5. o.kind = "Reply" /\ o.due \in Nat /\ o.due >= now /\ o.due <= now + 1
      /\ o.val = commitValue[m.to]
  BY <1>3, <1>4 DEF Soon
<1>6. GoodReply(o)
  BY <1>2, <1>4, <1>5, Places DEF GoodReply, GoodQuery
<1>7. Expected(o)
  BY <1>2, <1>5, <1>6 DEF Expected
<1> QED BY <1>0, <1>1, <1>3, <1>5, <1>7, SendGood

\* The view has committed before the client's timer fires.
LEMMA ClientQueryGood ==
  ASSUME PromptStep, NEW t \in Ripe, ClientQuery(t)
  PROVE  Good'
<1>0. /\ UNCHANGED <<now, tasks, startTime, pc, sessions, extrSet, commitValue, decided,
                     results>>
      /\ t.what = "query" /\ timers' = timers \ {t}
      /\ \A u \in Ripe : u.node = Client
  BY DEF ClientQuery, dsVars, proposerVars
<1>1. sessions # <<>> /\ t.at = Start + F + 1 /\ t.at >= now /\ t.at <= now /\ Urgent = {}
  BY <1>0, FromTimers DEF GoodTimer
<1>2. now \in Nat /\ Start \in Nat /\ F \in Nat
  BY <1>1, SessionFacts, Places DEF PromptStep
<1>3. now = Start + F + 1
  BY <1>1, <1>2
<1>4. PICK o : o = [kind |-> "Query", to |-> View, due |-> Soon("Query")]
               /\ Wire(net, {o})
  BY DEF ClientQuery
<1>5. pc # "start"
  BY <1>2, <1>3 DEF PromptStep, SessionInv, StartPending, Start
<1>6. ASSUME pc # "stopped", View \in Honest PROVE commitValue[View] = Last.val
  <2>1. SUFFICES ASSUME CommitTimer(View) \in timers PROVE FALSE
    BY <1>1, <1>6 DEF PromptStep, Good, ViewCommits
  <2>2. CommitTimer(View).node = View /\ CommitTimer(View).at <= now
    BY <1>2, <1>3 DEF CommitTimer
  <2>3. ASSUME NEW u \in timers, u.what \in LocalTimer PROVE View <= u.node
    <3>1. u.node \in Node
      BY <2>3, Places DEF PromptStep, Good, TimersOK, GoodTimer, LocalTimer, Backups, Honest
    <3>2. u.node \in Nat
      BY <3>1, Places
    <3> QED BY <3>2, Places
  <2>4. CommitTimer(View) \in Ripe
    BY <1>1, <2>1, <2>2, <2>3 DEF Ripe
  <2> QED BY <1>0, <2>2, <2>4, Places
<1>7. o.kind = "Query" /\ o.to = View /\ o.due \in Nat /\ o.due >= now /\ o.due <= now + 1
  BY <1>2, <1>4 DEF Soon
<1>8. o.to \notin Deaf => Expected(o)
  <2>1. o.to \notin Deaf => pc # "stopped"
    BY <1>7 DEF Deaf
  <2>2. o.to \notin Deaf => GoodQuery(o)
    BY <1>2, <1>3, <1>5, <1>6, <1>7, <2>1 DEF GoodQuery
  <2> QED BY <1>1, <1>7, <2>2 DEF Expected
<1> QED BY <1>0, <1>4, <1>7, <1>8, SendGood

-----------------------------------------------------------------------------
(* The rounds of the protocol.                                             *)

\* If the faults are tolerated, every honest node has the proposal once the
\* second hop is over: one that has not would have lost a message for each
\* target, and they are fewer.  Without faults the first hop is enough.
LEMMA AllHave ==
  ASSUME PromptStep, Tolerated, sessions # <<>>, pc # "start", Targets # {}, NEW n \in Backups,
         now >= Start + 2 \/ (F = 0 /\ now >= Start + 1)
  PROVE  Has(n)
<1>0. now \in Nat /\ Start \in Nat /\ F \in Nat /\ n # View
  BY SessionFacts, Places DEF PromptStep, Backups
<1>1. \A p : ~Proposed(p)
  <2> SUFFICES ASSUME NEW m \in net, m.kind = "Propose" PROVE FALSE
    BY DEF Proposed
  <2>1. Expected(m)
    BY DEF PromptStep, Good, NetOK
  <2>2. m.due = Start /\ m.due >= now
    BY <2>1 DEF Expected, GoodInit, GoodPropose, GoodForward, GoodQuery, GoodReply
  <2> QED BY <1>0, <2>2
<1>2. /\ faults = 0 => \A p \in Targets : Has(p) \/ Proposed(p)
      /\ Served(n) \/ faults >= Cardinality(Past)
  BY DEF PromptStep, Good, AllServed
<1>3. CASE F >= 1
  <2>1. now >= Start + 2
    BY <1>0, <1>3
  <2>2. ~Handling(n)
    <3> SUFFICES ASSUME NEW k \in tasks, k.node = n, k.sigs = 2 PROVE FALSE
      BY DEF Handling
    <3>1. GoodTask(k)
      BY DEF PromptStep, Good, TasksOK
    <3>2. now <= Start + 1
      BY <1>0, <3>1 DEF GoodTask
    <3> QED BY <1>0, <2>1, <3>2
  <2>3. ~ForwardComing(n)
    <3> SUFFICES ASSUME NEW m \in net, m.kind = "Forward", m.sigs = 2 PROVE FALSE
      BY DEF ForwardComing
    <3>1. Expected(m)
      BY DEF PromptStep, Good, NetOK
    <3>2. m.due <= Start + m.sigs - 1 /\ m.due >= now /\ m.due \in Nat
      BY <3>1 DEF Expected, GoodInit, GoodPropose, GoodForward, GoodQuery, GoodReply
    <3> QED BY <1>0, <2>1, <3>2
  <2>4. Past = Targets
    BY <1>1 DEF Past
  <2>5. ~(faults >= Cardinality(Past))
    BY <2>4, TargetsFinite DEF PromptStep, Tolerated, Counted
  <2> QED BY <1>1, <1>2, <2>2, <2>3, <2>5 DEF Served
<1>4. CASE F = 0
  <2>1. View \notin malicious /\ faults = 0
    BY <1>4 DEF Tolerated
  <2>2. n \in Targets
    BY <2>1 DEF Targets
  <2> QED BY <1>1, <1>2, <2>1, <2>2
<1> QED BY <1>0, <1>3, <1>4

LEMMA SingleOf ==
  /\ Single({}) = Zero
  /\ \A v : Single({v}) = v
  /\ \A S \in SUBSET Value : Single(S) \in Value
<1>1. Single({}) = Zero
  BY FS_EmptySet DEF Single
<1>2. ASSUME NEW v PROVE Single({v}) = v
  BY FS_Singleton DEF Single
<1>3. ASSUME NEW S \in SUBSET Value PROVE Single(S) \in Value
  <2>1. CASE S = {}
    BY <1>1, <2>1 DEF Value
  <2>2. CASE S # {}
    BY <2>2 DEF Single, Value
  <2> QED BY <2>1, <2>2
<1> QED BY <1>1, <1>2, <1>3

\* What an honest node finds in its set when its commit timer fires: an
\* honest view its string, whatever is lost.
LEMMA CommitsOutcome ==
  ASSUME PromptStep, NEW n \in Honest, sessions # <<>>, startTime[n] = Start,
         now = Start + F + 1, n = View \/ Tolerated
  PROVE  Single(extrSet[n]) = Outcome(Last) /\ pc # "start"
<1>0. now \in Nat /\ Start \in Nat /\ F \in Nat /\ View \in Node
  BY SessionFacts, Places DEF PromptStep
<1>1. pc # "start"
  BY <1>0 DEF PromptStep, SessionInv, StartPending, Start
<1>2. CASE n = View
  <2>1. extrSet[View] = {Proposal} /\ Proposal = Last.val
    BY <1>1, <1>2 DEF PromptStep, Good, SetsOK, Proposal, Honest
  <2> QED BY <1>1, <1>2, <2>1, SingleOf DEF Outcome
<1>3. CASE n # View
  <2>0. n \in Backups
    BY <1>3 DEF Backups
  <2>1. CASE Targets = {}
    <3>1. extrSet[n] = {}
      BY <2>0, <2>1 DEF PromptStep, Good, SetsOK
    <3>2. View \notin Honest
      BY <2>0, <2>1 DEF Targets, Honest
    <3> QED BY <1>1, <2>1, <3>1, <3>2, SingleOf DEF Outcome
  <2>2. CASE Targets # {}
    <3>1. extrSet[n] \subseteq {Proposal}
      BY <1>1, <2>0, <2>2 DEF PromptStep, Good, SetsOK
    <3>2. Proposal \in extrSet[n]
      BY <1>0, <1>1, <1>3, <2>0, <2>2, AllHave DEF Has
    <3>3. extrSet[n] = {Proposal}
      BY <3>1, <3>2
    <3>4. Proposal = Outcome(Last)
      BY <1>0, <2>2 DEF Proposal, Outcome, Honest
    <3> QED BY <1>1, <3>3, <3>4, SingleOf
  <2> QED BY <2>1, <2>2
<1> QED BY <1>2, <1>3

LEMMA CommitGood ==
  ASSUME PromptStep, NEW t \in Ripe, DsCommit(t), UNCHANGED results,
         UNCHANGED <<now, startTime, setup, proposerVars>>
  PROVE  Good'
<1>0. /\ UNCHANGED <<now, startTime, pc, sessions, tasks, net, extrSet, results>>
      /\ t.what = "dsCommit" /\ timers' = timers \ {t}
  BY DEF DsCommit, proposerVars, wireVars
<1>1. /\ sessions # <<>> /\ t.at = Start + F + 1 /\ t.at >= now /\ t.at <= now
      /\ t.node \in Backups \cup {View} /\ startTime[t.node] = Start
  BY <1>0, FromTimers DEF GoodTimer
<1>2. now \in Nat /\ Start \in Nat /\ F \in Nat /\ View \in Node /\ t.node \in Node
  BY <1>1, SessionFacts, Places DEF PromptStep, Backups, Honest
<1>3. now = Start + F + 1 /\ t.at - (F + 1) = Start
  BY <1>1, <1>2
<1>4. PICK v : v = Single(extrSet[t.node])
  OBVIOUS
<1>5. /\ commitValue' = [commitValue EXCEPT ![t.node] = v]
      /\ decided' = decided \cup {[node |-> t.node, start |-> Start, val |-> v]}
  BY <1>3, <1>4 DEF DsCommit
<1>6. t.node \in Honest /\ (t.node = View \/ Tolerated) => v = Outcome(Last)
  BY <1>1, <1>3, <1>4, CommitsOutcome
<1>7. extrSet[t.node] \in SUBSET Value /\ commitValue \in [Node -> Value \cup {None}]
  BY <1>2 DEF PromptStep, Good, NodesTyped
<1>8. NodesTyped'
  <2>1. v \in Value
    BY <1>4, <1>7, SingleOf
  <2>2. commitValue' \in [Node -> Value \cup {None}]
    BY <1>5, <1>7, <2>1
  <2> QED BY <1>0, <2>2 DEF PromptStep, Good, NodesTyped
<1>9. UNCHANGED <<malicious, Honest, Backups, Targets, Last, Start, Proposal>>
  BY <1>0, SameSession DEF PromptStep
<1>10. View \in Honest => commitValue'[View] = IF t.node = View THEN Last.val ELSE commitValue[View]
  BY <1>2, <1>5, <1>6, <1>7 DEF Outcome
<1>11. NetOK'
  BY <1>0, <1>10, ExpectedKeeps DEF PromptStep, Good, NetOK
<1>12. TasksOK' /\ StartsKnown' /\ SetsOK' /\ AllServed' /\ StartsDiffer'
  BY <1>0, SideStep
<1>13. TimersOK'
  BY <1>0, TimersStay
<1>14. ViewCommits'
  <2>1. CommitTimer(View)' = CommitTimer(View) /\ CommitTimer(View).node = View
    BY <1>9 DEF CommitTimer
  <2> QED BY <1>0, <1>9, <1>10, <2>1 DEF PromptStep, Good, ViewCommits
<1>15. DecidedOK'
  <2> SUFFICES ASSUME Tolerated, NEW d \in decided', d.node \in Honest
               PROVE  \E i \in 1..Len(sessions) : /\ d.start = sessions[i].start
                                                  /\ d.val = Outcome(sessions[i])
    BY <1>0, <1>9 DEF DecidedOK, Outcome, PromptStep
  <2>1. CASE d \in decided
    BY <2>1 DEF PromptStep, Good, DecidedOK
  <2>2. CASE d = [node |-> t.node, start |-> Start, val |-> v]
    <3>1. d.start = Start /\ d.val = Outcome(Last)
      BY <1>6, <2>2
    <3>2. Len(sessions) \in 1..Len(sessions) /\ Last = sessions[Len(sessions)]
      BY <1>1, SessionFacts DEF PromptStep
    <3> QED BY <3>1, <3>2 DEF Start
  <2> QED BY <1>5, <2>1, <2>2
<1>16. ResultsOK'
  BY <1>0, <1>9 DEF PromptStep, Good, ResultsOK
<1> QED BY <1>8, <1>11, <1>12, <1>13, <1>14, <1>15, <1>16, SideGood

\* A forward is looked up: a node that has not extracted the value is in
\* time to do so.
LEMMA ForwardGoodStep ==
  ASSUME PromptStep, NEW m \in Inbox, DsHandleForward(m), UNCHANGED results,
         UNCHANGED <<now, startTime, setup, proposerVars>>
  PROVE  Good'
<1>0. /\ UNCHANGED <<now, startTime, pc, sessions, timers, extrSet, commitValue, decided,
                     results>>
      /\ m.kind = "Forward" /\ net' = net \ {m}
  BY DEF DsHandleForward, proposerVars, dsVars
<1>1. GoodForward(m) /\ sessions # <<>> /\ m.due \in Nat /\ m.due >= now
  BY <1>0, FromNet DEF Expected, GoodInit, GoodPropose, GoodQuery, GoodReply
<1>2. PICK k : /\ k = [node |-> m.to, at |-> "add", for |-> "Forward", val |-> m.val,
                       sigs |-> m.sigs]
               /\ tasks' = IF m.val \in extrSet[m.to] THEN tasks ELSE tasks \cup {k}
  BY DEF DsHandleForward
<1>3. now \in Nat /\ Start \in Nat
  BY <1>1, SessionFacts DEF PromptStep
<1>4. UNCHANGED <<malicious, Honest, Backups, Targets, Last, Start, Proposal>>
  BY <1>0, SameSession DEF PromptStep
<1>5. m.val = Proposal /\ pc # "start" /\ Targets # {}
  BY <1>1 DEF GoodForward
<1>6. m.val \notin extrSet[m.to] => GoodTask(k)
  <2> SUFFICES ASSUME Proposal \notin extrSet[m.to] PROVE GoodTask(k)
    BY <1>5
  <2>1. now <= Start + m.sigs - 1 /\ m.sigs \in Nat /\ m.sigs >= 2
    BY <1>1, <1>3 DEF GoodForward
  <2>2. Cardinality(Holders \ {m.to}) >= m.sigs - 1
    <3>1. Holders \ {m.to} = Holders
      BY DEF Holders, Has
    <3> QED BY <1>1, <3>1 DEF GoodForward
  <2>3. m.to = View => View \notin Honest
    BY <1>1, <1>5 DEF PromptStep, Good, SetsOK
  <2>4. m.to = View => View \in malicious
    BY <2>3, Places DEF Honest
  <2>5. m.to \in Backups \/ m.to = View
    BY <1>1 DEF GoodForward
  <2> QED BY <1>1, <1>2, <1>5, <2>1, <2>2, <2>4, <2>5 DEF GoodTask
<1>7. TasksOK'
  <2>1. \A j : GoodTask(j) => GoodTask(j)'
    BY <1>0, <1>4 DEF GoodTask, Holders, Has
  <2> QED BY <1>2, <1>6, <2>1 DEF PromptStep, Good, TasksOK
<1>8. AllServed'
  <2>1. \A n : (Proposed(n)' <=> Proposed(n)) /\ (Has(n)' <=> Has(n))
    BY <1>0, <1>4 DEF Proposed, Has
  <2>2. Past' = Past
    BY <1>4, <2>1 DEF Past
  <2>3. \A n : Handling(n) => Handling(n)'
    BY <1>2 DEF Handling
  <2>4. \A n : ForwardComing(n) => ForwardComing(n)' \/ (n = m.to /\ m.sigs = 2)
    BY <1>0 DEF ForwardComing
  <2>5. m.sigs = 2 => Has(m.to) \/ Handling(m.to)'
    BY <1>2, <1>5 DEF Has, Handling
  <2>6. \A n \in Backups : Served(n) => Served(n)'
    BY <2>1, <2>3, <2>4, <2>5 DEF Served
  <2> QED BY <1>0, <2>1, <2>2, <2>6, ServedStep
<1>9. StartsKnown'
  BY <1>0, <1>4 DEF PromptStep, Good, StartsKnown, InitComing
<1>10. SetsOK' /\ StartsDiffer' /\ NodesTyped'
  BY <1>0, <1>4 DEF PromptStep, Good, SetsOK, StartsDiffer, NodesTyped
<1>11. NetOK' /\ TimersOK' /\ ViewCommits' /\ DecidedOK' /\ ResultsOK'
  BY <1>0, TakeNet, TimersStay, HistoryStays
<1> QED BY <1>7, <1>8, <1>9, <1>10, <1>11, SideGood

LEMMA NotDeaf ==
  /\ \A n \in Backups : n \in Node /\ n # View /\ n \notin Deaf
  /\ \A n \in Node \ {View} : n \notin Deaf => n \in Backups
BY DEF Backups, Honest, Deaf

\* A broadcast of forwards: what arrives, and what a receiver has missed if
\* nothing does.
LEMMA ForwardsSent ==
  ASSUME PromptStep, NEW n, NEW val, NEW sigs, NEW before,
         Wire(before, {} \cup ToAll(n, ForwardMsg(n, val, sigs)))
  PROVE  /\ before \subseteq net'
         /\ \A o \in net' :
              \/ o \in before
              \/ /\ o.kind = "Forward" /\ o.to \in Node \ {n} /\ o.to \notin Deaf /\ o.from = n
                 /\ o.val = val /\ o.sigs = sigs /\ o.due = Soon("Forward")
         /\ \A q \in Backups \ {n} :
              \/ \E o \in net' : o.kind = "Forward" /\ o.to = q /\ o.sigs = sigs
              \/ faults' >= faults + 1
<1> DEFINE msgs == ToAll(n, ForwardMsg(n, val, sigs))
<1>1. IsFiniteSet({} \cup msgs) /\ {} \cup msgs = msgs
  BY ToAllFinite
<1>2. PICK lost : /\ lost \subseteq msgs /\ IsFiniteSet(lost)
                  /\ net' = before \cup ({m \in msgs : m.to \notin Deaf} \ lost)
                  /\ faults' = faults + Cardinality(lost)
  BY <1>1, SyncWire DEF PromptStep, Prompt, Synchronous
<1>3. \A o \in msgs : /\ o.kind = "Forward" /\ o.to \in Node \ {n} /\ o.from = n
                      /\ o.val = val /\ o.sigs = sigs /\ o.due = Soon("Forward")
  BY DEF ToAll, ForwardMsg
<1>4. ASSUME NEW q \in Backups \ {n}
      PROVE  \/ \E o \in net' : o.kind = "Forward" /\ o.to = q /\ o.sigs = sigs
             \/ faults' >= faults + 1
  <2>0. q \in Node \ {n}
    BY NotDeaf
  <2> DEFINE o == [ForwardMsg(n, val, sigs) EXCEPT !.to = q]
  <2>1. o \in msgs /\ o.to = q
    BY <2>0 DEF ToAll, ForwardMsg
  <2> HIDE DEF o
  <2>2. CASE o \in lost
    <3>1. Cardinality(lost) \in Nat /\ Cardinality(lost) # 0
      BY <1>2, <2>2, FS_CardinalityType, FS_EmptySet
    <3> QED BY <1>2, <3>1 DEF PromptStep, Counted
  <2>3. CASE o \notin lost
    BY <1>2, <1>3, <2>1, <2>3, NotDeaf
  <2> QED BY <2>2, <2>3
<1> HIDE DEF msgs
<1> QED BY <1>2, <1>3, <1>4

\* Once the session has started, every honest node knows it.
LEMMA KnowsStart ==
  ASSUME PromptStep, sessions # <<>>, pc # "start", NEW n \in Backups \cup {View}
  PROVE  startTime[n] = Start
<1>1. CASE n = View
  BY <1>1 DEF PromptStep, Good, StartsKnown
<1>2. CASE n \in Backups
  <2>1. ~InitComing(n)
    BY DEF PromptStep, Good, NetOK, Expected, InitComing, GoodInit, GoodPropose, GoodForward,
           GoodQuery, GoodReply
  <2> QED BY <1>2, <2>1 DEF PromptStep, Good, StartsKnown
<1> QED BY <1>1, <1>2

\* A node that hears the proposal in time adds it to its set and forwards
\* it in time for the next hop.
LEMMA ExtractGood ==
  ASSUME PromptStep, sessions # <<>>, pc # "start", Targets # {},
         NEW n, n \in Backups \/ (n = View /\ View \in malicious),
         NEW sigs \in Nat, sigs >= 2, now <= Start + sigs - 2,
         Cardinality(Holders \ {n}) >= sigs - 2,
         NEW before, before \subseteq net,
         Wire(before, {} \cup ToAll(n, ForwardMsg(n, Proposal, sigs))),
         UNCHANGED <<now, startTime, pc, sessions, timers, commitValue, decided, results>>,
         extrSet' = [extrSet EXCEPT ![n] = @ \cup {Proposal}],
         tasks' \subseteq tasks,
         \A m \in net \ before : m.kind = "Propose"
  PROVE  /\ NetOK' /\ TasksOK' /\ TimersOK' /\ NodesTyped' /\ StartsKnown' /\ SetsOK'
         /\ ViewCommits' /\ DecidedOK' /\ StartsDiffer' /\ ResultsOK'
         /\ Has(n)' /\ \A q \in Backups : Has(q) => Has(q)'
<1>0. UNCHANGED <<malicious, Honest, Backups, Targets, Last, Start, Proposal>>
  BY SameSession DEF PromptStep
<1>1. now \in Nat /\ Start \in Nat /\ n \in Node /\ View \in Node /\ Last.val \in String
  BY SessionFacts, Places, NotDeaf DEF PromptStep
<1>2. extrSet \in [Node -> SUBSET Value] /\ Proposal \in Value
  BY <1>1 DEF PromptStep, Good, NodesTyped, Proposal, Value
<1>3. \A q \in Node : extrSet'[q] = IF q = n THEN extrSet[q] \cup {Proposal} ELSE extrSet[q]
  BY <1>1, <1>2
<1>4. \A q \in Node : extrSet[q] \subseteq extrSet'[q]
  BY <1>3
<1>5. Cardinality(Holders') >= sigs - 1
  <2>1. Holders' = (Holders \ {n}) \cup {n}
    <3>1. ASSUME NEW q \in Node PROVE Has(q)' <=> (Has(q) \/ q = n)
      <4>1. CASE q = n
        <5>1. extrSet'[q] = extrSet[q] \cup {Proposal}
          BY <1>3, <4>1
        <5> QED BY <1>0, <4>1, <5>1, Zenon DEF Has
      <4>2. CASE q # n
        <5>1. extrSet'[q] = extrSet[q]
          BY <1>3, <4>2
        <5> QED BY <1>0, <4>2, <5>1, Zenon DEF Has
      <4> QED BY <4>1, <4>2
    <3> QED BY <1>1, <3>1 DEF Holders
  <2>2. Holders \ {n} \in SUBSET Node
    BY DEF Holders
  <2>3. Cardinality(Holders') = Cardinality(Holders \ {n}) + 1
    BY <2>1, <2>2, NodesCount, FS_AddElement
  <2> QED BY <2>2, <2>3, NodesCount
<1>6. /\ before \subseteq net'
      /\ \A o \in net' :
           \/ o \in before
           \/ /\ o.kind = "Forward" /\ o.to \in Node \ {n} /\ o.to \notin Deaf /\ o.from = n
              /\ o.val = Proposal /\ o.sigs = sigs /\ o.due = Soon("Forward")
  BY ForwardsSent
<1>7. NetOK'
  <2> SUFFICES ASSUME NEW o \in net' PROVE Expected(o)'
    BY DEF NetOK
  <2>1. CASE o \in before
    BY <1>4, <2>1, ExpectedKeeps DEF PromptStep, Good, NetOK
  <2>2. CASE o \notin before
    <3>1. o.due \in Nat /\ o.due >= now /\ o.due <= now + 1
      BY <1>1, <1>6, <2>2 DEF Soon
    <3>2. /\ o.kind = "Forward" /\ o.to \in Backups \cup {View} /\ o.from # o.to
          /\ o.val = Proposal /\ o.sigs = sigs /\ o.from = n
      BY <1>6, <2>2, NotDeaf
    <3>3. o.due <= Start + o.sigs - 1
      BY <1>1, <3>1, <3>2
    <3>4. GoodForward(o)'
      BY <1>0, <1>5, <3>2, <3>3 DEF GoodForward
    <3> QED BY <3>1, <3>4 DEF Expected
  <2> QED BY <2>1, <2>2
<1>8. TasksOK'
  <2> SUFFICES ASSUME NEW k \in tasks' PROVE GoodTask(k)'
    BY DEF TasksOK
  <2>1. GoodTask(k)
    BY DEF PromptStep, Good, TasksOK
  <2>2. Cardinality(Holders' \ {k.node}) >= k.sigs - 1
    <3>1. /\ Cardinality(Holders \ {k.node}) \in Nat /\ Cardinality(Holders' \ {k.node}) \in Nat
          /\ Cardinality(Holders \ {k.node}) <= Cardinality(Holders' \ {k.node})
      BY <1>0, <1>4, HoldersGrow
    <3> QED BY <2>1, <3>1 DEF GoodTask
  <2> QED BY <1>0, <2>1, <2>2 DEF GoodTask
<1>9. TimersOK' /\ ViewCommits' /\ DecidedOK' /\ ResultsOK'
  BY TimersStay, HistoryStays
<1>10. NodesTyped'
  <2>1. extrSet' \in [Node -> SUBSET Value]
    BY <1>1, <1>2
  <2> QED BY <2>1 DEF PromptStep, Good, NodesTyped
<1>11. StartsKnown'
  BY <1>0, <1>6 DEF PromptStep, Good, StartsKnown, InitComing
<1>12. SetsOK'
  <2>1. ASSUME NEW q \in Backups, startTime[q] = Start PROVE extrSet'[q] \subseteq {Proposal}
    <3>1. extrSet[q] \subseteq {Proposal}
      BY <2>1 DEF PromptStep, Good, SetsOK
    <3> QED BY <1>3, <3>1, NotDeaf
  <2>2. ASSUME View \in Honest PROVE extrSet'[View] = {Proposal}
    <3>1. n # View
      BY <2>2, NotDeaf DEF Honest
    <3> QED BY <1>1, <1>3, <2>2, <3>1 DEF PromptStep, Good, SetsOK
  <2> QED BY <1>0, <2>1, <2>2 DEF SetsOK
<1>13. StartsDiffer'
  BY DEF PromptStep, Good, StartsDiffer
<1>14. Has(n)' /\ \A q \in Backups : Has(q) => Has(q)'
  <2>1. Proposal \in extrSet'[n]
    <3>1. n \in Node
      BY <1>1
    <3>2. extrSet'[n] = extrSet[n] \cup {Proposal}
      BY <1>3, <3>1, Zenon
    <3> QED BY <3>2, Zenon
  <2>2. ASSUME NEW q \in Backups PROVE extrSet[q] \subseteq extrSet'[q]
    <3>1. q \in Node
      BY NotDeaf
    <3> QED BY <1>3, <3>1
  <2> QED BY <1>0, <2>1, <2>2 DEF Has
<1> QED BY <1>7, <1>8, <1>9, <1>10, <1>11, <1>12, <1>13, <1>14

LEMMA AddGood ==
  ASSUME PromptStep, NEW k \in tasks, DsAdd(k), UNCHANGED results,
         UNCHANGED <<now, startTime, setup, proposerVars>>
  PROVE  Good'
<1>0. /\ UNCHANGED <<now, startTime, pc, sessions, timers, commitValue, decided, results>>
      /\ extrSet' = [extrSet EXCEPT ![k.node] = @ \cup {k.val}]
      /\ ForwardOrSpin(k.node, k.val, k.sigs, net, tasks \ {k}, {})
  BY DEF DsAdd, proposerVars
<1>1. GoodTask(k)
  BY DEF PromptStep, Good, TasksOK
<1>2. sessions # <<>> /\ pc # "start" /\ Targets # {} /\ k.val = Proposal
  BY <1>1 DEF GoodTask
<1>3. now \in Nat /\ Start \in Nat
  BY <1>2, SessionFacts DEF PromptStep
<1>4. startTime[k.node] = Start
  BY <1>1, <1>2, KnowsStart DEF GoodTask
<1>5. Round(k.node) < k.sigs
  BY <1>1, <1>3, <1>4 DEF Round, GoodTask
<1>6. Round(k.node) \in Int /\ k.sigs \in Nat
  BY <1>1, <1>3, <1>4 DEF Round, GoodTask
<1>7. /\ Wire(net, {} \cup ToAll(k.node, ForwardMsg(k.node, Proposal, k.sigs + 1)))
      /\ tasks' = tasks \ {k}
  BY <1>0, <1>2, <1>5, <1>6 DEF ForwardOrSpin
<1>8. /\ k.node \in Backups \/ (k.node = View /\ View \in malicious)
      /\ Cardinality(Holders \ {k.node}) >= (k.sigs + 1) - 2
      /\ k.sigs + 1 \in Nat /\ k.sigs + 1 >= 2 /\ now <= Start + (k.sigs + 1) - 2
  BY <1>1, <1>3, NotDeaf DEF GoodTask
<1>9. /\ NetOK' /\ TasksOK' /\ TimersOK' /\ NodesTyped' /\ StartsKnown' /\ SetsOK'
      /\ ViewCommits' /\ DecidedOK' /\ StartsDiffer' /\ ResultsOK'
      /\ Has(k.node)' /\ \A q \in Backups : Has(q) => Has(q)'
  BY <1>0, <1>2, <1>7, <1>8, ExtractGood
<1>10. AllServed'
  <2>0. UNCHANGED <<malicious, Honest, Backups, Targets, Last, Start, Proposal>>
    BY <1>0, SameSession DEF PromptStep
  <2>1. net \subseteq net' /\ \A o \in net' : o \in net \/ o.kind = "Forward"
    BY <1>7, ForwardsSent
  <2>2. \A q : Proposed(q)' <=> Proposed(q)
    BY <2>1 DEF Proposed
  <2>3. Past' = Past
    BY <2>0, <2>2 DEF Past
  <2>4. \A q : /\ ForwardComing(q) => ForwardComing(q)'
               /\ Handling(q) => Handling(q)' \/ q = k.node
    BY <1>7, <2>1 DEF ForwardComing, Handling
  <2>5. \A q \in Backups : Served(q) => Served(q)'
    BY <1>9, <2>2, <2>4 DEF Served
  <2> QED BY <1>0, <1>9, <2>2, <2>3, <2>5, ServedStep
<1> QED BY <1>9, <1>10, SideGood

LEMMA DsGood ==
  ASSUME PromptStep, DsNext, UNCHANGED results
  PROVE  Good'
<1>0. UNCHANGED <<now, startTime, setup, proposerVars>>
  BY DEF DsNext
<1>1. Ready \subseteq tasks
  BY DEF Ready, Urgent
<1>2. ASSUME NEW k \in Ready, DsAdd(k) PROVE Good'
  BY <1>0, <1>1, <1>2, AddGood
<1>3. ASSUME NEW k \in Ready, DsLeaveLoop(k) PROVE Good'
  BY <1>1, <1>3 DEF DsLeaveLoop, PromptStep, Good, TasksOK, GoodTask
<1> QED BY <1>0, <1>2, <1>3, ForwardGoodStep, CommitGood DEF DsNext

\* A proposal is handled: nodes that hear nothing of it cost one more fault.
LEMMA HandleProposeGood ==
  ASSUME PromptStep, NEW m \in Inbox, HandlePropose(m)
  PROVE  Good'
<1>0. /\ UNCHANGED <<now, startTime, pc, sessions, timers, commitValue, decided, results>>
      /\ m.kind = "Propose" /\ m \in net
      /\ extrSet' = [extrSet EXCEPT ![m.to] = @ \cup {m.val}]
      /\ ForwardOrSpin(m.to, m.val, 1, net \ {m}, tasks, {})
  BY FromNet DEF HandlePropose, DsHandlePropose, proposerVars
<1>1. sessions # <<>> /\ GoodPropose(m) /\ m.due >= now
  BY <1>0, FromNet DEF Expected, GoodInit, GoodForward, GoodQuery, GoodReply
<1>2. /\ pc # "start" /\ m.to \in Targets /\ m.to \in Backups /\ m.val = Proposal
      /\ m.due = Start
  BY <1>1 DEF GoodPropose, Targets
<1>3. now \in Nat /\ Start \in Nat /\ now <= Start /\ m.to # View
  BY <1>1, <1>2, SessionFacts, NotDeaf DEF PromptStep
<1>4. startTime[m.to] = Start
  BY <1>1, <1>2, KnowsStart
<1>5. Round(m.to) = 0
  BY <1>3, <1>4 DEF Round
<1>6. /\ Wire(net \ {m}, {} \cup ToAll(m.to, ForwardMsg(m.to, Proposal, 2)))
      /\ tasks' = tasks
  <2>1. 1 + 1 = 2 /\ ~(Round(m.to) >= 1)
    BY <1>5
  <2> QED BY <1>0, <1>2, <2>1, Zenon DEF ForwardOrSpin
<1>7. /\ NetOK' /\ TasksOK' /\ TimersOK' /\ NodesTyped' /\ StartsKnown' /\ SetsOK'
      /\ ViewCommits' /\ DecidedOK' /\ StartsDiffer' /\ ResultsOK'
      /\ Has(m.to)' /\ \A q \in Backups : Has(q) => Has(q)'
  <2>1. 2 \in Nat /\ 2 >= 2 /\ now <= Start + 2 - 2
        /\ Cardinality(Holders \ {m.to}) >= 2 - 2
    <3>1. Holders \ {m.to} \in SUBSET Node
      BY DEF Holders
    <3> QED BY <1>3, <3>1, NodesCount
  <2>2. net \ {m} \subseteq net /\ \A o \in net \ (net \ {m}) : o.kind = "Propose"
    BY <1>0
  <2>3. Targets # {} /\ extrSet' = [extrSet EXCEPT ![m.to] = @ \cup {Proposal}]
    BY <1>0, <1>2
  <2> QED BY <1>0, <1>1, <1>2, <1>6, <2>1, <2>2, <2>3, ExtractGood
<1>8. AllServed'
  <2>0. UNCHANGED <<malicious, Honest, Backups, Targets, Last, Start, Proposal>>
    BY <1>0, SameSession DEF PromptStep
  <2>1. /\ net \ {m} \subseteq net'
        /\ \A q \in Backups \ {m.to} :
             \/ \E o \in net' : o.kind = "Forward" /\ o.to = q /\ o.sigs = 2
             \/ faults' >= faults + 1
    BY <1>6, ForwardsSent
  <2>2. \A q : Proposed(q) => Proposed(q)' \/ q = m.to
    BY <2>1 DEF Proposed
  <2>3. \A q : /\ Handling(q) => Handling(q)'
               /\ ForwardComing(q) => ForwardComing(q)'
    BY <1>0, <1>6, <2>1 DEF Handling, ForwardComing
  <2>4. /\ faults = 0 => \A q \in Targets : Has(q) \/ Proposed(q)
        /\ \A q \in Backups : Served(q) \/ faults >= Cardinality(Past)
    BY <1>1, <1>2 DEF PromptStep, Good, AllServed
  <2>5. faults \in Nat /\ faults' \in Nat /\ faults' >= faults
    BY DEF PromptStep, Counted
  <2>6. ASSUME faults' = 0, NEW q \in Targets PROVE Has(q)' \/ Proposed(q)'
    <3>1. q \in Backups /\ faults = 0
      BY <2>5, <2>6 DEF Targets
    <3> QED BY <1>7, <2>2, <2>4, <3>1
  <2>7. Cardinality(Past)' <= Cardinality(Past) + 1 /\ Cardinality(Past)' \in Nat
        /\ Cardinality(Past) \in Nat
    <3>1. Past' \in SUBSET (Past \cup {m.to})
      BY <2>0, <2>2 DEF Past
    <3>2. IsFiniteSet(Past \cup {m.to})
          /\ Cardinality(Past \cup {m.to}) <= Cardinality(Past) + 1
      BY TargetsFinite, FS_AddElement
    <3>3. IsFiniteSet(Past') /\ Cardinality(Past') <= Cardinality(Past \cup {m.to})
      BY <3>1, <3>2, FS_Subset
    <3>4. Cardinality(Past') \in Nat /\ Cardinality(Past \cup {m.to}) \in Nat
      BY <3>2, <3>3, FS_CardinalityType
    <3> QED BY <3>2, <3>3, <3>4, TargetsFinite
  <2>8. ASSUME NEW q \in Backups PROVE Served(q)' \/ faults' >= Cardinality(Past)'
    <3>1. CASE q = m.to
      BY <1>7, <3>1 DEF Served
    <3>2. CASE q # m.to /\ Served(q)
      BY <1>7, <2>2, <2>3, <3>2 DEF Served
    <3>3. CASE q # m.to /\ ~Served(q)
      <4>1. faults >= Cardinality(Past)
        BY <2>4, <3>3
      <4>2. ForwardComing(q)' \/ faults' >= faults + 1
        BY <2>1, <3>3 DEF ForwardComing
      <4> QED BY <2>5, <2>7, <4>1, <4>2 DEF Served
    <3> QED BY <3>1, <3>2, <3>3
  <2> QED BY <2>0, <2>6, <2>8 DEF AllServed
<1> QED BY <1>7, <1>8, SideGood

LEMMA HandleInitGood ==
  ASSUME PromptStep, NEW m \in Inbox, HandleInit(m)
  PROVE  Good'
<1>0. /\ UNCHANGED <<now, pc, sessions, tasks, commitValue, decided, results>>
      /\ m.kind = "Init" /\ m.to \in Node /\ m \in net /\ net' = net \ {m}
      /\ startTime' = [startTime EXCEPT ![m.to] = m.start]
      /\ extrSet' = [extrSet EXCEPT ![m.to] = {}]
      /\ timers' = timers \cup DsTimers(m.to, m.start)
  BY FromNet DEF HandleInit, DsHandleInit, proposerVars
<1>1. sessions # <<>> /\ GoodInit(m) /\ m.due >= now
  BY <1>0, FromNet DEF Expected, GoodPropose, GoodForward, GoodQuery, GoodReply
<1>2. /\ pc = "start" /\ m.to \in Backups /\ m.start = Start /\ m.due = Start - 1
      /\ m.to # View
  BY <1>0, <1>1, Places, NotDeaf DEF GoodInit
<1>3. now \in Nat /\ Start \in Nat /\ F \in Nat /\ now < Start
  BY <1>1, <1>2, SessionFacts, Places DEF PromptStep
<1>4. UNCHANGED <<malicious, Honest, Backups, Targets, Last, Start, Proposal>>
  BY <1>0, SameSession DEF PromptStep
<1>5. startTime \in [Node -> Nat] /\ extrSet \in [Node -> SUBSET Value]
  BY DEF PromptStep, Good, NodesTyped
<1>6. \A n \in Node : /\ startTime'[n] = IF n = m.to THEN Start ELSE startTime[n]
                      /\ extrSet'[n] = IF n = m.to THEN {} ELSE extrSet[n]
  BY <1>0, <1>2, <1>5
<1>7. NodesTyped'
  <2>1. startTime' \in [Node -> Nat] /\ extrSet' \in [Node -> SUBSET Value]
    BY <1>0, <1>2, <1>3, <1>5
  <2> QED BY <1>0, <2>1 DEF PromptStep, Good, NodesTyped
<1>8. PICK t : t = [node |-> m.to, at |-> Start + F + 1, what |-> "dsCommit"]
               /\ timers' = timers \cup {t}
  BY <1>0, <1>2 DEF DsTimers
<1>9. TimersOK'
  <2>1. t.at >= now
    BY <1>3, <1>8
  <2>2. startTime'[m.to] = Start
    BY <1>0, <1>6
  <2>3. GoodTimer(t)'
    BY <1>0, <1>1, <1>2, <1>4, <1>8, <2>1, <2>2 DEF GoodTimer
  <2>4. ASSUME NEW u \in timers PROVE GoodTimer(u)'
    <3>1. GoodTimer(u)
      BY DEF PromptStep, Good, TimersOK
    <3>2. u.node \in Backups \cup {View} => u.node \in Node
      BY Places, NotDeaf
    <3>3. u.node \in Node /\ startTime[u.node] = Start => startTime'[u.node] = Start
      BY <1>6
    <3> QED BY <1>0, <1>4, <3>1, <3>2, <3>3 DEF GoodTimer
  <2> QED BY <1>8, <2>3, <2>4 DEF TimersOK
<1>10. StartsKnown'
  <2>1. startTime'[View] = Start
    BY <1>1, <1>2, <1>6, Places DEF PromptStep, Good, StartsKnown
  <2>2. ASSUME NEW n \in Backups PROVE startTime'[n] = Start \/ InitComing(n)'
    <3>1. n \in Node /\ (startTime[n] = Start \/ InitComing(n))
      BY <1>1, NotDeaf DEF PromptStep, Good, StartsKnown
    <3>2. n # m.to /\ InitComing(n) => InitComing(n)'
      BY <1>0 DEF InitComing
    <3> QED BY <1>6, <3>1, <3>2
  <2> QED BY <1>0, <1>1, <1>4, <2>1, <2>2 DEF StartsKnown
<1>11. SetsOK'
  <2>1. ASSUME NEW n \in Backups, startTime'[n] = Start PROVE extrSet'[n] = {}
    <3>1. n \in Node
      BY NotDeaf
    <3>2. startTime[n] = Start => extrSet[n] = {}
      BY <1>1, <1>2 DEF PromptStep, Good, SetsOK
    <3> QED BY <1>6, <2>1, <3>1, <3>2
  <2>2. View \in Honest => extrSet'[View] = {}
    BY <1>1, <1>2, <1>6, Places DEF PromptStep, Good, SetsOK
  <2> QED BY <1>0, <1>2, <1>4, <2>1, <2>2 DEF SetsOK
<1>12. AllServed'
  BY <1>0, <1>2 DEF AllServed
<1>13. TasksOK' /\ StartsDiffer'
  BY <1>0, <1>2, <1>4 DEF PromptStep, Good, TasksOK, GoodTask, StartsDiffer
<1>14. NetOK' /\ ViewCommits' /\ DecidedOK' /\ ResultsOK'
  BY <1>0, <1>2, TakeNet, HistoryStays
<1> QED BY <1>7, <1>9, <1>10, <1>11, <1>12, <1>13, <1>14, SideGood

LEMMA TickGood ==
  ASSUME PromptStep, Tick, UNCHANGED <<dsVars, results>>
  PROVE  Good'
<1>0. /\ UNCHANGED <<timers, tasks, startTime, net, pc, sessions, extrSet, commitValue, decided,
                     results>>
      /\ now' = now + 1 /\ now \in Nat
  BY DEF Tick, wireVars, proposerVars, dsVars, PromptStep, SessionInv, ProposerTyped
<1>1. tasks = {}
  BY DEF Tick, TickEnabled, Runnable, PromptStep, Good, TasksOK, GoodTask
<1>2. TasksOK' /\ StartsKnown' /\ SetsOK' /\ AllServed' /\ StartsDiffer'
  BY <1>0, <1>1, SideStep
<1>3. UNCHANGED <<malicious, Honest, Backups, Targets, Last, Start, Proposal>>
  BY <1>0, SameSession DEF PromptStep
<1>4. NetOK'
  <2> SUFFICES ASSUME NEW m \in net PROVE Expected(m)'
    BY <1>0 DEF NetOK
  <2>1. Expected(m) /\ m.due > now
    BY DEF PromptStep, Good, NetOK, Tick, TickEnabled
  <2>2. m.due \in Nat /\ m.due >= now'
    BY <1>0, <2>1 DEF Expected
  <2>3. GoodInit(m) => GoodInit(m)'
    BY <1>0, <1>3 DEF GoodInit
  <2>4. GoodPropose(m) => GoodPropose(m)'
    BY <1>0, <1>3 DEF GoodPropose
  <2>5. GoodForward(m) => GoodForward(m)'
    BY <1>0, <1>3 DEF GoodForward, Holders, Has
  <2>6. GoodQuery(m) => GoodQuery(m)'
    BY <1>0, <1>3 DEF GoodQuery
  <2>7. GoodReply(m) => GoodReply(m)'
    BY <1>0, <1>3 DEF GoodReply
  <2> QED BY <1>0, <2>1, <2>2, <2>3, <2>4, <2>5, <2>6, <2>7 DEF Expected
<1>5. TimersOK'
  <2> SUFFICES ASSUME NEW t \in timers PROVE GoodTimer(t)'
    BY <1>0 DEF TimersOK
  <2>1. GoodTimer(t) /\ t.at > now
    BY DEF PromptStep, Good, TimersOK, Tick, TickEnabled
  <2>2. CASE sessions # <<>> /\ t.at = Start + F + 1
    <3>1. t.at >= now'
      BY <1>0, <2>1, <2>2, SessionFacts, Places DEF PromptStep
    <3> QED BY <1>0, <1>3, <2>1, <3>1 DEF GoodTimer
  <2> QED BY <1>0, <1>3, <2>1, <2>2 DEF GoodTimer
<1>6. ViewCommits' /\ DecidedOK' /\ ResultsOK'
  BY <1>0, HistoryStays
<1>7. NodesTyped'
  BY <1>0 DEF PromptStep, Good, NodesTyped
<1> QED BY <1>2, <1>4, <1>5, <1>6, <1>7, SideGood

-----------------------------------------------------------------------------
(* The view starts a session and proposes.                                 *)

LEMMA ViewProposeGood ==
  ASSUME PromptStep, ViewPropose
  PROVE  Good'
<1>0. /\ UNCHANGED <<now, tasks, startTime, sessions, commitValue, decided, results>>
      /\ pc' = "wait" /\ extrSet' = [extrSet EXCEPT ![View] = @ \cup {Last.val}]
  BY DEF ViewPropose, RunPropose, DsViewPropose
<1>1. PICK m : m = [kind |-> "Propose", to |-> Client, due |-> now, val |-> Proposal]
  OBVIOUS
<1> DEFINE msgs == {p \in ToAll(View, m) : View \in malicious => p.to \in {1, 2}}
<1>2. PICK t \in Ripe : t.what = "start" /\ timers' = timers \ {t} /\ Wire(net, msgs)
  <2>1. PICK t \in Ripe :
          /\ t.what = "start" /\ timers' = (timers \ {t}) \cup {}
          /\ Wire(net, {p \in ToAll(View, [kind |-> "Propose", to |-> Client, due |-> now,
                                val |-> IF View \in malicious THEN Bad ELSE Last.val]) :
                          View \in malicious => p.to \in {1, 2}})
    BY DEF ViewPropose, RunPropose
  <2> QED BY <1>1, <2>1 DEF Proposal
<1>3. t \in timers /\ t.at <= now /\ pc = "start" /\ t = StartTimer /\ sessions # <<>>
      /\ now <= Start
  BY <1>2, FromTimers DEF PromptStep, SessionInv, StartPending, ProposerTyped, Start
<1>4. now \in Nat /\ Start \in Nat /\ Last.val \in String /\ View \in Node
  BY <1>3, SessionFacts, Places DEF PromptStep
<1>5. now = Start
  BY <1>3, <1>4 DEF StartTimer, Start
<1>6. UNCHANGED <<malicious, Honest, Backups, Targets, Last, Start, Proposal>>
  BY <1>0, SameSession DEF PromptStep
<1>7. IsFiniteSet(msgs)
  BY ToAllFinite, FS_Subset
<1>8. PICK lost : /\ lost \subseteq msgs /\ IsFiniteSet(lost)
                  /\ net' = net \cup ({p \in msgs : p.to \notin Deaf} \ lost)
                  /\ faults' = faults + Cardinality(lost)
  BY <1>2, <1>7, SyncWire DEF PromptStep, Prompt, Synchronous
<1>9. ASSUME NEW p \in msgs, p.to \notin Deaf
      PROVE  p.kind = "Propose" /\ p.to \in Targets /\ p.val = Proposal /\ p.due = Start
  <2>1. /\ p.kind = "Propose" /\ p.to \in Node \ {View} /\ p.val = Proposal /\ p.due = Start
        /\ View \in malicious => p.to \in {1, 2}
    BY <1>1, <1>5 DEF ToAll
  <2> QED BY <1>9, <2>1, NotDeaf DEF Targets
<1>10. NetOK'
  <2> SUFFICES ASSUME NEW o \in net' PROVE Expected(o)'
    BY DEF NetOK
  <2>1. CASE o \in net
    <3>1. Expected(o)
      BY <2>1 DEF PromptStep, Good, NetOK
    <3>2. ~GoodInit(o)
      BY <1>4, <1>5, <3>1 DEF GoodInit, Expected
    <3>3. ~GoodPropose(o) /\ ~GoodForward(o)
      BY <1>3 DEF GoodPropose, GoodForward
    <3>4. GoodQuery(o) => GoodQuery(o)'
      BY <1>3, <1>6 DEF GoodQuery
    <3>5. GoodReply(o) => GoodReply(o)'
      BY <1>3, <1>6 DEF GoodReply
    <3> QED BY <1>0, <3>1, <3>2, <3>3, <3>4, <3>5 DEF Expected
  <2>2. CASE o \in msgs /\ o.to \notin Deaf
    <3>1. GoodPropose(o)'
      BY <1>0, <1>6, <1>9, <2>2 DEF GoodPropose
    <3>2. o.due \in Nat /\ o.due >= now
      BY <1>4, <1>5, <1>9, <2>2
    <3> QED BY <1>0, <1>3, <3>1, <3>2 DEF Expected
  <2> QED BY <1>8, <2>1, <2>2
<1>11. TasksOK'
  BY <1>0, <1>3 DEF PromptStep, Good, TasksOK, GoodTask
<1>12. TimersOK'
  BY <1>0, <1>2, TimersStay
<1>13. ViewCommits' /\ DecidedOK' /\ ResultsOK'
  BY <1>0, <1>2, <1>3, HistoryStays
<1>14. StartsKnown' /\ StartsDiffer'
  <2>1. \A n : InitComing(n) => InitComing(n)'
    BY <1>8 DEF InitComing
  <2> QED BY <1>0, <1>6, <2>1 DEF PromptStep, Good, StartsKnown, StartsDiffer
<1>15. extrSet \in [Node -> SUBSET Value]
  BY DEF PromptStep, Good, NodesTyped
<1>16. NodesTyped'
  <2>1. Last.val \in Value
    BY <1>4 DEF Value
  <2>2. extrSet' \in [Node -> SUBSET Value]
    BY <1>0, <1>4, <1>15, <2>1
  <2> QED BY <1>0, <2>2 DEF PromptStep, Good, NodesTyped
<1>17. SetsOK'
  <2>1. ASSUME NEW n \in Backups, startTime[n] = Start PROVE extrSet'[n] = {}
    <3>1. extrSet[n] = {}
      BY <1>3, <2>1 DEF PromptStep, Good, SetsOK
    <3> QED BY <1>0, <1>15, <3>1, NotDeaf
  <2>2. ASSUME View \in Honest PROVE extrSet'[View] = {Proposal}
    <3>1. extrSet[View] = {} /\ Proposal = Last.val
      BY <1>3, <2>2 DEF PromptStep, Good, SetsOK, Proposal, Honest
    <3> QED BY <1>0, <1>4, <1>15, <3>1
  <2> QED BY <1>0, <1>6, <2>1, <2>2 DEF SetsOK
<1>18. AllServed'
  <2>1. \A p \in Targets : [m EXCEPT !.to = p] \in msgs /\ p \notin Deaf
    BY <1>1, NotDeaf DEF ToAll, Targets
  <2>2. \A p \in Targets : [m EXCEPT !.to = p].to = p /\ [m EXCEPT !.to = p].kind = "Propose"
    BY <1>1
  <2>3. ASSUME NEW p \in Targets, [m EXCEPT !.to = p] \notin lost PROVE Proposed(p)'
    <3>1. [m EXCEPT !.to = p] \in net'
      BY <1>8, <2>1, <2>2, <2>3
    <3> QED BY <2>2, <3>1 DEF Proposed
  <2>4. Cardinality(lost) \in Nat /\ faults \in Nat
    BY <1>8, FS_CardinalityType DEF PromptStep, Counted
  <2>5. ASSUME faults' = 0, NEW p \in Targets PROVE Proposed(p)'
    <3>1. Cardinality(lost) = 0
      BY <1>8, <2>4, <2>5
    <3>2. lost = {}
      BY <1>8, <3>1, FS_EmptySet
    <3> QED BY <2>3, <3>2
  <2>6. faults' >= Cardinality(Past)'
    <3>1. \A p \in Past' : [m EXCEPT !.to = p] \in lost
      BY <1>6, <2>3 DEF Past
    <3>2. "to" \in DOMAIN m
      BY <1>1
    <3>3. Cardinality(Past') <= Cardinality(lost)
      BY <1>8, <3>1, <3>2, LostCount
    <3>4. Cardinality(Past') \in Nat
      <4>1. Past' \in SUBSET Targets
        BY <1>6 DEF Past
      <4> QED BY <4>1, TargetsFinite, FS_Subset, FS_CardinalityType
    <3> QED BY <1>8, <2>4, <3>3, <3>4
  <2> QED BY <1>6, <2>5, <2>6 DEF AllServed
<1> QED BY <1>10, <1>11, <1>12, <1>13, <1>14, <1>16, <1>17, <1>18, SideGood

\* Nothing of the session before is left when the view starts the next one.
LEMMA NothingLeft ==
  ASSUME PromptStep, pc = "poll"
  PROVE  /\ tasks = {} /\ \A t \in timers : t.what \in {"start", "done"}
         /\ \A m \in net : \/ m.kind = "Inject"
                           \/ sessions # <<>> /\ View \notin Honest
                                /\ (GoodQuery(m) \/ GoodReply(m))
         /\ \A n \in Backups : startTime[n] <= now
<1>0. now \in Nat
  BY DEF PromptStep, SessionInv, ProposerTyped
<1>1. CASE sessions = <<>>
  <2>1. \A n \in Backups : startTime[n] = 0
    BY <1>1 DEF PromptStep, Good, StartsKnown
  <2> QED BY <1>0, <1>1, <2>1 DEF PromptStep, Good, TasksOK, GoodTask, TimersOK, GoodTimer,
                                  NetOK, Expected
<1>2. CASE sessions # <<>>
  <2>0. now >= Start + N + 6
    BY <1>2 DEF PromptStep, SessionInv, SessionHadTime, Start
  <2>1. Start \in Nat /\ N \in Nat /\ F \in Nat /\ F < N
    BY <1>2, SessionFacts, Places DEF PromptStep
  <2>2. \A S \in SUBSET Node : Cardinality(S) \in Nat /\ Cardinality(S) <= N
    BY NodesCount
  <2>3. tasks = {}
    <3> SUFFICES ASSUME NEW k \in tasks PROVE FALSE
      OBVIOUS
    <3>1. k.sigs \in Nat /\ now <= Start + k.sigs - 1 /\ Cardinality(Holders \ {k.node}) >= k.sigs - 1
      BY DEF PromptStep, Good, TasksOK, GoodTask
    <3>2. Holders \ {k.node} \in SUBSET Node
      BY DEF Holders
    <3>3. Cardinality(Holders \ {k.node}) \in Nat /\ Cardinality(Holders \ {k.node}) <= N
      BY <2>2, <3>2
    <3> QED BY <1>0, <2>0, <2>1, <3>1, <3>3
  <2>4. ASSUME NEW t \in timers PROVE t.what \in {"start", "done"}
    <3>1. ~(t.at = Start + F + 1 /\ t.at >= now)
      BY <1>0, <2>0, <2>1
    <3> QED BY <3>1 DEF PromptStep, Good, TimersOK, GoodTimer
  <2>5. ASSUME NEW m \in net
        PROVE  m.kind = "Inject" \/ (View \notin Honest /\ (GoodQuery(m) \/ GoodReply(m)))
    <3>1. Expected(m)
      BY DEF PromptStep, Good, NetOK
    <3>2. m.due \in Nat /\ m.due > Start + N /\ m.due > Start + F + 3
      BY <1>0, <2>0, <2>1, <3>1 DEF Expected
    <3>3. ~GoodInit(m) /\ ~GoodPropose(m)
      BY <2>1, <3>2 DEF GoodInit, GoodPropose
    <3>4. ~GoodForward(m)
      <4>1. Holders \in SUBSET Node
        BY DEF Holders
      <4>2. Cardinality(Holders) \in Nat /\ Cardinality(Holders) <= N
        BY <2>2, <4>1
      <4> QED BY <2>1, <3>2, <4>2 DEF GoodForward
    <3>5. View \in Honest => ~GoodQuery(m) /\ ~GoodReply(m)
      BY <2>1, <3>2 DEF GoodQuery, GoodReply
    <3> QED BY <3>1, <3>3, <3>4, <3>5 DEF Expected
  <2>6. \A n \in Backups : startTime[n] = Start
    BY <1>2, KnowsStart
  <2> QED BY <1>0, <1>2, <2>0, <2>1, <2>3, <2>4, <2>5, <2>6
<1> QED BY <1>1, <1>2

LEMMA ViewInitGood ==
  ASSUME PromptStep, ViewInit
  PROVE  Good'
<1> DEFINE begin == [node |-> View, at |-> now + 1, what |-> "start"]
           done == [node |-> View, at |-> now + N + 7, what |-> "done"]
           commit == [node |-> View, at |-> (now + 1) + F + 1, what |-> "dsCommit"]
<1>0. /\ UNCHANGED <<now, tasks, commitValue, decided, results>>
      /\ pc = "poll" /\ pc' = "start" /\ stringQueue # <<>>
      /\ timers' = timers \cup {commit, done, begin}
      /\ startTime' = [startTime EXCEPT ![View] = now + 1]
      /\ extrSet' = [extrSet EXCEPT ![View] = {}]
      /\ sessions' = Append(sessions, [start |-> now + 1, val |-> Head(stringQueue)])
  BY DEF ViewInit, RunInit, DsTimers, DsHandleInit
<1>1. PICK init : /\ init = [kind |-> "Init", to |-> Client, start |-> now + 1, due |-> now]
                  /\ Wire(net, ToAll(View, init) \cup {init})
  BY DEF ViewInit, RunInit
<1>2. PICK e : e = [start |-> now + 1, val |-> Head(stringQueue)]
  OBVIOUS
<1>3. now \in Nat /\ e \in Session /\ View \in Node /\ F \in Nat
  BY <1>0, <1>2, HeadTailProperties, Places DEF PromptStep, SessionInv, ProposerTyped, Session
<1>4. /\ sessions' # <<>> /\ Last' = e /\ Len(sessions') = Len(sessions) + 1
      /\ \A i \in 1..Len(sessions) : sessions'[i] = sessions[i]
      /\ Len(sessions) \in Nat
  BY <1>0, <1>2, <1>3, LastOfAppend, LenProperties DEF PromptStep, SessionInv, ProposerTyped
<1>5. Start' = now + 1
  BY <1>2, <1>4 DEF Start
<1>6. UNCHANGED <<malicious, Honest, Backups, Targets>>
  BY DEF PromptStep, malicious, Honest, Backups, Targets
<1>7. /\ tasks = {} /\ \A t \in timers : t.what \in {"start", "done"}
      /\ \A m \in net : \/ m.kind = "Inject"
                        \/ sessions # <<>> /\ View \notin Honest
                             /\ (GoodQuery(m) \/ GoodReply(m))
      /\ \A n \in Backups : startTime[n] <= now
  BY <1>0, NothingLeft
<1>8. net' = net \cup {o \in ToAll(View, init) \cup {init} : o.to \notin Deaf}
  <2>1. IsFiniteSet(ToAll(View, init) \cup {init})
    BY ToAllFinite, FS_AddElement
  <2>2. PICK lost : /\ lost \subseteq ToAll(View, init) \cup {init}
                    /\ \A o \in lost : o.kind \in setup.lossKind
                    /\ net' = net \cup ({o \in ToAll(View, init) \cup {init} : o.to \notin Deaf}
                                          \ lost)
    BY <1>1, <2>1, SyncWire DEF PromptStep, Prompt, Synchronous
  <2>3. \A o \in ToAll(View, init) \cup {init} : o.kind = "Init"
    BY <1>1 DEF ToAll
  <2>4. lost = {}
    BY <2>2, <2>3 DEF PromptStep, Prompt
  <2> QED BY <2>2, <2>4
<1>9. NetOK'
  <2> SUFFICES ASSUME NEW o \in net' PROVE Expected(o)'
    BY DEF NetOK
  <2>1. CASE o \in net
    <3>1. Expected(o)
      BY <2>1 DEF PromptStep, Good, NetOK
    <3>2. o.due \in Nat /\ o.due >= now'
      BY <1>0, <3>1 DEF Expected
    <3>3. CASE o.kind = "Inject"
      BY <3>2, <3>3 DEF Expected
    <3>4. CASE View \notin Honest /\ (GoodQuery(o) \/ GoodReply(o))
      <4>1. GoodQuery(o)' \/ GoodReply(o)'
        BY <1>6, <3>4 DEF GoodQuery, GoodReply
      <4> QED BY <1>4, <3>2, <4>1 DEF Expected
    <3> QED BY <1>7, <2>1, <3>3, <3>4
  <2>2. CASE o \in ToAll(View, init) \cup {init} /\ o.to \notin Deaf
    <3>1. /\ o.kind = "Init" /\ o.start = now + 1 /\ o.due = now
          /\ o.to \in Node \ {View} \/ o.to = Client
      BY <1>1, <2>2 DEF ToAll
    <3>2. o.to \in Backups \cup {Client}
      BY <2>2, <3>1, NotDeaf
    <3>3. GoodInit(o)'
      BY <1>0, <1>3, <1>5, <1>6, <3>1, <3>2 DEF GoodInit
    <3> QED BY <1>0, <1>3, <1>4, <3>1, <3>3 DEF Expected
  <2> QED BY <1>8, <2>1, <2>2
<1>10. TasksOK'
  BY <1>0, <1>7 DEF TasksOK
<1>11. startTime \in [Node -> Nat] /\ extrSet \in [Node -> SUBSET Value]
  BY DEF PromptStep, Good, NodesTyped
<1>12. \A n \in Node : /\ startTime'[n] = IF n = View THEN now + 1 ELSE startTime[n]
                       /\ extrSet'[n] = IF n = View THEN {} ELSE extrSet[n]
  BY <1>0, <1>11
<1>13. NodesTyped'
  <2>1. startTime' \in [Node -> Nat] /\ extrSet' \in [Node -> SUBSET Value]
    BY <1>0, <1>3, <1>11
  <2> QED BY <1>0, <2>1 DEF PromptStep, Good, NodesTyped
<1>14. TimersOK'
  <2>1. ASSUME NEW t \in timers \cup {done, begin} PROVE GoodTimer(t)'
    BY <1>7 DEF GoodTimer
  <2>2. GoodTimer(commit)'
    <3>1. commit' = commit /\ commit.at = Start' + F + 1 /\ commit.at >= now
      BY <1>0, <1>3, <1>5
    <3>2. startTime'[View] = Start'
      BY <1>3, <1>5, <1>12
    <3> QED BY <1>0, <1>4, <3>1, <3>2 DEF GoodTimer
  <2>3. commit' = commit
    BY <1>0
  <2> QED BY <1>0, <2>1, <2>2, <2>3 DEF TimersOK
<1>15. StartsKnown'
  <2>1. startTime'[View] = Start'
    BY <1>3, <1>5, <1>12
  <2>2. ASSUME NEW n \in Backups PROVE InitComing(n)'
    <3>1. [init EXCEPT !.to = n] \in ToAll(View, init) /\ n \notin Deaf
      BY NotDeaf DEF ToAll
    <3>2. [init EXCEPT !.to = n].to = n /\ [init EXCEPT !.to = n].kind = "Init"
      BY <1>1
    <3>3. [init EXCEPT !.to = n] \in net'
      BY <1>8, <3>1, <3>2
    <3> QED BY <3>2, <3>3 DEF InitComing
  <2> QED BY <1>4, <1>6, <2>1, <2>2 DEF StartsKnown
<1>16. SetsOK'
  <2>1. ASSUME NEW n \in Backups PROVE startTime'[n] # Start'
    <3>1. n \in Node /\ n # View /\ startTime[n] <= now /\ startTime[n] \in Nat
      BY <1>7, <1>11, NotDeaf
    <3> QED BY <1>3, <1>5, <1>12, <3>1
  <2>2. extrSet'[View] = {}
    BY <1>3, <1>12
  <2> QED BY <1>0, <1>6, <2>1, <2>2 DEF SetsOK
<1>17. AllServed'
  BY <1>0 DEF AllServed
<1>18. ViewCommits'
  <2>1. CommitTimer(View)' = commit
    BY <1>5 DEF CommitTimer
  <2> QED BY <1>0, <2>1 DEF ViewCommits
<1>19. DecidedOK'
  <2> SUFFICES ASSUME Tolerated, NEW d \in decided, d.node \in Honest
               PROVE  \E i \in 1..Len(sessions') : /\ d.start = sessions'[i].start
                                                   /\ d.val = Outcome(sessions[i])'
    BY <1>0, <1>6 DEF DecidedOK, PromptStep
  <2>1. PICK i \in 1..Len(sessions) : d.start = sessions[i].start /\ d.val = Outcome(sessions[i])
    BY DEF PromptStep, Good, DecidedOK
  <2>2. i \in 1..Len(sessions') /\ sessions'[i] = sessions[i]
    BY <1>4
  <2>3. Outcome(sessions[i])' = Outcome(sessions[i])
    BY <1>6, <2>2 DEF Outcome
  <2> QED BY <2>1, <2>2, <2>3
<1>20. StartsDiffer'
  <2> SUFFICES ASSUME NEW i \in 1..Len(sessions'), NEW j \in 1..Len(sessions'), i < j
               PROVE  sessions'[i].start < sessions'[j].start
    BY DEF StartsDiffer
  <2>1. CASE j \in 1..Len(sessions)
    BY <1>4, <2>1 DEF PromptStep, Good, StartsDiffer
  <2>2. CASE j = Len(sessions) + 1
    <3>1. i \in 1..Len(sessions) /\ sessions'[i] = sessions[i] /\ sessions # <<>>
      BY <1>4, <2>2
    <3>2. sessions'[j].start = now + 1
      BY <1>2, <1>4, <2>2 DEF Last
    <3>3. now >= Start + N + 6 /\ Start \in Nat /\ N \in Nat /\ Len(sessions) >= 1
          /\ Start = sessions[Len(sessions)].start
      BY <1>0, <3>1, SessionFacts, Places DEF PromptStep, SessionInv, SessionHadTime, Start
    <3>4. sessions[i] \in Session
      BY <3>1 DEF PromptStep, SessionInv, ProposerTyped
    <3>5. sessions[i].start \in Nat
      BY <3>4 DEF Session
    <3>6. sessions[i].start <= Start
      <4>1. CASE i = Len(sessions)
        BY <3>3, <4>1
      <4>2. CASE i < Len(sessions)
        <5>1. Len(sessions) \in 1..Len(sessions)
          BY <1>4, <3>3
        <5>2. sessions[i].start < sessions[Len(sessions)].start
          BY <3>1, <4>2, <5>1 DEF PromptStep, Good, StartsDiffer
        <5> QED BY <3>3, <3>5, <5>2
      <4> QED BY <1>4, <3>1, <4>1, <4>2
    <3> QED BY <1>3, <3>1, <3>2, <3>3, <3>5, <3>6
  <2> QED BY <1>4, <2>1, <2>2
<1>21. ResultsOK'
  BY <1>0, <1>4, <1>6 DEF PromptStep, Good, ResultsOK
<1> QED BY <1>9, <1>10, <1>13, <1>14, <1>15, <1>16, <1>17, <1>18, <1>19, <1>20, <1>21,
           SideGood

-----------------------------------------------------------------------------
(* The invariant, and what it says of the decisions.                       *)

LEMMA InitGood ==
  ASSUME Init
  PROVE  Good
<1>0. /\ net = {} /\ tasks = {} /\ timers = {} /\ sessions = <<>> /\ pc = "poll"
      /\ startTime = [n \in Node |-> 0] /\ extrSet = [n \in Node |-> {}]
      /\ commitValue = [n \in Node |-> None] /\ decided = {} /\ results = {}
  BY DEF Init, RoundsInit, DsInitState
<1>1. \A n \in Backups : startTime[n] = 0
  BY <1>0, NotDeaf
<1>2. NetOK /\ TasksOK /\ TimersOK /\ DecidedOK /\ ResultsOK
  BY <1>0 DEF NetOK, TasksOK, TimersOK, DecidedOK, ResultsOK
<1>3. StartsKnown /\ SetsOK /\ AllServed /\ ViewCommits
  BY <1>0, <1>1 DEF StartsKnown, SetsOK, AllServed, ViewCommits
<1>4. NodesTyped
  BY <1>0 DEF NodesTyped
<1>5. StartsDiffer
  BY <1>0 DEF StartsDiffer
<1> QED BY <1>2, <1>3, <1>4, <1>5 DEF Good

LEMMA InitDs == Init => DsInv
<1> SUFFICES ASSUME Init PROVE DsInv
  OBVIOUS
<1>1. Counted
  BY DEF Init, RoundsInit, Counted
<1> QED BY <1>1, InitSession, InitGood DEF DsInv

LEMMA NextDs == DsInv /\ [Next]_vars => DsInv'
<1> SUFFICES ASSUME DsInv, [Next]_vars PROVE DsInv'
  OBVIOUS
<1>1. SessionInv' /\ Counted' /\ setup' = setup /\ faults' >= faults
  BY NextSession, StepCounts DEF DsInv
<1>2. ASSUME Prompt' PROVE Good'
  <2>1. PromptStep
    BY <1>1, <1>2, PromptBefore DEF DsInv, PromptStep
  <2>2. CASE UNCHANGED vars
    BY <2>1, <2>2, IdleGood DEF vars, roundVars, wireVars, proposerVars, dsVars
  <2>3. CASE Next
    BY <2>1, <2>3, ProposerGood, DsGood, TickGood, ViewInitGood, ViewProposeGood,
       HandleInitGood, HandleProposeGood, ClientInitGood, HandleQueryGood, ClientReplyGood,
       ClientQueryGood, Zenon DEF Next
  <2> QED BY <2>2, <2>3
<1> QED BY <1>1, <1>2 DEF DsInv

LEMMA DsInvariance == Spec => []DsInv
BY InitDs, NextDs, PTL DEF Spec

\* Dolev-Strong agrees: while every hop takes less than a tick and the
\* faults are ones the protocol is meant for, honest nodes never commit
\* different values in a session, whether the view is honest or proposes
\* "bad" to two nodes only.
THEOREM HonestNodesAgree == Spec => [](Tolerated => Agreement)
<1>1. DsInv => (Tolerated => Agreement)
  <2> SUFFICES ASSUME DsInv, Tolerated, Synchronous, NEW d \in decided, NEW e \in decided,
                      d.start = e.start, d.node \in Honest, e.node \in Honest
               PROVE  d.val = e.val
    BY DEF Agreement
  <2>1. Good /\ sessions \in Seq(Session)
    BY DEF DsInv, Prompt, Tolerated, SessionInv, ProposerTyped
  <2>2. PICK i \in 1..Len(sessions) : d.start = sessions[i].start /\ d.val = Outcome(sessions[i])
    BY <2>1 DEF Good, DecidedOK
  <2>3. PICK j \in 1..Len(sessions) : e.start = sessions[j].start /\ e.val = Outcome(sessions[j])
    BY <2>1 DEF Good, DecidedOK
  <2>4. sessions[i] \in Session /\ sessions[j] \in Session /\ i \in Nat /\ j \in Nat
    BY <2>1
  <2>5. sessions[i].start \in Nat /\ sessions[j].start \in Nat
    BY <2>4 DEF Session
  <2>6. (i < j => sessions[i].start < sessions[j].start)
        /\ (j < i => sessions[j].start < sessions[i].start)
    BY <2>1 DEF Good, StartsDiffer
  <2>7. i = j
    <3>1. sessions[i].start = sessions[j].start
      BY <2>2, <2>3, Zenon
    <3>2. ~(i < j) /\ ~(j < i)
      BY <2>5, <2>6, <3>1
    <3> QED BY <2>4, <3>2
  <2> QED BY <2>2, <2>3, <2>7
<1> QED BY <1>1, DsInvariance, PTL

\* Dolev-Strong is valid: under an honest view every honest node commits the
\* string of the session it commits for, and no value of an earlier session.
THEOREM HonestViewPrevails == Spec => [](Tolerated => Validity)
<1>1. DsInv => (Tolerated => Validity)
  <2> SUFFICES ASSUME DsInv, Tolerated, Synchronous, View \in Honest,
                      NEW d \in decided, d.node \in Honest
               PROVE  \E i \in 1..Len(sessions) :
                        sessions[i] = [start |-> d.start, val |-> d.val]
    BY DEF Validity
  <2>1. Good /\ sessions \in Seq(Session)
    BY DEF DsInv, Prompt, Tolerated, SessionInv, ProposerTyped
  <2>2. PICK i \in 1..Len(sessions) : d.start = sessions[i].start /\ d.val = Outcome(sessions[i])
    BY <2>1 DEF Good, DecidedOK
  <2>3. d.val = sessions[i].val
    BY <2>2 DEF Outcome
  <2>4. sessions[i] \in Session
    BY <2>1
  <2>5. sessions[i] = [start |-> sessions[i].start, val |-> sessions[i].val]
    BY <2>4 DEF Session
  <2> QED BY <2>2, <2>3, <2>5
<1> QED BY <1>1, DsInvariance, PTL

\* The client is shown the string of the running session, however many
\* messages other than an Init are lost: its query arrives after the honest
\* view has committed, and its answer before the next session starts.
THEOREM ClientIsShownSession ==
  Spec => []("Init" \notin setup.lossKind => ClientSeesSession)
<1>1. DsInv => ("Init" \notin setup.lossKind => ClientSeesSession)
  BY DEF DsInv, Prompt, Good, ResultsOK, ClientSeesSession
<1> QED BY <1>1, DsInvariance, PTL

\* The set of a session starts empty, whatever F is and however many Propose
\* and Forward messages are lost, if no hop is late and no Init is lost: a
\* forward of an earlier session that comes after the next one has begun,
\* which makes ExtrEmptyAtStart fail in the system at large, is the work of a
\* delay or of a lost Init.
THEOREM SetsStartEmpty ==
  Spec => [](Synchronous /\ "Init" \notin setup.lossKind => ExtrEmptyAtStart)
<1>1. DsInv => (Synchronous /\ "Init" \notin setup.lossKind => ExtrEmptyAtStart)
  <2> SUFFICES ASSUME DsInv, Prompt, NEW n \in Honest, sessions # <<>>,
                      startTime[n] = Start, pc = "start"
               PROVE  extrSet[n] = {}
    BY DEF ExtrEmptyAtStart, Start, Prompt
  <2>1. SetsOK
    BY DEF DsInv, Good
  <2> QED BY <2>1 DEF SetsOK, Backups
<1> QED BY <1>1, DsInvariance, PTL

-----------------------------------------------------------------------------
(* Types, whatever is lost or late.                                        *)

TaskTyped(k) == k.node \in Node /\ k.val \in Value /\ k.sigs \in Nat \ {0}
TimerTyped(t) == t.what = "dsCommit" => t.node \in Node
TypeInv ==
  /\ NodesTyped /\ \A m \in net : m \in Message
  /\ \A k \in tasks : TaskTyped(k)
  /\ \A t \in timers : TimerTyped(t)

\* A late message keeps its type.
LEMMA WireTyped ==
  ASSUME NEW before, NEW msgs, before \subseteq Message, msgs \subseteq Message,
         Wire(before, msgs)
  PROVE  \A m \in net' : m \in Message
<1>1. ASSUME NEW m \in Message
      PROVE  [m EXCEPT !.due = @ + 1] \in Message
  BY DEF Message
<1>2. PICK sent, lost, slow :
        /\ sent \subseteq msgs /\ slow \subseteq sent
        /\ net' = before \cup (sent \ (lost \cup slow))
                         \cup {[m EXCEPT !.due = @ + 1] : m \in slow}
  BY Zenon DEF Wire
<1> SUFFICES ASSUME NEW m \in net' PROVE m \in Message
  OBVIOUS
<1>3. CASE m \in before \cup sent
  BY <1>2, <1>3
<1>4. CASE \E o \in slow : m = [o EXCEPT !.due = @ + 1]
  BY <1>1, <1>2, <1>4
<1> QED BY <1>2, <1>3, <1>4

LEMMA SoonTyped ==
  ASSUME SessionInv, NEW kind
  PROVE  Soon(kind) \in Nat
BY DEF Soon, SessionInv, ProposerTyped

LEMMA ForwardTyped ==
  ASSUME SessionInv, NEW n \in Node, NEW val \in Value, NEW sigs \in Nat, sigs >= 2
  PROVE  ToAll(n, ForwardMsg(n, val, sigs)) \subseteq Message
<1> SUFFICES ASSUME NEW o \in Node \ {n}
             PROVE  [ForwardMsg(n, val, sigs) EXCEPT !.to = o] \in Message
  BY DEF ToAll
<1>1. Soon("Forward") \in Nat
  BY SoonTyped
<1> QED BY <1>1 DEF ForwardMsg, Message

LEMMA SpinTyped ==
  ASSUME SessionInv, NEW n \in Node, NEW val \in Value, NEW sigs \in Nat \ {0}, NEW netLeft,
         NEW tasksLeft, netLeft \subseteq Message,
         ForwardOrSpin(n, val, sigs, netLeft, tasksLeft, {})
  PROVE  (\A m \in net' : m \in Message) /\ \A k \in tasks' : k \in tasksLeft \/ TaskTyped(k)
<1> DEFINE msgs == ToAll(n, ForwardMsg(n, val, sigs + 1))
<1>1. {} \cup msgs \subseteq Message
  BY ForwardTyped
<1> HIDE DEF msgs
<1>2. CASE Wire(netLeft, {} \cup msgs) /\ tasks' = tasksLeft
  BY <1>1, <1>2, WireTyped, Zenon
<1>3. CASE /\ Wire(netLeft, {})
           /\ tasks' = tasksLeft \cup {[node |-> n, at |-> "spin", for |-> "Forward",
                                        val |-> val, sigs |-> sigs, limit |-> sigs]}
  <2>1. \A m \in net' : m \in Message
    BY <1>3, WireTyped
  <2> QED BY <1>3, <2>1 DEF TaskTyped
<1> QED BY <1>2, <1>3, Zenon DEF ForwardOrSpin, msgs

\* A step that sends nothing.
LEMMA SilentTyped ==
  ASSUME TypeInv, UNCHANGED <<startTime, extrSet, commitValue>>, net' \subseteq net,
         tasks' \subseteq tasks, \A t \in timers' : t \in timers \/ TimerTyped(t)
  PROVE  TypeInv'
<1>1. \A t \in timers' : TimerTyped(t)
  BY DEF TypeInv
<1> QED BY <1>1 DEF TypeInv, NodesTyped, TimerTyped, TaskTyped

LEMMA ProposerTypes ==
  ASSUME TypeInv, SessionInv, ProposerNext, UNCHANGED <<dsVars, results>>
  PROVE  TypeInv'
<1>1. ASSUME NEW s \in String, HandleCmdPropose(s) PROVE TypeInv'
  <2> DEFINE m == [kind |-> "Inject", to |-> View, val |-> s, due |-> Soon("Inject")]
  <2>1. Wire(net, {m}) /\ UNCHANGED <<timers, tasks, startTime>>
    BY <1>1 DEF HandleCmdPropose
  <2>2. {m} \subseteq Message /\ net \subseteq Message
    BY SoonTyped DEF Message, TypeInv
  <2> HIDE DEF m
  <2>3. \A o \in net' : o \in Message
    BY <2>1, <2>2, WireTyped
  <2> QED BY <2>1, <2>3 DEF TypeInv, NodesTyped, dsVars, TimerTyped, TaskTyped
<1>2. CASE RunPoll
  BY <1>2, SilentTyped DEF RunPoll, roundVars, wireVars, dsVars
<1>3. ASSUME NEW m \in Inbox, HandleInject(m) PROVE TypeInv'
  BY <1>3, SilentTyped DEF HandleInject, dsVars
<1>4. ASSUME NEW t \in Ripe, HandleConsensusDone(t) PROVE TypeInv'
  BY <1>4, SilentTyped DEF HandleConsensusDone, wireVars, dsVars
<1>5. CASE RunDone
  BY <1>5, SilentTyped DEF RunDone, wireVars, dsVars
<1>6. CASE RunStop
  BY <1>6, SilentTyped DEF RunStop, dsVars
<1> QED BY <1>1, <1>2, <1>3, <1>4, <1>5, <1>6 DEF ProposerNext

LEMMA SingleTyped ==
  ASSUME NEW S \in SUBSET Value
  PROVE  Single(S) \in Value
<1>1. ASSUME Cardinality(S) = 1 PROVE (CHOOSE v \in S : TRUE) \in S
  BY <1>1, FS_EmptySet
<1> QED BY <1>1 DEF Single, Value

LEMMA DsTypes ==
  ASSUME TypeInv, SessionInv, DsNext
  PROVE  TypeInv'
<1>1. startTime' = startTime
  BY DEF DsNext
<1>2. ASSUME NEW m \in Inbox, DsHandleForward(m) PROVE TypeInv'
  <2>1. m \in Message /\ m.kind = "Forward" /\ net' \subseteq net
        /\ UNCHANGED <<timers, extrSet, commitValue>>
    BY <1>2 DEF Inbox, DsHandleForward, TypeInv, dsVars
  <2>2. m.to \in Node /\ m.val \in Value /\ m.sigs \in Nat \ {0}
    BY <2>1 DEF Message
  <2>3. \A k \in tasks' : TaskTyped(k)
    BY <1>2, <2>2 DEF DsHandleForward, TaskTyped, TypeInv
  <2> QED BY <1>1, <2>1, <2>3 DEF TypeInv, NodesTyped, TaskTyped, TimerTyped
<1>3. ASSUME NEW k \in Ready PROVE TaskTyped(k) /\ net \subseteq Message
  BY DEF Ready, Urgent, TypeInv
<1>4. ASSUME NEW k \in Ready, DsAdd(k) PROVE TypeInv'
  <2>1. /\ ForwardOrSpin(k.node, k.val, k.sigs, net, tasks \ {k}, {})
        /\ extrSet' = [extrSet EXCEPT ![k.node] = @ \cup {k.val}]
        /\ UNCHANGED <<timers, commitValue>>
    BY <1>4 DEF DsAdd
  <2>2. (\A m \in net' : m \in Message) /\ \A o \in tasks' : o \in tasks \ {k} \/ TaskTyped(o)
    BY <1>3, <2>1, SpinTyped DEF TaskTyped
  <2>3. extrSet' \in [Node -> SUBSET Value]
    BY <1>3, <2>1 DEF TaskTyped, TypeInv, NodesTyped
  <2> QED BY <1>1, <2>1, <2>2, <2>3 DEF TypeInv, NodesTyped, TimerTyped, TaskTyped
<1>5. ASSUME NEW k \in Ready, DsLeaveLoop(k) PROVE TypeInv'
  <2>1. /\ Wire(net, ToAll(k.node, ForwardMsg(k.node, k.val, k.sigs + 1)))
        /\ tasks' \subseteq tasks /\ UNCHANGED <<timers, extrSet, commitValue>>
    BY <1>5 DEF DsLeaveLoop, dsVars
  <2>2. ToAll(k.node, ForwardMsg(k.node, k.val, k.sigs + 1)) \subseteq Message
    BY <1>3, ForwardTyped DEF TaskTyped
  <2>3. \A m \in net' : m \in Message
    BY <1>3, <2>1, <2>2, WireTyped
  <2> QED BY <1>1, <2>1, <2>3 DEF TypeInv, NodesTyped, TimerTyped, TaskTyped
<1>6. ASSUME NEW t \in Ripe, DsCommit(t) PROVE TypeInv'
  <2>1. t.node \in Node
    BY <1>6 DEF Ripe, DsCommit, TypeInv, TimerTyped
  <2>2. Single(extrSet[t.node]) \in Value
    BY <2>1, SingleTyped DEF TypeInv, NodesTyped
  <2>3. commitValue' \in [Node -> Value \cup {None}]
    BY <1>6, <2>1, <2>2 DEF DsCommit, TypeInv, NodesTyped
  <2> QED BY <1>1, <1>6, <2>3 DEF DsCommit, wireVars, TypeInv, NodesTyped, TimerTyped, TaskTyped
<1> QED BY <1>2, <1>4, <1>5, <1>6 DEF DsNext

LEMMA ViewInitTypes ==
  ASSUME TypeInv, SessionInv, ViewInit
  PROVE  TypeInv'
<1> DEFINE init == [kind |-> "Init", to |-> Client, start |-> now + 1, due |-> now]
<1>1. /\ Wire(net, ToAll(View, init) \cup {init})
      /\ timers' = timers \cup DsTimers(View, now + 1)
                     \cup {[node |-> View, at |-> now + 1, what |-> "start"]}
      /\ startTime' = [startTime EXCEPT ![View] = now + 1]
      /\ UNCHANGED <<tasks, commitValue>> /\ DsHandleInit(View)
  BY DEF ViewInit, RunInit, DsHandleInit
<1>2. now \in Nat /\ View \in Node /\ Client # View
  BY Places DEF SessionInv, ProposerTyped
<1>3. ToAll(View, init) \cup {init} \subseteq Message
  BY <1>2 DEF ToAll, Message
<1> HIDE DEF init
<1>4. \A m \in net' : m \in Message
  BY <1>1, <1>3, WireTyped DEF TypeInv
<1>5. \A t \in timers' : TimerTyped(t)
  BY <1>1, <1>2 DEF TypeInv, TimerTyped, DsTimers
<1>6. NodesTyped'
  BY <1>1, <1>2 DEF TypeInv, NodesTyped, DsHandleInit
<1> QED BY <1>1, <1>4, <1>5, <1>6 DEF TypeInv, TaskTyped, TimerTyped

LEMMA HandleInitTypes ==
  ASSUME TypeInv, NEW m \in Inbox, HandleInit(m)
  PROVE  TypeInv'
<1>1. /\ m \in Message /\ m.kind = "Init" /\ m.to \in Node /\ net' \subseteq net
      /\ startTime' = [startTime EXCEPT ![m.to] = m.start]
      /\ timers' = timers \cup DsTimers(m.to, m.start)
      /\ UNCHANGED <<tasks, commitValue>> /\ DsHandleInit(m.to)
  BY DEF HandleInit, DsHandleInit, Inbox, TypeInv
<1>2. m.start \in Nat
  BY <1>1 DEF Message
<1>3. NodesTyped'
  BY <1>1, <1>2 DEF TypeInv, NodesTyped, DsHandleInit
<1>4. \A t \in timers' : TimerTyped(t)
  BY <1>1 DEF TypeInv, TimerTyped, DsTimers
<1> QED BY <1>1, <1>3, <1>4 DEF TypeInv, TaskTyped, TimerTyped

LEMMA ViewProposeTypes ==
  ASSUME TypeInv, SessionInv, ViewPropose
  PROVE  TypeInv'
<1> DEFINE m == [kind |-> "Propose", to |-> Client, due |-> now,
                 val |-> IF View \in malicious THEN Bad ELSE Last.val]
           msgs == {p \in ToAll(View, m) : View \in malicious => p.to \in {1, 2}}
<1>1. PICK t \in Ripe : /\ t.what = "start" /\ timers' = (timers \ {t}) \cup {}
                        /\ Wire(net, msgs)
                        /\ UNCHANGED <<tasks, startTime>>
  BY DEF ViewPropose, RunPropose
<1>2. t \in timers /\ pc = "start" /\ sessions # <<>> /\ now \in Nat
  BY <1>1 DEF Ripe, SessionInv, StartPending, ProposerTyped
<1>3. Last \in Session
  BY <1>2 DEF SessionInv, ProposerTyped, Last
<1>4. m.val \in Value /\ Last.val \in Value
  BY <1>3 DEF Session, Value
<1>5. msgs \subseteq Message
  BY <1>2, <1>4 DEF ToAll, Message
<1> HIDE DEF msgs
<1>6. \A o \in net' : o \in Message
  BY <1>1, <1>5, WireTyped DEF TypeInv
<1>7. NodesTyped'
  BY <1>1, <1>4 DEF ViewPropose, DsViewPropose, TypeInv, NodesTyped
<1> QED BY <1>1, <1>6, <1>7 DEF TypeInv, TaskTyped, TimerTyped

LEMMA HandleProposeTypes ==
  ASSUME TypeInv, SessionInv, NEW m \in Inbox, HandlePropose(m)
  PROVE  TypeInv'
<1>1. /\ m \in Message /\ m.kind = "Propose"
      /\ extrSet' = [extrSet EXCEPT ![m.to] = @ \cup {m.val}]
      /\ ForwardOrSpin(m.to, m.val, 1, net \ {m}, tasks, {})
      /\ UNCHANGED <<timers, startTime, commitValue>>
  BY DEF HandlePropose, DsHandlePropose, Inbox, TypeInv
<1>2. m.to \in Node /\ m.val \in Value /\ net \ {m} \subseteq Message
  BY <1>1 DEF Message, TypeInv
<1>3. (\A o \in net' : o \in Message) /\ \A k \in tasks' : k \in tasks \/ TaskTyped(k)
  BY <1>1, <1>2, SpinTyped
<1>4. extrSet' \in [Node -> SUBSET Value]
  BY <1>1, <1>2 DEF TypeInv, NodesTyped
<1> QED BY <1>1, <1>3, <1>4 DEF TypeInv, NodesTyped, TimerTyped, TaskTyped

LEMMA ClientTypes ==
  ASSUME TypeInv, SessionInv,
         \/ \E m \in Inbox : ClientInit(m) \/ HandleQuery(m) \/ ClientReply(m)
         \/ \E t \in Ripe : ClientQuery(t)
  PROVE  TypeInv'
<1>1. ASSUME NEW m \in Inbox, ClientInit(m) PROVE TypeInv'
  BY <1>1, SilentTyped DEF ClientInit, dsVars, TimerTyped
<1>2. ASSUME NEW m \in Inbox, ClientReply(m) PROVE TypeInv'
  BY <1>2, SilentTyped DEF ClientReply, dsVars
<1>3. ASSUME NEW m, m \in Message, UNCHANGED <<tasks, startTime, extrSet, commitValue>>,
             timers' \subseteq timers, NEW before \in SUBSET net, Wire(before, {m})
      PROVE  TypeInv'
  <2>1. \A o \in net' : o \in Message
    BY <1>3, WireTyped DEF TypeInv
  <2> QED BY <1>3, <2>1 DEF TypeInv, NodesTyped, TimerTyped, TaskTyped
<1>4. ASSUME NEW m \in Inbox, HandleQuery(m) PROVE TypeInv'
  <2> DEFINE o == [kind |-> "Reply", to |-> Client, val |-> commitValue[m.to],
                   due |-> Soon("Reply")]
  <2>1. m \in Message /\ m.kind = "Query"
    BY <1>4 DEF HandleQuery, Inbox, TypeInv
  <2>2. m.to = View
    BY <2>1 DEF Message
  <2>3. commitValue[m.to] \in Value \cup {None}
    BY <2>2, Places DEF TypeInv, NodesTyped
  <2>4. o \in Message
    BY <2>3, SoonTyped DEF Message
  <2>5. Wire(net \ {m}, {o}) /\ UNCHANGED <<timers, tasks, startTime, extrSet, commitValue>>
    BY <1>4 DEF HandleQuery, dsVars
  <2> QED BY <1>3, <2>4, <2>5
<1>5. ASSUME NEW t \in Ripe, ClientQuery(t) PROVE TypeInv'
  <2> DEFINE o == [kind |-> "Query", to |-> View, due |-> Soon("Query")]
  <2>1. o \in Message
    BY SoonTyped DEF Message
  <2>2. Wire(net, {o}) /\ timers' \subseteq timers
        /\ UNCHANGED <<tasks, startTime, extrSet, commitValue>>
    BY <1>5 DEF ClientQuery, dsVars
  <2> QED BY <1>3, <2>1, <2>2
<1> QED BY <1>1, <1>2, <1>4, <1>5

LEMMA InitTypes == Init => TypeInv
BY DEF Init, RoundsInit, DsInitState, TypeInv, NodesTyped

LEMMA NextTypes == TypeInv /\ SessionInv /\ [Next]_vars => TypeInv'
<1> SUFFICES ASSUME TypeInv, SessionInv, [Next]_vars PROVE TypeInv'
  OBVIOUS
<1>1. CASE UNCHANGED vars
  BY <1>1, SilentTyped DEF vars, roundVars, wireVars, dsVars
<1>2. CASE Tick /\ UNCHANGED <<dsVars, results>>
  BY <1>2, SilentTyped DEF Tick, wireVars, dsVars
<1> QED BY <1>1, <1>2, ProposerTypes, DsTypes, ViewInitTypes, ViewProposeTypes,
           HandleInitTypes, HandleProposeTypes, ClientTypes DEF Next

\* Every message and every value of the Dolev-Strong deployment has its
\* type, whatever is lost, late or left over from an earlier session: a
\* forward has the signatures of the view and of its sender at least.
THEOREM DsTyped == Spec => []TypeOK
<1>1. TypeInv /\ SessionInv => TypeOK
  <2>1. 0..1 = {0, 1}
    OBVIOUS
  <2> QED BY <2>1 DEF TypeInv, NodesTyped, SessionInv, ProposerTyped, TypeOK
<1>2. Spec => [](TypeInv /\ SessionInv)
  BY InitTypes, NextTypes, InitSession, NextSession, PTL DEF Spec
<1> QED BY <1>1, <1>2, PTL

-----------------------------------------------------------------------------
(* A session that runs is going to be ended, and a command makes one       *)
(* session at most.                                                        *)

\* What a step that leaves the proposer alone has to keep.
LEMMA EndStays ==
  ASSUME EndIsTimed, UNCHANGED <<pc, sessions>>, consensusDone' >= consensusDone,
         consensusDone' \in {0, 1}, \A t \in timers : t.what = "done" => t \in timers'
  PROVE  EndIsTimed'
BY DEF EndIsTimed, Last

LEMMA NextEnd ==
  ASSUME EndIsTimed, SessionInv, [Next]_vars
  PROVE  EndIsTimed'
<1>0. consensusDone \in {0, 1}
  BY DEF SessionInv, ProposerTyped
<1>1. CASE UNCHANGED vars
  BY <1>0, <1>1, EndStays DEF vars, roundVars, proposerVars
<1>2. CASE ProposerNext
  <2>1. ASSUME NEW s \in String, HandleCmdPropose(s) PROVE EndIsTimed'
    BY <1>0, <2>1, EndStays DEF HandleCmdPropose
  <2>2. ASSUME NEW m \in Inbox, HandleInject(m) PROVE EndIsTimed'
    BY <1>0, <2>2, EndStays DEF HandleInject
  <2>3. CASE RunPoll
    BY <1>0, <2>3, EndStays DEF RunPoll, roundVars, proposerVars
  <2> QED BY <1>2, <2>1, <2>2, <2>3 DEF ProposerNext, HandleConsensusDone, RunDone, RunStop, EndIsTimed
<1>3. CASE DsNext
  <2>1. UNCHANGED <<pc, sessions, consensusDone>>
    BY <1>3 DEF DsNext, proposerVars
  <2>2. \A t \in timers : t.what = "done" => t \in timers'
    BY <1>3 DEF DsNext, DsHandleForward, DsAdd, DsLeaveLoop, DsCommit
  <2> QED BY <1>0, <2>1, <2>2, EndStays
<1>4. CASE Tick
  BY <1>0, <1>4, EndStays DEF Tick, proposerVars
<1>5. CASE ViewInit
  <2> DEFINE e == [start |-> now + 1, val |-> Head(stringQueue)]
  <2>1. /\ sessions' = Append(sessions, e) /\ stringQueue # <<>> /\ now \in Nat
        /\ [node |-> View, at |-> now + N + 7, what |-> "done"] \in timers'
    BY <1>5 DEF ViewInit, RunInit, DsTimers, SessionInv, ProposerTyped
  <2>2. e \in Session
    BY <2>1, HeadTailProperties DEF Session, SessionInv, ProposerTyped
  <2>3. Last' = e
    BY <2>1, <2>2, LastOfAppend DEF SessionInv, ProposerTyped
  <2>4. Last'.start + N + 6 = now + N + 7
    BY <2>1, <2>3, NatN
  <2> QED BY <2>1, <2>4 DEF EndIsTimed
<1>6. CASE ViewPropose
  <2>1. PICK t \in Ripe : /\ t.what = "start" /\ timers' = (timers \ {t}) \cup {}
                          /\ UNCHANGED <<sessions, consensusDone>>
    BY <1>6 DEF ViewPropose, RunPropose
  <2>2. pc = "start"
    BY <2>1 DEF Ripe, SessionInv, StartPending
  <2> QED BY <2>1, <2>2 DEF EndIsTimed, Last
<1>7. ASSUME NEW m \in Inbox,
             HandleInit(m) \/ HandlePropose(m) \/ ClientInit(m) \/ HandleQuery(m) \/ ClientReply(m)
      PROVE  EndIsTimed'
  BY <1>0, <1>7, EndStays DEF HandleInit, HandlePropose, ClientInit, HandleQuery, ClientReply, proposerVars
<1>8. ASSUME NEW t \in Ripe, ClientQuery(t) PROVE EndIsTimed'
  BY <1>0, <1>8, EndStays DEF ClientQuery, proposerVars
<1> QED BY <1>1, <1>2, <1>3, <1>4, <1>5, <1>6, <1>7, <1>8 DEF Next

\* The proposer is never left without an end of its session to come: what
\* QueuedIsProposed needs of every state.
THEOREM SessionsAreEnded == Spec => []EndIsTimed
<1>1. Init => EndIsTimed
  BY DEF Init, RoundsInit, EndIsTimed
<1>2. Spec => [](SessionInv /\ EndIsTimed)
  BY <1>1, NextEnd, InitSession, NextSession, PTL DEF Spec
<1> QED BY <1>2, PTL

LEMMA ForwardPlain ==
  ASSUME NEW n, NEW val, NEW sigs, NEW netLeft, NEW tasksLeft, netLeft \subseteq net,
         ForwardOrSpin(n, val, sigs, netLeft, tasksLeft, {})
  PROVE  Injects(net') \subseteq Injects(net)
<1>1. Plain({} \cup ToAll(n, ForwardMsg(n, val, sigs + 1))) /\ Plain({})
  BY ToAllPlain DEF ForwardMsg, Plain
<1>2. Injects(net') \subseteq Injects(netLeft)
  BY <1>1, PlainWire, Zenon DEF ForwardOrSpin
<1> QED BY <1>2 DEF Injects

LEMMA NextPlace ==
  ASSUME OnePlace, SessionInv, [Next]_vars
  PROVE  OnePlace'
<1>0. stringQueue \in Seq(String) /\ sessions \in Seq(Session) /\ now \in Nat
      /\ \A m \in Injects(net) : m.val \in String
  BY DEF SessionInv, ProposerTyped, AllGood, GoodMsg, Injects
<1>1. ASSUME UNCHANGED <<toType, stringQueue, sessions>>, net' \subseteq net
      PROVE  OnePlace'
  BY <1>1, SamePlace DEF SameStrings, Injects
<1>2. ASSUME UNCHANGED <<toType, stringQueue, sessions>>, NEW before, before \subseteq net,
             NEW m, {"kind", "to", "due"} \subseteq DOMAIN m, m.kind # "Inject", Wire(before, {m})
      PROVE  OnePlace'
  <2>1. Injects(net') \subseteq Injects(before)
    BY <1>2, PlainWire DEF Plain
  <2> QED BY <1>2, <2>1, SamePlace DEF SameStrings, Injects
<1>3. ASSUME UNCHANGED <<toType, stringQueue, sessions>>, NEW n, NEW val, NEW sigs,
             NEW netLeft, NEW tasksLeft, netLeft \subseteq net,
             ForwardOrSpin(n, val, sigs, netLeft, tasksLeft, {})
      PROVE  OnePlace'
  BY <1>3, ForwardPlain, SamePlace DEF SameStrings
<1>4. CASE UNCHANGED vars
  BY <1>1, <1>4 DEF vars, roundVars, wireVars, proposerVars
<1>5. CASE Tick
  BY <1>1, <1>5 DEF Tick, wireVars, proposerVars
<1>6. CASE ProposerNext
  BY <1>0, <1>6, ProposerPlace
<1>7. CASE DsNext
  <2>0. UNCHANGED <<toType, stringQueue, sessions>>
    BY <1>7 DEF DsNext, proposerVars
  <2>1. ASSUME NEW k, DsAdd(k) PROVE OnePlace'
    BY <1>3, <2>0, <2>1 DEF DsAdd
  <2>2. ASSUME NEW k, DsLeaveLoop(k) PROVE OnePlace'
    <3>1. Plain(ToAll(k.node, ForwardMsg(k.node, k.val, k.sigs + 1)))
      BY ToAllPlain DEF ForwardMsg
    <3>2. Injects(net') \subseteq Injects(net)
      BY <2>2, <3>1, PlainWire DEF DsLeaveLoop
    <3> QED BY <2>0, <3>2, SamePlace DEF SameStrings
  <2>3. ASSUME NEW m, DsHandleForward(m) PROVE OnePlace'
    BY <1>1, <2>0, <2>3 DEF DsHandleForward
  <2>4. ASSUME NEW t, DsCommit(t) PROVE OnePlace'
    BY <1>1, <2>0, <2>4 DEF DsCommit, wireVars
  <2> QED BY <1>7, <2>1, <2>2, <2>3, <2>4 DEF DsNext
<1>8. CASE ViewInit
  BY <1>0, <1>8, InitPlace DEF ViewInit
<1>9. CASE ViewPropose
  BY <1>9, ProposePlace DEF ViewPropose
<1>10. ASSUME NEW m \in Inbox, HandleInit(m) \/ ClientInit(m) \/ ClientReply(m)
       PROVE  OnePlace'
  BY <1>1, <1>10 DEF HandleInit, ClientInit, ClientReply, proposerVars
<1>13. ASSUME NEW m \in Inbox, HandlePropose(m) PROVE OnePlace'
  <2>1. ForwardOrSpin(m.to, m.val, 1, net \ {m}, tasks, {})
        /\ UNCHANGED <<toType, stringQueue, sessions>>
    BY <1>13 DEF HandlePropose, DsHandlePropose, proposerVars
  <2> QED BY <1>3, <2>1
<1>11. ASSUME NEW m \in Inbox, HandleQuery(m) PROVE OnePlace'
  <2> DEFINE r == [kind |-> "Reply", to |-> Client, val |-> commitValue[m.to],
                   due |-> Soon("Reply")]
  <2>1. Wire(net \ {m}, {r}) /\ UNCHANGED <<toType, stringQueue, sessions>>
    BY <1>11 DEF HandleQuery, proposerVars
  <2>2. {"kind", "to", "due"} \subseteq DOMAIN r /\ r.kind # "Inject"
    OBVIOUS
  <2> HIDE DEF r
  <2> QED BY <1>2, <2>1, <2>2
<1>12. ASSUME NEW t \in Ripe, ClientQuery(t) PROVE OnePlace'
  BY <1>2, <1>12 DEF ClientQuery, proposerVars
<1> QED BY <1>4, <1>5, <1>6, <1>7, <1>8, <1>9, <1>10, <1>11, <1>12, <1>13 DEF Next

\* No command makes two sessions, whatever the network does to its message.
THEOREM CommandsProposedOnce == Spec => []ProposedOnce
<1>1. Init => OnePlace
  BY InitialPlace DEF Init
<1>2. Spec => [](SessionInv /\ OnePlace)
  BY <1>1, NextPlace, InitSession, NextSession, PTL DEF Spec
<1>3. OnePlace => ProposedOnce
  BY DEF OnePlace
<1> QED BY <1>2, <1>3, PTL

-----------------------------------------------------------------------------
(* The deployment implements StringBroadcast.  A step is mapped while the  *)
(* assumptions hold after it, which makes both its states good.            *)

Decisions == {d \in decided : d.node \in Honest}
Unseen == UNCHANGED <<now, sessions, decided, results>>

LEMMA RefineInit == Init => Abstract!Init
<1> SUFFICES ASSUME Init PROVE Abstract!Init
  OBVIOUS
<1>1. /\ sessions = <<>> /\ {d \in decided : d.node \in Honest} = {} /\ results = {}
      /\ now \in Nat /\ Honest \subseteq Node
  BY DEF Init, RoundsInit, DsInitState, Honest
<1>2. Calmly \in BOOLEAN
  BY DEF Calmly, Tolerated, Synchronous
<1> QED BY <1>1, <1>2, Zenon DEF Abstract!Init

\* A session is opened by the view alone, a value decided by a commit timer
\* and shown upon a reply; nothing else is seen from outside but the clock.
LEMMA OnlyThese ==
  ASSUME [Next]_vars
  PROVE  \/ Unseen
         \/ ViewInit
         \/ (\E t \in Ripe : DsCommit(t)) /\ UNCHANGED <<now, proposerVars, results>>
         \/ \E m \in Inbox : ClientReply(m)
         \/ Tick /\ UNCHANGED <<dsVars, results>>
<1>1. CASE UNCHANGED vars
  BY <1>1 DEF vars, roundVars, proposerVars, dsVars, Unseen
<1>2. CASE ProposerNext /\ UNCHANGED <<dsVars, results>>
  BY <1>2 DEF ProposerNext, HandleCmdPropose, HandleInject, RunPoll, roundVars, proposerVars,
     HandleConsensusDone, RunDone, RunStop, dsVars, Unseen
<1>3. CASE DsNext /\ UNCHANGED results
  <2>1. UNCHANGED <<now, proposerVars>>
    BY <1>3 DEF DsNext
  <2>2. CASE \E m \in Inbox : DsHandleForward(m)
    BY <1>3, <2>1, <2>2 DEF DsHandleForward, dsVars, proposerVars, Unseen
  <2>3. CASE \E k \in Ready : DsAdd(k) \/ DsLeaveLoop(k)
    BY <1>3, <2>1, <2>3 DEF DsAdd, DsLeaveLoop, dsVars, proposerVars, Unseen
  <2> QED BY <1>3, <2>1, <2>2, <2>3 DEF DsNext
<1>4. CASE ViewPropose
  BY <1>4, Zenon DEF ViewPropose, RunPropose, DsViewPropose, Unseen
<1>5. ASSUME NEW m \in Inbox, HandleInit(m) \/ HandlePropose(m) \/ ClientInit(m) \/ HandleQuery(m)
      PROVE  Unseen
  BY <1>5 DEF HandleInit, DsHandleInit, HandlePropose, DsHandlePropose, ClientInit, HandleQuery,
     proposerVars, dsVars, Unseen
<1>6. ASSUME NEW t \in Ripe, ClientQuery(t) PROVE Unseen
  BY <1>6 DEF ClientQuery, proposerVars, dsVars, Unseen
<1> QED BY <1>1, <1>2, <1>3, <1>4, <1>5, <1>6 DEF Next

LEMMA OpenMaps ==
  ASSUME PromptStep, Good', ViewInit
  PROVE  \E s \in String : Abstract!Open(s)
<1> DEFINE s == Head(stringQueue)
           e == [start |-> now + 1, val |-> s]
<1>1. /\ sessions' = Append(sessions, e) /\ stringQueue # <<>>
      /\ UNCHANGED <<now, decided, results, setup>>
  BY DEF ViewInit, RunInit, DsHandleInit
<1>2. s \in String /\ e \in Session /\ sessions \in Seq(Session)
  BY <1>1, HeadTailProperties DEF PromptStep, SessionInv, ProposerTyped, Session
<1>3. ASSUME sessions # <<>> PROVE now + 1 >= Last.start + (N + 7)
  <2> HIDE DEF e
  <2>1. Len(sessions) \in Nat /\ Len(sessions) >= 1 /\ Last = sessions[Len(sessions)]
        /\ Last \in Session
    BY <1>3, SessionFacts DEF PromptStep
  <2>2. /\ Len(sessions') = Len(sessions) + 1 /\ sessions'[Len(sessions) + 1] = e
        /\ \A i \in 1..Len(sessions) : sessions'[i] = sessions[i]
    BY <1>1, <1>2, AppendProperties
  <2> DEFINE i == Len(sessions) + 1
  <2>3. i \in 2..Len(sessions') /\ i - 1 = Len(sessions) /\ Len(sessions) \in 1..Len(sessions)
    BY <2>1, <2>2
  <2>4. sessions'[i].start >= sessions'[i - 1].start + N + 7
    BY <2>3 DEF PromptStep, SessionInv, SessionsDoNotOverlap
  <2>5. e.start >= Last.start + N + 7
    BY <2>1, <2>2, <2>3, <2>4
  <2>6. e.start = now + 1 /\ Last.start \in Nat /\ N \in Nat
    BY <2>1, NatN DEF e, Session
  <2> QED BY <2>5, <2>6
<1>4. UNCHANGED Honest
  BY <1>1 DEF Honest, malicious
<1>5. {d \in decided : d.node \in Honest}' = {d \in decided : d.node \in Honest}
  BY <1>1, <1>4
<1> QED BY <1>1, <1>2, <1>3, <1>5 DEF Abstract!Open, Abstract!Running, Last

LEMMA DecideMaps ==
  ASSUME PromptStep, Tolerated, NEW t \in Ripe, DsCommit(t), UNCHANGED <<now, proposerVars, results>>
  PROVE  \/ \E n \in Node, v \in Value : Abstract!Decide(n, v)
         \/ UNCHANGED <<now, sessions, Decisions, results>>
<1>0. t.what = "dsCommit" /\ sessions' = sessions /\ UNCHANGED <<malicious, Honest>>
  BY DEF DsCommit, proposerVars, PromptStep, malicious, Honest
<1>1. /\ sessions # <<>> /\ t.at = Start + F + 1 /\ t.at >= now /\ t.at <= now
      /\ t.node \in Backups \cup {View} /\ startTime[t.node] = Start
  BY <1>0, FromTimers DEF GoodTimer
<1>2. now \in Nat /\ Start \in Nat /\ F \in Nat /\ t.node \in Node
  BY <1>1, SessionFacts, Places DEF PromptStep, Backups, Honest
<1>3. now = Start + (F + 1) /\ t.at - (F + 1) = Start /\ now = Start + F + 1
  BY <1>1, <1>2
<1>4. PICK v : v = Single(extrSet[t.node])
  OBVIOUS
<1>5. decided' = decided \cup {[node |-> t.node, start |-> Start, val |-> v]}
  BY <1>3, <1>4 DEF DsCommit
<1>6. CASE t.node \notin Honest
  <2>1. Decisions' = Decisions
    BY <1>0, <1>5, <1>6 DEF Decisions
  <2> QED BY <1>0, <2>1
<1>7. CASE t.node \in Honest
  <2>1. v = Outcome(Last)
    BY <1>1, <1>3, <1>4, <1>7, CommitsOutcome
  <2>2. v \in Value
    <3>1. extrSet[t.node] \in SUBSET Value
      BY <1>2 DEF PromptStep, Good, NodesTyped
    <3> QED BY <1>4, <3>1, SingleOf
  <2>3. View \in Honest => v = Last.val
    BY <2>1 DEF Outcome
  <2>4. ASSUME NEW d \in decided, d.node \in Honest, d.start = Start PROVE d.val = v
    <3>1. PICK i \in 1..Len(sessions) : d.start = sessions[i].start /\ d.val = Outcome(sessions[i])
      BY <2>4 DEF PromptStep, Good, DecidedOK
    <3>2. Len(sessions) \in Nat /\ Len(sessions) >= 1 /\ Last = sessions[Len(sessions)]
      BY <1>1, SessionFacts DEF PromptStep
    <3>3. sessions[i].start = sessions[Len(sessions)].start
      BY <2>4, <3>1, <3>2 DEF Start
    <3>4. ~(i < Len(sessions))
      <4>1. i < Len(sessions) => sessions[i].start < sessions[Len(sessions)].start
        BY <3>2 DEF PromptStep, Good, StartsDiffer
      <4>2. sessions[i].start \in Nat
        BY <1>2, <2>4, <3>1
      <4> QED BY <3>3, <4>1, <4>2
    <3>5. i = Len(sessions)
      BY <3>2, <3>4
    <3> QED BY <2>1, <3>1, <3>2, <3>5
  <2>5. {d \in decided : d.node \in Honest}'
          = {d \in decided : d.node \in Honest} \cup {[node |-> t.node, start |-> Last.start, val |-> v]}
    BY <1>0, <1>5, <1>7 DEF Start
  <2>6. Abstract!Decide(t.node, v)
    BY <1>0, <1>1, <1>3, <1>7, <2>3, <2>4, <2>5 DEF Abstract!Decide, Abstract!Running, Last, Start
  <2> QED BY <1>2, <2>2, <2>6
<1> QED BY <1>6, <1>7

LEMMA ShowMaps ==
  ASSUME PromptStep, TypeInv, NEW m \in Inbox, ClientReply(m)
  PROVE  \E v \in Value \cup {None} : Abstract!Show(v)
<1>1. m \in net /\ m.kind = "Reply" /\ UNCHANGED <<now, sessions, decided>>
      /\ results' = results \cup {[session |-> Len(sessions), val |-> m.val]}
  BY FromNet DEF ClientReply, proposerVars, dsVars
<1>2. GoodReply(m) /\ sessions # <<>>
  BY <1>1, FromNet DEF Expected, GoodPropose, GoodForward, GoodQuery, GoodInit
<1>3. m.val \in Value \cup {None}
  BY <1>1 DEF TypeInv, Message
<1>4. {d \in decided : d.node \in Honest}' = {d \in decided : d.node \in Honest}
  BY <1>1 DEF PromptStep, Honest, malicious
<1>5. Abstract!Show(m.val)
  BY <1>1, <1>2, <1>4 DEF Abstract!Show, Abstract!Running, GoodReply, Last
<1> QED BY <1>3, <1>5

LEMMA RefineNext ==
  ASSUME DsInv, DsInv', TypeInv, [Next]_vars
  PROVE  [Abstract!Next]_Abstract!vars
<1>1. Counted' /\ setup' = setup /\ faults' >= faults /\ SessionInv'
  BY StepCounts DEF DsInv
<1>2. UNCHANGED Honest
  BY <1>1 DEF Honest, malicious
<1> SUFFICES Calmly' => Calmly /\ (Abstract!Broadcast \/ UNCHANGED <<now, sessions, Decisions, results>>)
  BY <1>2 DEF Abstract!Next, Decisions
<1> SUFFICES ASSUME Calmly'
             PROVE  Calmly /\ (Abstract!Broadcast \/ UNCHANGED <<now, sessions, Decisions, results>>)
  OBVIOUS
<1>3. PromptStep /\ Good'
  <2>1. Prompt'
    BY DEF Calmly, Tolerated, Prompt
  <2> QED BY <1>1, <2>1, PromptBefore DEF DsInv, PromptStep
<1>4. Calmly /\ Tolerated
  BY <1>3 DEF PromptStep, Prompt, Calmly
<1>5. CASE Unseen
  BY <1>2, <1>4, <1>5 DEF Unseen, Decisions
<1>6. CASE ViewInit
  BY <1>3, <1>4, <1>6, OpenMaps DEF Abstract!Broadcast
<1>7. CASE (\E t \in Ripe : DsCommit(t)) /\ UNCHANGED <<now, proposerVars, results>>
  BY <1>3, <1>4, <1>7, DecideMaps DEF Abstract!Broadcast
<1>8. CASE \E m \in Inbox : ClientReply(m)
  BY <1>3, <1>4, <1>8, ShowMaps DEF Abstract!Broadcast
<1>9. CASE Tick /\ UNCHANGED <<dsVars, results>>
  <2>1. now' = now + 1 /\ UNCHANGED <<sessions, decided, results>>
    BY <1>9 DEF Tick, proposerVars, dsVars
  <2>2. {d \in decided : d.node \in Honest}' = {d \in decided : d.node \in Honest}
    BY <1>2, <2>1
  <2> QED BY <1>4, <2>1, <2>2 DEF Abstract!Broadcast, Abstract!Tick
<1> QED BY <1>5, <1>6, <1>7, <1>8, <1>9, OnlyThese

\* The Dolev-Strong deployment keeps the promise of StringBroadcast: what
\* honest nodes commit with their timers (HandleInitMsg), and what the client
\* shows (handleReplyQueryMsg), belongs to the session that runs and agrees.
THEOREM Implements == Spec => Refines
<1>1. DsInv => SessionInv
  BY DEF DsInv
<1>2. Spec => [](DsInv /\ TypeInv)
  BY <1>1, InitDs, NextDs, InitTypes, NextTypes, PTL DEF Spec
<1>3. DsInv /\ DsInv' /\ TypeInv /\ [Next]_vars => [Abstract!Next]_Abstract!vars
  BY RefineNext
<1> QED BY <1>2, <1>3, RefineInit, PTL DEF Spec, Refines, Abstract!Spec
=============================================================================
