---------------------------- MODULE StringRounds ----------------------------
(* What the string protocols (Dolev-Strong, 1-delta-BB, TBB) share: the    *)
(* interactive client that injects strings, the proposer of the view that  *)
(* runs one consensus session per string, the clock that drives every      *)
(* timer, and the network.                                                 *)
(*                                                                         *)
(* Time is counted in ticks of config.TickInterval; config.StartTimeWait   *)
(* has the same default and counts as one.  A hop takes less than a tick,  *)
(* so what is sent on a tick boundary arrives within that tick and what is *)
(* sent during one arrives by the end of the next: "due" is a deadline and *)
(* the arrival may be any time before it.  Whatever is due, runs out or    *)
(* can run at a tick happens, in any order, before the clock moves on.     *)
EXTENDS Integers, Sequences, FiniteSets

CONSTANTS
  N,                  \* config.NodeNum
  F,                  \* int(config.MaliciousRatio * NodeNum)
  String,             \* the strings the user types
  Zero,               \* the string "0", committed when there is no single value
  Bad,                \* the string "bad" of a malicious view
  None,               \* the empty string
  Scenarios,   \* what may go wrong, one of these per behaviour; see Scenario
  LastTyped    \* bound: the tick after which nothing more is typed

Node == 0..N - 1
View == 0
Client == N
Value == String \cup {Zero, Bad}

Kind == {"Inject", "Init", "Propose", "Forward", "Forward1", "Forward2", "Vote",
         "Query", "Reply"}

\* The bounds of a behaviour.
Scenario == [
  typed : SUBSET String,       \* the strings the user types
  malicious : SUBSET Node,     \* the processes that run with config.IsMalicious
  faults : Nat,                \* how many messages may be lost or late, together
  lossKind : SUBSET Kind,      \* the kinds of messages that may be lost
  lateKind : SUBSET Kind,      \* the kinds whose hop may take a tick too long
  crossKind : SUBSET Kind,     \* the kinds that may cross into the next tick
  ordered : SUBSET Kind,       \* the kinds delivered in the order of their receivers
  racing : SUBSET (Node \X {"Forward", "vote", "ba"}),  \* the handlers that interleave
  mayStop : BOOLEAN]           \* whether the view's context may be cancelled

ASSUME RoundsAssumption ==
  /\ N \in Nat \ {0} /\ F \in 0..N - 1 /\ LastTyped \in Nat
  /\ \A c \in Scenarios : c \in Scenario
  /\ Zero # Bad /\ {Zero, Bad} \cap String = {} /\ None \notin Value

VARIABLES
  now,            \* the clock, in ticks
  net,            \* messages on their way
  timers,         \* goroutines blocked on a time.Timer
  tasks,          \* handler goroutines between two steps
  startTime,      \* startTime of each node's modules
  setup,          \* the scenario, fixed at start
  faults,         \* messages lost so far
  lates,          \* messages whose hop took a tick too long
  toType,         \* strings the user has not typed yet
  stringQueue,    \* the view's queue of injected strings
  pc,             \* where ProposeStringAuxiliaryMod.Run is
  consensusDone,  \* tokens in its channel of capacity one
  sessions        \* history: start and string of every session, in order

wireVars == <<net, faults, lates>>
proposerVars == <<toType, stringQueue, pc, consensusDone, sessions>>
roundVars == <<now, timers, tasks, startTime, setup, wireVars, proposerVars>>

malicious == setup.malicious
Honest == Node \ malicious
Last == sessions[Len(sessions)]

\* The honest nodes besides the view.
Backups == Honest \ {View}

\* The honest nodes that the view proposes to.
Targets == {n \in Backups : View \in malicious => n \in {1, 2}}

\* The network assumption of the protocols: so far every hop took less than
\* a tick.
Synchronous == lates = 0

RoundsInit ==
  /\ now = 1 /\ net = {} /\ timers = {} /\ tasks = {}
  /\ startTime = [n \in Node |-> 0]
  /\ setup \in Scenarios
  /\ faults = 0 /\ lates = 0
  /\ toType = setup.typed /\ stringQueue = <<>>
  /\ pc = "poll" /\ consensusDone = 0 /\ sessions = <<>>

(***************************************************************************)
(* Network and clock.                                                      *)
(***************************************************************************)

\* Processes that act on nothing they receive: a malicious node other than
\* the view registers handlers that return at once, and the view's process
\* is gone once its Run has returned.
Deaf == (malicious \ {View}) \cup (IF pc = "stopped" THEN {View} ELSE {})

\* Send and Broadcast: one goroutine per receiver, so every message travels
\* by itself.  A connection that cannot be had or written loses the message.
Wire(before, msgs) ==
  LET sent == {m \in msgs : m.to \notin Deaf}
  IN \E lost \in SUBSET {m \in sent : m.kind \in setup.lossKind} :
     \E slow \in SUBSET {m \in sent \ lost : m.kind \in setup.lateKind} :
       /\ faults + lates + Cardinality(lost \cup slow) <= setup.faults
       /\ net' = before \cup (sent \ (lost \cup slow))
                        \cup {[m EXCEPT !.due = @ + 1] : m \in slow}
       /\ faults' = faults + Cardinality(lost)
       /\ lates' = lates + Cardinality(slow)

\* The deadline of a message that is sent during a tick.
Soon(kind) == IF kind \in setup.crossKind THEN now + 1 ELSE now

\* Messages that differ in their receiver only.
ToAll(from, m) == {[m EXCEPT !.to = n] : n \in Node \ {from}}

\* time.Since(startTime).Milliseconds() / TickInterval, which truncates
\* towards zero just before the start.
Round(n) == IF now < startTime[n] THEN 0 ELSE now - startTime[n]

\* A handler in a waiting loop goes on once the round is below its limit.
Runnable(k) == k.at = "spin" => Round(k.node) < k.limit

\* A handler that is not racing runs to its end, or to its waiting loop,
\* before anything else happens.  The steps of the protocol modules take the
\* message, the timer or the task from here.
Urgent == {k \in tasks : k.at # "spin" /\ <<k.node, k.for>> \notin setup.racing}
Inbox ==
  IF Urgent # {} THEN {}
  ELSE {m \in net : m.kind \in setup.ordered =>
                      \A o \in net : o.kind = m.kind => m.to <= o.to}
\* Timers that only touch their own node's state fire node by node: their
\* order between nodes makes no difference.
LocalTimer == {"dsCommit", "bbFinal", "ref", "cp"}
Ripe ==
  IF Urgent # {} THEN {}
  ELSE {t \in timers : /\ t.at <= now
                       /\ t.what \in LocalTimer =>
                            \A u \in timers : u.what \in LocalTimer /\ u.at <= now
                                               => t.node <= u.node}
Ready == IF Urgent = {} THEN {k \in tasks : Runnable(k)} ELSE Urgent

TickEnabled ==
  /\ \A m \in net : m.due > now
  /\ \A t \in timers : t.at > now
  /\ \A k \in tasks : ~Runnable(k)
  /\ pc = "poll" => stringQueue = <<>>
  /\ pc = "wait" => consensusDone = 0
  /\ timers # {} \/ net # {}

Tick ==
  /\ TickEnabled
  /\ now' = now + 1
  /\ UNCHANGED <<timers, tasks, startTime, setup, wireVars, proposerVars>>

(***************************************************************************)
(* The interactive client and the proposer of the view.                    *)
(***************************************************************************)

\* "propose <string>": an Inject message to the view.  Any other command,
\* and a propose without a string, sends nothing.
HandleCmdPropose(s) ==
  /\ s \in toType /\ now <= LastTyped
  /\ toType' = toType \ {s}
  /\ Wire(net, {[kind |-> "Inject", to |-> View, val |-> s, due |-> Soon("Inject")]})
  /\ UNCHANGED <<now, timers, tasks, startTime, setup, stringQueue, pc,
                 consensusDone, sessions>>

HandleInjectTwice(m) ==
  /\ m.kind = "Inject"
  /\ net' = net \ {m}
  /\ stringQueue' = stringQueue \o <<m.val, m.val>>
  /\ UNCHANGED <<now, timers, tasks, startTime, setup, faults, lates,
                 toType, pc, consensusDone, sessions>>

HandleInject(m) ==
  /\ m.kind = "Inject"
  /\ net' = net \ {m}
  /\ stringQueue' = Append(stringQueue, m.val)
  /\ UNCHANGED <<now, timers, tasks, startTime, setup, faults, lates,
                 toType, pc, consensusDone, sessions>>

\* Run, queue empty: sleep 200 ms and look again.
RunPoll ==
  /\ pc = "poll" /\ stringQueue = <<>>
  /\ UNCHANGED roundVars

\* Run, first half of a session: dequeue, announce the start time, call the
\* own Init handler, which sets initTimers, and wait for the start time.
RunInit(initTimers) ==
  /\ pc = "poll" /\ stringQueue # <<>>
  /\ LET start == now + 1
         init == [kind |-> "Init", to |-> Client, start |-> start, due |-> now]
     IN /\ Wire(net, ToAll(View, init) \cup {init})
        /\ timers' = timers \cup initTimers
                       \cup {[node |-> View, at |-> start, what |-> "start"]}
        /\ startTime' = [startTime EXCEPT ![View] = start]
        /\ sessions' = Append(sessions, [start |-> start, val |-> Head(stringQueue)])
  /\ stringQueue' = Tail(stringQueue)
  /\ pc' = "start"
  /\ UNCHANGED <<now, tasks, setup, toType, consensusDone>>

\* Run, second half: propose the string to every neighbour, or, from a
\* malicious view, "bad" to nodes 1 and 2.  The own Propose handler, which
\* is always given the string itself, sets proposeTimers.
RunPropose(proposeTimers) ==
  \E t \in Ripe :
    /\ t.what = "start"
    /\ LET m == [kind |-> "Propose", to |-> Client, due |-> now,
                 val |-> IF View \in malicious THEN Bad ELSE Last.val]
       IN Wire(net, {p \in ToAll(View, m) : View \in malicious => p.to \in {1, 2}})
    /\ timers' = (timers \ {t}) \cup proposeTimers
    /\ pc' = "wait"
    /\ UNCHANGED <<now, tasks, startTime, setup, toType, stringQueue,
                   consensusDone, sessions>>

\* handleConsensusDone, called by the done timer of one of the modules: a
\* send that is dropped when the channel is full.
HandleConsensusDone(t) ==
  /\ t.what \in {"done", "bbDone"}
  /\ timers' = timers \ {t}
  /\ consensusDone' = 1
  /\ UNCHANGED <<now, tasks, startTime, setup, wireVars, toType,
                 stringQueue, pc, sessions>>

\* Run: the session is over.
RunDone ==
  /\ pc = "wait" /\ consensusDone = 1
  /\ consensusDone' = 0
  /\ pc' = "poll"
  /\ UNCHANGED <<now, timers, tasks, startTime, setup, wireVars, toType,
                 stringQueue, sessions>>

\* ctx.Done, seen between sessions and while waiting for the end of one but
\* not while waiting for the start: the view's process ends.
RunStop ==
  /\ setup.mayStop /\ pc \in {"poll", "wait"}
  /\ pc' = "stopped"
  /\ timers' = {t \in timers : t.node # View}
  /\ tasks' = {k \in tasks : k.node # View}
  /\ net' = {m \in net : m.to # View}
  /\ UNCHANGED <<now, startTime, setup, faults, lates, toType, stringQueue,
                 consensusDone, sessions>>

\* The steps of client and proposer that no protocol module takes part in.
ProposerNext ==
  \/ \E s \in String : HandleCmdPropose(s)
  \/ \E m \in Inbox : HandleInject(m)
  \/ RunPoll
  \/ \E t \in Ripe : HandleConsensusDone(t)
  \/ RunDone
  \/ RunStop

(***************************************************************************)
(* Properties of the proposer.                                             *)
(***************************************************************************)

\* A session starts only after the one before it had its N + 7 ticks, so no
\* two sessions share the nodes' sets ("wait for the consensus to be done").
SessionsDoNotOverlap ==
  \A i \in 2..Len(sessions) : sessions[i].start >= sessions[i - 1].start + N + 7

\* A session that runs comes to an end: its end has been signalled, or the
\* view still has the timer with which Dolev-Strong signals it, N + 7 ticks
\* after the handling of Init.
EndIsTimed ==
  pc \in {"start", "wait"} =>
    \/ consensusDone = 1
    \/ [node |-> View, at |-> Last.start + N + 6, what |-> "done"] \in timers

\* One command makes one session at most: on its way from the command to the
\* session a string is in one place only.
ProposedOnce ==
  \A i, j \in 1..Len(sessions) : sessions[i].val = sessions[j].val => i = j

\* Every string the view has queued gets a session, unless the view is
\* stopped: the proposer is never left waiting for a session's end.
QueuedIsProposed ==
  \A s \in String :
    (\E i \in 1..Len(stringQueue) : stringQueue[i] = s)
      ~> (pc = "stopped" \/ \E i \in 1..Len(sessions) : sessions[i].val = s)

=============================================================================
