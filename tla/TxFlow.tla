------------------------------- MODULE TxFlow -------------------------------
(***************************************************************************)
(* The way of a transaction: a load generator of the client sends it to    *)
(* the view node of a shard, the proposer there pools it, packs it into a  *)
(* request and hands it to PBFT, the TBD addon replies to the client and   *)
(* the measure module of the client adds the reply to its records, which   *)
(* it writes to its files when the client stops.                           *)
(*                                                                         *)
(* Transactions are numbered in the order they are generated.  Every       *)
(* message is handled by a goroutine of its own, so messages overtake each *)
(* other.  PBFT, modelled in Pbft, is here what the proposer and the       *)
(* client see of it: it takes requests in order, one at a time, may stop   *)
(* for good, and may apply a request a second time.                        *)
(***************************************************************************)
EXTENDS Integers, Sequences, FiniteSets, SequencesExt

CONSTANTS
  Shard,       \* 0..config.ShardNum - 1
  Speed,       \* config.TxInjectSpeed, transactions per tick of the generator
  MinTxs,      \* 100, mincount of TryProposeBlock
  MaxTxs,      \* 500, maxcount of TryProposeBlock
  BatchSize,   \* config.BlockSize, batchSize of the pool
  Scenarios    \* protocols and bounds, one of these per behaviour

Scenario == [
  protocol : {"Simple", "ProposeTxs", "TBD"},
  shards : SUBSET Shard,  \* the shards that transactions are sent to
  ticks : Nat,            \* bound: ticks of the generator
  lastSecond : Nat,       \* bound: seconds since the TPS addon was made
  repeats : Nat,          \* bound: requests a shard's PBFT applies a second time
  losses : Nat]           \* bound: messages that are lost

ASSUME FlowAssumption ==
  /\ Speed \in Nat \ {0}
  /\ MinTxs \in Nat \ {0} /\ MaxTxs \in Nat /\ MinTxs <= MaxTxs
  /\ BatchSize \in Nat \ {0}
  /\ \A c \in Scenarios : c \in Scenario

VARIABLES
  setup,         \* the scenario, fixed at start
  clientDone,    \* the client's context is cancelled
  viewDone,      \* Shard -> the context of its view node is cancelled
  genPc,         \* "wait" for the nodes, "send" at every tick, or "end"
  sent,          \* number of transactions generated
  inject,        \* MsgInject messages on their way
  pool,          \* Shard -> TxPool.Txs
  taken,         \* Shard -> what the proposer has taken out and not proposed
  requestQueue,  \* Shard -> requests waiting for consensus
  current,       \* Shard -> at most one request in consensus
  replies,       \* MsgReply messages on their way
  handling,      \* goroutines of HandleReply
  measureAddons, \* number of addons Run has made
  second,        \* seconds since the TPS addon was made
  TPS,           \* transactions replied to, per second
  latencys,      \* the replies whose latency is recorded
  WaitLen,       \* Shard -> length of the request queue
  writePc,       \* the next addon to write, 0 before ctx.Done is seen
  files,         \* what WriteResult has written, per addon
  lost,          \* number of messages lost
  arrived,       \* history: Shard -> transactions added to the pool, in order
  proposed,      \* history: Shard -> transactions proposed, in order
  applied,       \* history: Shard -> requests PBFT has applied, once or twice
  handled        \* history: replies all addons recorded before ctx.Done

clientVars == <<genPc, sent>>
viewVars == <<pool, taken, arrived, proposed>>
pbftVars == <<requestQueue, current, applied>>
recordVars == <<TPS, latencys, WaitLen>>
measureVars == <<handling, measureAddons, second, recordVars, writePc, files,
                 handled>>
vars == <<setup, clientDone, viewDone, inject, replies, lost,
          clientVars, viewVars, pbftVars, measureVars>>

protocol == setup.protocol

\* config.MeasureMethod
MeasureMethod == <<"TPS", "TCL", "WaitLen">>

SumOf(counts) == SumFunction(counts)

Init ==
  /\ setup \in Scenarios
  /\ clientDone = FALSE /\ viewDone = [s \in Shard |-> FALSE]
  /\ genPc = "wait" /\ sent = 0
  /\ inject = {} /\ replies = {} /\ lost = 0
  /\ pool = [s \in Shard |-> <<>>] /\ taken = [s \in Shard |-> <<>>]
  /\ requestQueue = [s \in Shard |-> <<>>] /\ current = [s \in Shard |-> <<>>]
  /\ handling = {} /\ measureAddons = 0 /\ second = 0
  /\ TPS = <<>> /\ latencys = {} /\ WaitLen = [s \in {} |-> 0]
  /\ writePc = 0 /\ files = [a \in {} |-> <<>>]
  /\ arrived = [s \in Shard |-> <<>>] /\ proposed = [s \in Shard |-> <<>>]
  /\ applied = [s \in Shard |-> {}] /\ handled = {}

-----------------------------------------------------------------------------
(* The load generators, sendMimicAccountTxs and sendMimicContractTxs.      *)

\* WaitForAllIPsReady answers, or gives up after its time.
GenReady ==
  /\ genPc = "wait"
  /\ genPc' \in {"send", "end"}
  /\ UNCHANGED <<setup, clientDone, viewDone, sent, inject, replies, lost,
                 viewVars, pbftVars, measureVars>>

\* A set of numbered transactions, in the order they were generated.
InOrder(txs) ==
  CHOOSE q \in [1..Cardinality(txs) -> txs] : \A i, j \in DOMAIN q : i < j => q[i] < q[j]

\* One tick: Speed transactions, each for the shard of its receiving address
\* (Addr2Shard of a random address), one message per shard that gets any.
GenTick(Addr2Shard) ==
  LET txs(s) == InOrder({t \in sent + 1..sent + Speed : Addr2Shard[t - sent] = s})
  IN /\ genPc = "send"
     /\ sent < setup.ticks * Speed
     /\ sent' = sent + Speed
     /\ inject' = inject \cup {[sid |-> s, txs |-> txs(s)] :
                               s \in {Addr2Shard[i] : i \in 1..Speed}}
     /\ UNCHANGED <<setup, clientDone, viewDone, genPc, replies, lost,
                    viewVars, pbftVars, measureVars>>

\* The select sees ctx.Done; a tick that is ready as well may win it before.
GenStop ==
  /\ genPc = "send" /\ clientDone
  /\ genPc' = "end"
  /\ UNCHANGED <<setup, clientDone, viewDone, sent, inject, replies, lost,
                 viewVars, pbftVars, measureVars>>

\* A message whose connection cannot be had or written is gone.
Lose ==
  /\ lost < setup.losses
  /\ lost' = lost + 1
  /\ \/ \E m \in inject : inject' = inject \ {m} /\ UNCHANGED replies
     \/ \E m \in replies : replies' = replies \ {m} /\ UNCHANGED inject
  /\ UNCHANGED <<setup, clientDone, viewDone, clientVars, viewVars,
                 pbftVars, measureVars>>

-----------------------------------------------------------------------------
(* The pool and the proposers, proposeBlock and proposeTxs.                *)

\* Mutant of AddTxs: a batch is put before what is pooled.
AddTxsInFront(txs, more) == more \o txs
\* AddTxs: the batch goes behind what is pooled.
AddTxs(txs, more) == txs \o more

\* Mutant of GetEnough: the test is off by one.
GetMoreThanEnough(txs) == Len(txs) > MinTxs
\* Whether the proposer finds enough transactions.
GetEnough(txs) == Len(txs) >= MinTxs

\* GetEnoughTxs(100, 500) and GetBatchofTxs: the number of transactions taken
\* from the front of the pool, 0 for nil.
GetEnoughTxs(txs) ==
  IF GetEnough(txs) THEN IF MaxTxs > Len(txs) THEN Len(txs) ELSE MaxTxs ELSE 0
GetBatchofTxs(txs) == IF Len(txs) < BatchSize THEN 0 ELSE BatchSize

Count(txs) == IF protocol = "ProposeTxs" THEN GetBatchofTxs(txs)
              ELSE GetEnoughTxs(txs)

\* A content that does not decode adds no transaction.
Decode(content) == IF content \in Seq(Nat) THEN content ELSE <<>>

\* handleInject
HandleInject(m) ==
  /\ pool' = [pool EXCEPT ![m.sid] = AddTxs(@, Decode(m.txs))]
  /\ arrived' = [arrived EXCEPT ![m.sid] = @ \o Decode(m.txs)]
  /\ inject' = inject \ {m}
  /\ UNCHANGED <<setup, clientDone, viewDone, replies, lost, clientVars,
                 taken, proposed, pbftVars, measureVars>>

\* Run: take what the pool gives, under its lock.
TakeTxs(s) ==
  /\ ~viewDone[s] /\ taken[s] = <<>>
  /\ LET n == Count(pool[s]) IN
     /\ n > 0
     /\ taken' = [taken EXCEPT ![s] = SubSeq(pool[s], 1, n)]
     /\ pool' = [pool EXCEPT ![s] = SubSeq(@, n + 1, Len(@))]
  /\ UNCHANGED <<setup, clientDone, viewDone, inject, replies, lost,
                 clientVars, arrived, proposed, pbftVars, measureVars>>

\* Build the block and the request and call PBFT's handlePropose, which
\* queues it.  ctx.Done is only seen before the transactions are taken.
Propose(s) ==
  /\ taken[s] # <<>>
  /\ requestQueue' = [requestQueue EXCEPT ![s] = Append(@, taken[s])]
  /\ proposed' = [proposed EXCEPT ![s] = @ \o taken[s]]
  /\ taken' = [taken EXCEPT ![s] = <<>>]
  /\ UNCHANGED <<setup, clientDone, viewDone, inject, replies, lost,
                 clientVars, pool, arrived, current, applied, measureVars>>

-----------------------------------------------------------------------------
(* PBFT, as its neighbours see it.                                         *)

\* Run: the next request goes into consensus.
PbftDispatch(s) ==
  /\ ~viewDone[s] /\ current[s] = <<>> /\ requestQueue[s] # <<>>
  /\ current' = [current EXCEPT ![s] = <<Head(requestQueue[s])>>]
  /\ requestQueue' = [requestQueue EXCEPT ![s] = Tail(@)]
  /\ UNCHANGED <<setup, clientDone, viewDone, inject, replies, lost,
                 clientVars, viewVars, applied, measureVars>>

\* The reply of the TBD addon; the simple one sends none.
Reply(s, txs, copy) ==
  replies' = IF protocol # "TBD" THEN replies
             ELSE replies \cup {[sid |-> s, txs |-> txs, copy |-> copy,
                                 ReqQueueLen |-> Len(requestQueue[s])]}

\* HandleCommitAddon and the end of the round.
PbftApply(s) ==
  /\ current[s] # <<>>
  /\ applied' = [applied EXCEPT ![s] = @ \cup {<<current[s][1], 1>>}]
  /\ current' = [current EXCEPT ![s] = <<>>]
  /\ Reply(s, current[s][1], 1)
  /\ UNCHANGED <<setup, clientDone, viewDone, inject, lost, clientVars,
                 viewVars, requestQueue, measureVars>>

\* A second commit handler that read isReply before the first one set it
\* applies the request, and replies, once more.
PbftApplyAgain(s) ==
  /\ Cardinality({a \in applied[s] : a[2] = 2}) < setup.repeats
  /\ \E a \in applied[s] :
       /\ <<a[1], 2>> \notin applied[s]
       /\ applied' = [applied EXCEPT ![s] = @ \cup {<<a[1], 2>>}]
       /\ Reply(s, a[1], 2)
  /\ UNCHANGED <<setup, clientDone, viewDone, inject, lost, clientVars,
                 viewVars, requestQueue, current, measureVars>>

-----------------------------------------------------------------------------
(* The measure module of the client.                                       *)

\* Run: make the next addon.  HandleReply reads the slice without a lock and
\* sees the addons made so far.
NewMeasureAddon ==
  /\ measureAddons < Len(MeasureMethod)
  /\ measureAddons' = measureAddons + 1
  /\ UNCHANGED <<setup, clientDone, viewDone, inject, replies, lost,
                 clientVars, viewVars, pbftVars, handling, second, recordVars,
                 writePc, files, handled>>

\* A second goes by for the TPS addon.
SecondPasses ==
  /\ measureAddons > 0 /\ second < setup.lastSecond
  /\ second' = second + 1
  /\ UNCHANGED <<setup, clientDone, viewDone, inject, replies, lost,
                 clientVars, viewVars, pbftVars, handling, measureAddons,
                 recordVars, writePc, files, handled>>

\* HandleReply starts its loop over the addons.
HandleReply(rep) ==
  /\ replies' = replies \ {rep}
  /\ handling' = IF measureAddons = 0 THEN handling
                 ELSE handling \cup {[rep |-> rep, next |-> 1,
                                      last |-> measureAddons]}
  /\ UNCHANGED <<setup, clientDone, viewDone, inject, lost, clientVars,
                 viewVars, pbftVars, measureAddons, second, recordVars,
                 writePc, files, handled>>

\* Mutant of ExtendTPS: the longer slice is not filled from the old one.
ExtendTPSFresh(old) ==
  IF second >= Len(old) THEN [i \in 1..second + 1 |-> 0] ELSE old
\* The slice grows to hold the present second.
ExtendTPS(old) ==
  IF second >= Len(old)
  THEN [i \in 1..second + 1 |-> IF i <= Len(old) THEN old[i] ELSE 0] ELSE old

\* UpdateRecord of each addon.
UpdateTPS(rep) ==
  /\ TPS' = [ExtendTPS(TPS) EXCEPT ![second + 1] = @ + Len(rep.txs)]
  /\ UNCHANGED <<latencys, WaitLen>>

UpdateTCL(rep) ==
  /\ latencys' = latencys \cup {rep}
  /\ UNCHANGED <<TPS, WaitLen>>

UpdateWaitLen(rep) ==
  /\ WaitLen' = [s \in DOMAIN WaitLen \cup {rep.sid} |->
                   IF s = rep.sid THEN rep.ReqQueueLen ELSE WaitLen[s]]
  /\ UNCHANGED <<TPS, latencys>>

UpdateRecord(addon, rep) ==
  \/ addon = "TPS" /\ UpdateTPS(rep)
  \/ addon = "TCL" /\ UpdateTCL(rep)
  \/ addon = "WaitLen" /\ UpdateWaitLen(rep)

\* Mutant of IsLast: the loop goes one too far.
IsPastLast(h) == h.next > h.last
IsLast(h) == h.next = h.last

\* One turn of the loop, under the lock of that addon.
HandleReplyStep(h) ==
  /\ UpdateRecord(MeasureMethod[h.next], h.rep)
  /\ handling' = (handling \ {h}) \cup
                 (IF IsLast(h) THEN {} ELSE {[h EXCEPT !.next = @ + 1]})
  /\ handled' = IF h.next = Len(MeasureMethod) /\ writePc = 0
                THEN handled \cup {h.rep} ELSE handled
  /\ UNCHANGED <<setup, clientDone, viewDone, inject, replies, lost,
                 clientVars, viewVars, pbftVars, measureAddons, second, writePc,
                 files>>

\* The rows of TPS.csv.  AvgTPS is total over seconds, NaN while both are 0.
TPSRows ==
  [i \in DOMAIN TPS |->
     [tps |-> TPS[i], total |-> SumOf(SubSeq(TPS, 1, i)),
      seconds |-> Cardinality({j \in 1..i : TPS[j] # 0})]]
\* The rows of TCL.csv, whose average is left out, and of WaitLen.csv.
TCLRows == latencys
WaitLenRow == WaitLen

\* Run sees ctx.Done, once all addons are made.
MeasureStop ==
  /\ clientDone /\ writePc = 0 /\ measureAddons = Len(MeasureMethod)
  /\ writePc' = 1
  /\ UNCHANGED <<setup, clientDone, viewDone, inject, replies, lost,
                 clientVars, viewVars, pbftVars, handling, measureAddons,
                 second, recordVars, files, handled>>

\* Mutant of WriteLeft: the last addon is not written.
WriteLeftButOne == writePc \in 1..Len(MeasureMethod) - 1
\* The loop over the addons has not ended.
WriteLeft == writePc \in 1..Len(MeasureMethod)

\* WriteResult of the next addon, under its lock.
WriteResult ==
  /\ WriteLeft
  /\ LET addon == MeasureMethod[writePc]
         text == CASE addon = "TPS" -> TPSRows
                   [] addon = "TCL" -> TCLRows
                   [] addon = "WaitLen" -> WaitLenRow
     IN files' = [a \in DOMAIN files \cup {addon} |->
                    IF a = addon THEN text ELSE files[a]]
  /\ writePc' = writePc + 1
  /\ UNCHANGED <<setup, clientDone, viewDone, inject, replies, lost,
                 clientVars, viewVars, pbftVars, handling, measureAddons,
                 second, recordVars, handled>>

-----------------------------------------------------------------------------
\* The user interrupts the client.
Interrupt ==
  /\ ~clientDone
  /\ clientDone' = TRUE
  /\ UNCHANGED <<setup, viewDone, inject, replies, lost, clientVars,
                 viewVars, pbftVars, measureVars>>

\* The client's MsgStop cancels the context of a view node.
StopView(s) ==
  /\ clientDone /\ ~viewDone[s]
  /\ viewDone' = [viewDone EXCEPT ![s] = TRUE]
  /\ UNCHANGED <<setup, clientDone, inject, replies, lost, clientVars,
                 viewVars, pbftVars, measureVars>>

Generate == GenReady \/ (\E f \in [1..Speed -> setup.shards] : GenTick(f)) \/ GenStop
Pbft(s) == PbftDispatch(s) \/ PbftApply(s) \/ PbftApplyAgain(s)
\* The measure module is part of the protocol TBD only.
Measure ==
  /\ protocol = "TBD"
  /\ \/ NewMeasureAddon \/ SecondPasses \/ MeasureStop \/ WriteResult
     \/ \E rep \in replies : HandleReply(rep)
     \/ \E h \in handling : HandleReplyStep(h)

Next ==
  \/ Generate \/ Lose \/ Measure \/ Interrupt
  \/ \E m \in inject : HandleInject(m)
  \/ \E s \in setup.shards : TakeTxs(s) \/ Propose(s) \/ Pbft(s) \/ StopView(s)

\* The loops of the proposer and of the measure module keep running, and the
\* stop message is handled.  Nothing is assumed of the generator, of PBFT or
\* of the network.
Fairness ==
  /\ \A s \in Shard : WF_vars(TakeTxs(s)) /\ WF_vars(Propose(s))
  /\ WF_vars(protocol = "TBD" /\ NewMeasureAddon)
  /\ WF_vars(protocol = "TBD" /\ MeasureStop)
  /\ WF_vars(protocol = "TBD" /\ WriteResult)

Spec == Init /\ [][Next]_vars /\ Fairness

-----------------------------------------------------------------------------
\* The txs of a set of replies, or of applied requests, together.
TotalTxs(S, Txs(_)) == SumFunction([r \in S |-> Len(Txs(r))])
Applied == UNION {{<<s, a[1], a[2]>> : a \in applied[s]} : s \in Shard}

TypeOK ==
  /\ setup \in Scenarios /\ clientDone \in BOOLEAN
  /\ viewDone \in [Shard -> BOOLEAN]
  /\ genPc \in {"wait", "send", "end"} /\ sent \in 0..setup.ticks * Speed
  /\ inject \subseteq [sid : Shard, txs : Seq(Nat)]
  /\ pool \in [Shard -> Seq(Nat)] /\ taken \in [Shard -> Seq(Nat)]
  /\ arrived \in [Shard -> Seq(Nat)] /\ proposed \in [Shard -> Seq(Nat)]
  /\ requestQueue \in [Shard -> Seq(Seq(Nat))]
  /\ current \in [Shard -> Seq(Seq(Nat))]
  /\ applied \in [Shard -> SUBSET (Seq(Nat) \X {1, 2})]
  /\ measureAddons \in 0..Len(MeasureMethod) /\ second \in Nat
  /\ \A h \in handling : h.next \in 1..h.last /\ h.last <= measureAddons
  /\ TPS \in Seq(Nat) /\ writePc \in 0..Len(MeasureMethod) + 1

\* Between the pool, the proposer's hands and the requests it has proposed no
\* transaction is lost, doubled or passed by another: together they are what
\* handleInject has added, in that order, whatever was added in between
\* (AddTxs, GetEnoughTxs, GetBatchofTxs, TryProposeBlock).
PoolKeepsOrder ==
  \A s \in Shard : proposed[s] \o taken[s] \o pool[s] = arrived[s]

\* The report counts every reply all addons have seen before ctx.Done, and no
\* transaction more than PBFT has applied, repeats included: neither the
\* growth of the TPS slice nor a reply handled during WriteResult drops or
\* doubles one (measureAddon_TPS.go, measure.go).
ReportMatchesReplies ==
  "TPS" \in DOMAIN files =>
    LET rows == files["TPS"]
        total == IF rows = <<>> THEN 0 ELSE rows[Len(rows)].total
    IN /\ total >= TotalTxs(handled, LAMBDA r : r.txs)
       /\ total <= TotalTxs(Applied, LAMBDA a : a[2])
       /\ "TCL" \in DOMAIN files => handled \subseteq files["TCL"]
       /\ "WaitLen" \in DOMAIN files =>
            {r.sid : r \in handled} \subseteq DOMAIN files["WaitLen"]

\* Again and again the pool of a running view node holds less than a request
\* takes: with PoolKeepsOrder, a transaction that enough others follow does
\* not stay there, although a rest of less than MinTxs is left for ever.
PoolDrains ==
  \A s \in Shard :
    []<>(viewDone[s] \/ Len(pool[s]) < IF protocol = "ProposeTxs"
                                       THEN BatchSize ELSE MinTxs)

\* Once the client is interrupted the measure module writes every file.
ResultsWritten ==
  (clientDone /\ protocol = "TBD") ~> (DOMAIN files = Range(MeasureMethod))
=============================================================================
