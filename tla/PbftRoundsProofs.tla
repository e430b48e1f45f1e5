-------------------------- MODULE PbftRoundsProofs --------------------------
(***************************************************************************)
(* What the round counter and stateUpdateDone achieve in a shard with one  *)
(* backup, for any number of requests, both addons, a view node that may   *)
(* be stopped and a backup that may be silent.                             *)
(***************************************************************************)
EXTENDS PbftProofs

-----------------------------------------------------------------------------
(* The inductive invariant.                                                *)

\* The handlers that node n's own Prepare for r has set going: those of the
\* Prepare at the other node p, and of the Commit p answers with, at n, up to
\* the execution of the request and after it.
Preparing(p, r) == prepare[p][r]["net"] + prepare[p][r]["wait"]
                   + prepare[p][r]["count"] + prepare[p][r]["bcast"]
Committing(n, r) == commit[n][r]["net"] + commit[n][r]["count"]
                    + commit[n][r]["reply"]
Executing(n, r) == commit[n][r]["addon"] + commit[n][r]["commit"]
Closing(n, r) == commit[n][r]["store"] + commit[n][r]["round"]
                 + commit[n][r]["notify"]
Pending(n, p, r) ==
    Preparing(p, r) + Committing(n, r) + Executing(n, r) + Closing(n, r)

\* There is at most one of them, and none before n has executed the request.
OneInFlight ==
    \A n, p \in Node, r \in Request :
        n # p => Pending(n, p, r) <= IF prePrepare[n][r] = "done" THEN 1 ELSE 0

\* Only the view node ends a round.
OnlyViewEndsRounds ==
    \A n \in Node, r \in Request :
        commit[n][r]["round"] > 0 \/ commit[n][r]["notify"] > 0 => n = View

\* Nothing is left of r at the view node but the send on consensusDone.
Finished(r) ==
    /\ prePrepare[View][r] = "done"
    /\ \A p \in Node \ {View}, st \in PrepareStage : prepare[p][r][st] = 0
    /\ \A st \in CommitStage \ {"notify"} : commit[View][r][st] = 0

\* Requests are dispatched in different rounds, none is ahead of the round
\* counter, and those of past rounds are finished.
PastRoundsFinished ==
    /\ \A q, r \in Dispatched : roundOf[q] = roundOf[r] => q = r
    /\ \A r \in Dispatched :
          /\ roundOf[r] <= currentRound[View]
          /\ roundOf[r] < currentRound[View] => Finished(r)

\* While the end of a round is not yet announced, and while Run is ready to
\* dispatch, no request of the current round has been dispatched.
DispatchWaits ==
    /\ \A r \in Request : commit[View][r]["notify"] > 0 =>
          /\ roundOf[r] = currentRound[View] - 1
          /\ runPc # "loop"
          /\ \A q \in Dispatched : roundOf[q] < currentRound[View]
    /\ runPc = "loop" => \A q \in Dispatched : roundOf[q] < currentRound[View]

\* The view node has executed one request per past round, and one more
\* between HandleCommitAddon and IncCurrentRound.
Storing(r) == commit[View][r]["store"] + commit[View][r]["round"]

OnePerRound ==
    /\ \A r \in Request : Storing(r) > 0 =>
          Len(executed[View]) = currentRound[View] + 1
    /\ (\A r \in Request : Storing(r) = 0) =>
          Len(executed[View]) = currentRound[View]

\* Heights do not fall: along the rounds, from there to the queue, along the
\* queue, and to the block that would be proposed next.
HeightsRise ==
    /\ \A q, r \in Dispatched : roundOf[q] <= roundOf[r] =>
          block[q].height <= block[r].height
    /\ \A q \in Dispatched, i \in 1..Len(requestQueue) :
          block[q].height <= block[requestQueue[i]].height
    /\ \A i, j \in 1..Len(requestQueue) : i <= j =>
          block[requestQueue[i]].height <= block[requestQueue[j]].height
    /\ \A r \in Proposed : block[r].height <= Height(CurrentBlock(View)) + 1

\* The parent hash NewBlock has read is still on the chain when it reads the
\* height, and the chain has not become lower since.
DraftOnChain ==
    draft # Nil =>
        /\ \/ draft = Genesis
           \/ \E i \in 1..Len(executed[View]) : executed[View][i] = draft
        /\ Height(draft) <= Height(CurrentBlock(View))

ChainNotHigherThanLong == Height(CurrentBlock(View)) <= Len(executed[View])

\* The parts about rounds, and all of it.
RoundInv ==
    /\ OneBackup
    /\ IndInv
    /\ OneInFlight
    /\ OnlyViewEndsRounds
    /\ PastRoundsFinished
    /\ DispatchWaits
    /\ OnePerRound
    /\ CommitAfterStateUpdate
    /\ RoundsInOrder

ChainInv ==
    /\ HeightsRise
    /\ DraftOnChain
    /\ ChainNotHigherThanLong
    /\ BlocksBuildOnChain

-----------------------------------------------------------------------------
(* Facts about the lanes.                                                  *)

LEMMA Stages ==
    /\ PrepareStage = {"net", "wait", "count", "bcast"}
    /\ CommitStage = {"net", "count", "reply", "addon", "commit", "store",
                      "round", "notify"}
BY DEF PrepareStage, CommitStage

LEMMA StageMembers ==
    /\ "net" \in PrepareStage /\ "wait" \in PrepareStage
    /\ "count" \in PrepareStage /\ "bcast" \in PrepareStage
    /\ "net" \in CommitStage /\ "count" \in CommitStage
    /\ "reply" \in CommitStage /\ "addon" \in CommitStage
    /\ "commit" \in CommitStage /\ "store" \in CommitStage
    /\ "round" \in CommitStage /\ "notify" \in CommitStage
BY DEF PrepareStage, CommitStage

LEMMA PreparingSum ==
    ASSUME TypeOK, NEW p \in Node, NEW r \in Request
    PROVE  /\ Preparing(p, r) \in Nat
           /\ \A st \in PrepareStage : /\ prepare[p][r][st] \in Nat
                                       /\ prepare[p][r][st] <= Preparing(p, r)
BY FieldTypes, Stages DEF Preparing

LEMMA CommittingSum ==
    ASSUME TypeOK, NEW n \in Node, NEW r \in Request
    PROVE  /\ Committing(n, r) \in Nat /\ Executing(n, r) \in Nat
           /\ Closing(n, r) \in Nat
           /\ \A st \in CommitStage : commit[n][r][st] \in Nat
           /\ \A st \in {"net", "count", "reply"} :
                 /\ commit[n][r][st] <= Committing(n, r)
                 /\ \A s \in {"net", "count", "reply"} \ {st} :
                       commit[n][r][s] + commit[n][r][st] <= Committing(n, r)
           /\ \A st \in {"addon", "commit"} :
                 /\ commit[n][r][st] <= Executing(n, r)
                 /\ \A s \in {"addon", "commit"} \ {st} :
                       commit[n][r][s] + commit[n][r][st] <= Executing(n, r)
           /\ \A st \in {"store", "round", "notify"} :
                 /\ commit[n][r][st] <= Closing(n, r)
                 /\ \A s \in {"store", "round", "notify"} \ {st} :
                       commit[n][r][s] + commit[n][r][st] <= Closing(n, r)
<1>1. \A st \in CommitStage : commit[n][r][st] \in Nat
  BY FieldTypes
<1>2. /\ commit[n][r]["net"] \in Nat /\ commit[n][r]["count"] \in Nat
      /\ commit[n][r]["reply"] \in Nat /\ commit[n][r]["addon"] \in Nat
      /\ commit[n][r]["commit"] \in Nat /\ commit[n][r]["store"] \in Nat
      /\ commit[n][r]["round"] \in Nat /\ commit[n][r]["notify"] \in Nat
  BY <1>1, Stages
<1>3. /\ Committing(n, r) \in Nat
      /\ \A st \in {"net", "count", "reply"} :
            /\ commit[n][r][st] <= Committing(n, r)
            /\ \A s \in {"net", "count", "reply"} \ {st} :
                  commit[n][r][s] + commit[n][r][st] <= Committing(n, r)
  BY <1>2 DEF Committing
<1>4. /\ Executing(n, r) \in Nat
      /\ \A st \in {"addon", "commit"} :
            /\ commit[n][r][st] <= Executing(n, r)
            /\ \A s \in {"addon", "commit"} \ {st} :
                  commit[n][r][s] + commit[n][r][st] <= Executing(n, r)
  BY <1>2 DEF Executing
<1>5. /\ Closing(n, r) \in Nat
      /\ \A st \in {"store", "round", "notify"} :
            /\ commit[n][r][st] <= Closing(n, r)
            /\ \A s \in {"store", "round", "notify"} \ {st} :
                  commit[n][r][s] + commit[n][r][st] <= Closing(n, r)
  BY <1>2 DEF Closing
<1> QED
  BY <1>1, <1>3, <1>4, <1>5

\* The same in the next state.
LEMMA PreparingPrimed ==
    ASSUME TypeOK', NEW p \in Node, NEW r \in Request
    PROVE  Preparing(p, r)' \in Nat
<1>1. prepare'[p][r] \in [PrepareStage -> Nat]
  BY DEF TypeOK
<1> QED
  BY <1>1, Stages DEF Preparing

LEMMA CommittingPrimed ==
    ASSUME TypeOK', NEW n \in Node, NEW r \in Request
    PROVE  /\ Committing(n, r)' \in Nat /\ Executing(n, r)' \in Nat
           /\ Closing(n, r)' \in Nat
<1>1. commit'[n][r] \in [CommitStage -> Nat]
  BY DEF TypeOK
<1> QED
  BY <1>1, Stages DEF Committing, Executing, Closing

\* With one backup a third node is one of two different ones.
LEMMA TwoNodes ==
    ASSUME OneBackup, NEW n \in Node, NEW p \in Node, n # p, NEW d \in Node
    PROVE  d = n \/ d = p
BY DEF OneBackup

\* A handler of a Commit is alone in its lane.
LEMMA CommitIsAlone ==
    ASSUME RoundInv, NEW n \in Node, NEW r \in Request, NEW st \in CommitStage,
           commit[n][r][st] > 0
    PROVE  /\ prePrepare[n][r] = "done"
           /\ commit[n][r][st] = 1
           /\ \A s \in CommitStage \ {st} : commit[n][r][s] = 0
           /\ \A p \in Node \ {n}, s \in PrepareStage : prepare[p][r][s] = 0
<1>1. TypeOK
  BY DEF RoundInv, IndInv
<1>2. PICK m \in Node \ {n} : TRUE
  BY DEF RoundInv, IndInv, CommitHasSender
<1> DEFINE load == Committing(n, r) + Executing(n, r) + Closing(n, r)
<1>3. /\ Committing(n, r) \in Nat /\ Executing(n, r) \in Nat
      /\ Closing(n, r) \in Nat
      /\ load >= 1
  BY <1>1, CommittingSum, Stages
<1>4. ASSUME NEW p \in Node \ {n}
      PROVE  /\ prePrepare[n][r] = "done"
             /\ load = 1
             /\ \A s \in PrepareStage : prepare[p][r][s] = 0
  <2>1. Pending(n, p, r) <= IF prePrepare[n][r] = "done" THEN 1 ELSE 0
    BY <1>4 DEF RoundInv, OneInFlight
  <2>2. Preparing(p, r) \in Nat
    BY <1>1, PreparingSum
  <2>3. /\ prePrepare[n][r] = "done"
        /\ Preparing(p, r) = 0
        /\ load = 1
    BY <1>3, <2>1, <2>2 DEF Pending
  <2> QED
    BY <1>1, <2>3, PreparingSum
<1>5. prePrepare[n][r] = "done" /\ load = 1
  BY <1>2, <1>4
<1>6. commit[n][r][st] = 1 /\ \A s \in CommitStage \ {st} : commit[n][r][s] = 0
  <2>1. \A s \in CommitStage : commit[n][r][s] \in Nat
    BY <1>1, CommittingSum
  <2>2. ASSUME NEW s \in CommitStage \ {st}
        PROVE  commit[n][r][s] + commit[n][r][st] <= 1
    BY <1>1, <1>3, <1>5, <2>1, <2>2, CommittingSum, Stages
  <2>3. commit[n][r][st] <= 1
    BY <1>1, <1>3, <1>5, <2>1, CommittingSum, Stages
  <2> QED
    BY <2>1, <2>2, <2>3
<1> QED
  BY <1>4, <1>5, <1>6

\* A handler of a Prepare is alone in the lane of the other node.
LEMMA PrepareIsAlone ==
    ASSUME RoundInv, NEW n \in Node, NEW p \in Node, n # p, NEW r \in Request,
           NEW st \in PrepareStage, prepare[p][r][st] > 0
    PROVE  /\ prePrepare[n][r] = "done"
           /\ Pending(n, p, r) = 1
           /\ \A s \in CommitStage : commit[n][r][s] = 0
<1>1. TypeOK
  BY DEF RoundInv, IndInv
<1>2. Pending(n, p, r) <= IF prePrepare[n][r] = "done" THEN 1 ELSE 0
  BY DEF RoundInv, OneInFlight
<1>3. Preparing(p, r) \in Nat /\ Preparing(p, r) >= 1
  BY <1>1, PreparingSum
<1>4. /\ Committing(n, r) \in Nat /\ Executing(n, r) \in Nat
      /\ Closing(n, r) \in Nat
  BY <1>1, CommittingSum
<1>5. /\ prePrepare[n][r] = "done" /\ Pending(n, p, r) = 1
      /\ Committing(n, r) = 0 /\ Executing(n, r) = 0 /\ Closing(n, r) = 0
  BY <1>2, <1>3, <1>4 DEF Pending
<1> QED
  BY <1>1, <1>5, CommittingSum, Stages

\* The request the view node is handling the Commit of is that of the round.
LEMMA CommitIsOfCurrentRound ==
    ASSUME RoundInv, NEW r \in Request, NEW st \in CommitStage \ {"notify"},
           commit[View][r][st] > 0
    PROVE  /\ r \in Dispatched
           /\ roundOf[r] = currentRound[View]
           /\ \A q \in Request, s \in CommitStage \ {"notify"} :
                 commit[View][q][s] > 0 => q = r
<1>1. View \in Node /\ TypeOK
  BY NodeAssumption DEF RoundInv, IndInv
<1>2. ASSUME NEW q \in Request, NEW s \in CommitStage \ {"notify"},
             commit[View][q][s] > 0
      PROVE  q \in Dispatched /\ roundOf[q] = currentRound[View]
  <2>1. prePrepare[View][q] = "done"
    BY <1>1, <1>2, CommitIsAlone
  <2>2. q \in Dispatched
    BY <2>1 DEF Dispatched
  <2>3. ~Finished(q)
    BY <1>2 DEF Finished
  <2>4. roundOf[q] \in Nat /\ currentRound[View] \in Nat
    BY <1>1 DEF TypeOK
  <2> QED
    BY <2>2, <2>3, <2>4 DEF RoundInv, PastRoundsFinished
<1>3. \A q \in Request, s \in CommitStage \ {"notify"} :
         commit[View][q][s] > 0 => q = r
  BY <1>2 DEF RoundInv, PastRoundsFinished
<1> QED
  BY <1>2, <1>3

\* A step of a Commit handler adds nothing to any lane.
LEMMA CommitStepPending ==
    ASSUME TypeOK, NEW n \in Node, NEW r \in Request, NEW from \in CommitStage,
           NEW to \in CommitStage \cup {"done"}, CommitStep(n, r, from, to),
           UNCHANGED prepare
    PROVE  \A d, p \in Node, q \in Request : Pending(d, p, q)' <= Pending(d, p, q)
<1> SUFFICES ASSUME NEW d \in Node, NEW p \in Node, NEW q \in Request
             PROVE  Pending(d, p, q)' <= Pending(d, p, q)
  OBVIOUS
<1>1. \A st \in CommitStage : commit'[d][q][st] =
         IF d = n /\ q = r
         THEN commit[n][r][st] - (IF st = from THEN 1 ELSE 0)
                               + (IF st = to THEN 1 ELSE 0)
         ELSE commit[d][q][st]
  BY CommitStepType
<1>2. /\ Preparing(p, q) \in Nat /\ Committing(d, q) \in Nat
      /\ Executing(d, q) \in Nat /\ Closing(d, q) \in Nat
      /\ \A st \in CommitStage : commit[d][q][st] \in Nat
  BY PreparingSum, CommittingSum
<1>3. Preparing(p, q)' = Preparing(p, q)
  BY DEF Preparing
<1>4. CASE d = n /\ q = r
  <2> DEFINE gone(st) == IF st = from THEN 1 ELSE 0
             come(st) == IF st = to THEN 1 ELSE 0
             gone1 == gone("net") + gone("count") + gone("reply")
             gone2 == gone("addon") + gone("commit")
             gone3 == gone("store") + gone("round") + gone("notify")
             come1 == come("net") + come("count") + come("reply")
             come2 == come("addon") + come("commit")
             come3 == come("store") + come("round") + come("notify")
  <2>1. \A st \in CommitStage :
           commit'[d][q][st] = commit[d][q][st] - gone(st) + come(st)
    BY <1>1, <1>4
  <2>2. \A st \in CommitStage : gone(st) \in Nat /\ come(st) \in Nat
    OBVIOUS
  <2>3. gone1 + gone2 + gone3 = 1 /\ come1 + come2 + come3 <= 1
    BY Stages
  <2> HIDE DEF gone, come
  <2>4. /\ Committing(d, q)' = Committing(d, q) - gone1 + come1
        /\ Executing(d, q)' = Executing(d, q) - gone2 + come2
        /\ Closing(d, q)' = Closing(d, q) - gone3 + come3
    BY <1>2, <2>1, <2>2, Stages DEF Committing, Executing, Closing
  <2>5. /\ gone1 \in Nat /\ gone2 \in Nat /\ gone3 \in Nat
        /\ come1 \in Nat /\ come2 \in Nat /\ come3 \in Nat
    BY <2>2, Stages
  <2> HIDE DEF gone1, gone2, gone3, come1, come2, come3
  <2> QED
    BY <1>2, <1>3, <2>3, <2>4, <2>5 DEF Pending
<1>5. CASE ~(d = n /\ q = r)
  <2>1. \A st \in CommitStage : commit'[d][q][st] = commit[d][q][st]
    BY <1>1, <1>5
  <2>2. /\ Committing(d, q)' = Committing(d, q)
        /\ Executing(d, q)' = Executing(d, q)
        /\ Closing(d, q)' = Closing(d, q)
    BY <2>1, Stages DEF Committing, Executing, Closing
  <2> QED
    BY <1>2, <1>3, <2>2 DEF Pending
<1> QED
  BY <1>4, <1>5

\* A step of a Prepare handler, and what is left of the Prepares at its node.
LEMMA PrepareStepPreparing ==
    ASSUME TypeOK, NEW n \in Node, NEW r \in Request, NEW from \in PrepareStage,
           NEW to \in PrepareStage \cup {"done"}, PrepareStep(n, r, from, to)
    PROVE  \A p \in Node, q \in Request :
              /\ Preparing(p, q)' \in Nat
              /\ Preparing(p, q)' <= Preparing(p, q)
              /\ p = n /\ q = r /\ to = "done" =>
                    Preparing(p, q)' = Preparing(p, q) - 1
<1> SUFFICES ASSUME NEW p \in Node, NEW q \in Request
             PROVE  /\ Preparing(p, q)' \in Nat
                    /\ Preparing(p, q)' <= Preparing(p, q)
                    /\ p = n /\ q = r /\ to = "done" =>
                          Preparing(p, q)' = Preparing(p, q) - 1
  OBVIOUS
<1>1. \A st \in PrepareStage : prepare'[p][q][st] =
         IF p = n /\ q = r
         THEN prepare[n][r][st] - (IF st = from THEN 1 ELSE 0)
                                + (IF st = to THEN 1 ELSE 0)
         ELSE prepare[p][q][st]
  BY PrepareStepType
<1>2. /\ Preparing(p, q) \in Nat
      /\ \A st \in PrepareStage : prepare[p][q][st] \in Nat
  BY PreparingSum
<1>3. prepare[n][r][from] > 0
  BY DEF PrepareStep
<1>4. CASE p = n /\ q = r
  <2> DEFINE gone(st) == IF st = from THEN 1 ELSE 0
             come(st) == IF st = to THEN 1 ELSE 0
  <2>1. \A st \in PrepareStage :
           prepare'[p][q][st] = prepare[p][q][st] - gone(st) + come(st)
    BY <1>1, <1>4
  <2>2. Preparing(p, q)' = Preparing(p, q)
           - (gone("net") + gone("wait") + gone("count") + gone("bcast"))
           + (come("net") + come("wait") + come("count") + come("bcast"))
    <3>1. \A st \in PrepareStage : gone(st) \in Nat /\ come(st) \in Nat
      OBVIOUS
    <3> HIDE DEF gone, come
    <3> QED
      BY <1>2, <2>1, <3>1, Stages DEF Preparing
  <2>3. gone("net") + gone("wait") + gone("count") + gone("bcast") = 1
    BY Stages
  <2>4. /\ come("net") + come("wait") + come("count") + come("bcast") \in {0, 1}
        /\ to = "done" =>
              come("net") + come("wait") + come("count") + come("bcast") = 0
    BY Stages
  <2>5. Preparing(p, q) >= 1
    BY <1>2, <1>3, <1>4, PreparingSum
  <2> HIDE DEF gone, come
  <2> QED
    BY <1>2, <2>2, <2>3, <2>4, <2>5
<1>5. CASE ~(p = n /\ q = r)
  <2>1. \A st \in PrepareStage : prepare'[p][q][st] = prepare[p][q][st]
    BY <1>1, <1>5
  <2>2. Preparing(p, q)' = Preparing(p, q)
    BY <2>1, Stages DEF Preparing
  <2> QED
    BY <1>2, <1>5, <2>2
<1> QED
  BY <1>4, <1>5

\* If the lanes do not grow, one handler at most remains in each.
LEMMA InFlightKept ==
    ASSUME OneInFlight, TypeOK, TypeOK', UNCHANGED prePrepare,
           \A d, p \in Node, q \in Request :
              d # p => Pending(d, p, q)' <= Pending(d, p, q)
    PROVE  OneInFlight'
<1> SUFFICES ASSUME NEW d \in Node, NEW p \in Node, NEW q \in Request, d # p
             PROVE  Pending(d, p, q)'
                       <= IF prePrepare'[d][q] = "done" THEN 1 ELSE 0
  BY DEF OneInFlight
<1>1. Pending(d, p, q) \in Nat
  BY PreparingSum, CommittingSum DEF Pending
<1>2. Pending(d, p, q)' \in Nat
  BY PreparingPrimed, CommittingPrimed DEF Pending
<1>3. Pending(d, p, q) <= IF prePrepare[d][q] = "done" THEN 1 ELSE 0
  BY DEF OneInFlight
<1> QED
  BY <1>1, <1>2, <1>3
-----------------------------------------------------------------------------
(* Each step keeps the part about rounds.                                  *)

LEMMA RoundTypes ==
    ASSUME RoundInv
    PROVE  /\ TypeOK /\ View \in Node
           /\ currentRound \in [Node -> Nat] /\ roundOf \in [Request -> Nat]
           /\ executed \in [Node -> Seq(Request)]
           /\ \A n \in Node, r \in Request, st \in CommitStage :
                 commit[n][r][st] \in Nat
BY NodeAssumption, FieldTypes DEF RoundInv, IndInv, TypeOK

\* What a step of a Commit handler moves, stage by stage.
LEMMA CommitMoves ==
    ASSUME TypeOK, NEW n \in Node, NEW r \in Request, NEW from \in CommitStage,
           NEW to \in CommitStage \cup {"done"}, from # to,
           CommitStep(n, r, from, to)
    PROVE  /\ \A d \in Node, q \in Request, st \in CommitStage :
                 ~(d = n /\ q = r) \/ (st # from /\ st # to) =>
                    commit'[d][q][st] = commit[d][q][st]
           /\ commit'[n][r][from] = commit[n][r][from] - 1
           /\ to # "done" => commit'[n][r][to] = commit[n][r][to] + 1
<1>1. \A d \in Node, q \in Request, st \in CommitStage :
         commit'[d][q][st] =
            IF d = n /\ q = r
            THEN commit[n][r][st] - (IF st = from THEN 1 ELSE 0)
                                  + (IF st = to THEN 1 ELSE 0)
            ELSE commit[d][q][st]
  BY CommitStepType
<1>2. \A st \in CommitStage : commit[n][r][st] \in Nat
  BY FieldTypes
<1> QED
  BY <1>1, <1>2

\* A step of a Commit handler that is not the last one of a finished request.
LEMMA FinishedKept ==
    ASSUME RoundInv, NEW n \in Node, NEW r \in Request,
           NEW from \in CommitStage \ {"notify"},
           NEW to \in CommitStage \cup {"done"},
           CommitStep(n, r, from, to), UNCHANGED <<prePrepare, prepare>>
    PROVE  \A q \in Request : Finished(q) => Finished(q)'
<1> SUFFICES ASSUME NEW q \in Request, Finished(q)
             PROVE  Finished(q)'
  OBVIOUS
<1>1. TypeOK /\ View \in Node
  BY RoundTypes
<1>2. commit[n][r][from] > 0
  BY DEF CommitStep
<1>3. ~(n = View /\ q = r)
  BY <1>2 DEF Finished
<1>4. \A st \in CommitStage : commit'[View][q][st] = commit[View][q][st]
  BY <1>1, <1>3, CommitStepType
<1> QED
  BY <1>4 DEF Finished

\* Steps of handleCommit before the request is executed.
LEMMA QuietCommitKeeps ==
    ASSUME RoundInv, IndInv', NEW n \in Node, NEW r \in Request,
           NEW from \in {"net", "count", "reply", "addon"},
           NEW to \in {"count", "reply", "addon", "commit", "done"},
           CommitStep(n, r, from, to),
           UNCHANGED <<prePrepare, prepare, roundOf, currentRound, runPc, executed>>
    PROVE  RoundInv'
<1>1. TypeOK /\ TypeOK' /\ View \in Node
  BY RoundTypes DEF IndInv
<1>2. from \in CommitStage \ {"notify"} /\ to \in CommitStage \cup {"done"}
  BY Stages
<1>3. \A d \in Node, q \in Request, st \in {"store", "round", "notify"} :
         commit'[d][q][st] = commit[d][q][st]
  <2>1. \A d \in Node, q \in Request, st \in CommitStage :
           commit'[d][q][st] =
              IF d = n /\ q = r
              THEN commit[n][r][st] - (IF st = from THEN 1 ELSE 0)
                                    + (IF st = to THEN 1 ELSE 0)
              ELSE commit[d][q][st]
    BY <1>1, <1>2, CommitStepType
  <2>2. \A st \in {"store", "round", "notify"} :
           /\ st \in CommitStage /\ st # from /\ st # to
           /\ commit[n][r][st] \in Nat
    BY <1>1, RoundTypes, StageMembers
  <2> QED
    BY <2>1, <2>2
<1>4. OneInFlight'
  BY <1>1, <1>2, CommitStepPending, InFlightKept DEF RoundInv
<1>5. OnlyViewEndsRounds' /\ OnePerRound' /\ DispatchWaits'
  BY <1>1, <1>3 DEF RoundInv, OnlyViewEndsRounds, OnePerRound, Storing,
     DispatchWaits, Dispatched
<1>6. PastRoundsFinished'
  BY <1>2, FinishedKept DEF RoundInv, PastRoundsFinished, Dispatched
<1>7. CommitAfterStateUpdate' /\ RoundsInOrder'
  BY DEF RoundInv, CommitAfterStateUpdate, RoundsInOrder
<1> QED
  BY <1>4, <1>5, <1>6, <1>7 DEF RoundInv, OneBackup

\* The step that executes the request.
LEMMA ExecutionKeeps ==
    ASSUME RoundInv, IndInv', NEW n \in Node, NEW r \in Request,
           NEW from \in {"reply", "commit"}, NEW to \in {"store", "round", "done"},
           n = View => to # "done", n # View => to # "round",
           CommitStep(n, r, from, to),
           executed' = [executed EXCEPT ![n] = Append(@, r)],
           UNCHANGED <<prePrepare, prepare, roundOf, currentRound, runPc>>
    PROVE  RoundInv'
<1>1. /\ TypeOK /\ TypeOK' /\ View \in Node
      /\ executed \in [Node -> Seq(Request)] /\ executed[n] \in Seq(Request)
      /\ currentRound[View] \in Nat
  BY RoundTypes DEF IndInv
<1>2. /\ from \in CommitStage \ {"notify"} /\ to \in CommitStage \cup {"done"}
      /\ commit[n][r][from] > 0
  BY Stages DEF CommitStep
<1>3. /\ \A d \in Node, q \in Request, st \in CommitStage :
            ~(d = n /\ q = r) \/ (st # from /\ st # to) =>
               commit'[d][q][st] = commit[d][q][st]
      /\ to # "done" => commit'[n][r][to] = commit[n][r][to] + 1
  BY <1>1, <1>2, CommitMoves
<1>4. /\ prePrepare[n][r] = "done"
      /\ \A s \in CommitStage \ {from} : commit[n][r][s] = 0
  BY <1>2, CommitIsAlone
<1>5. \A d \in Node, q \in Request : commit'[d][q]["notify"] = commit[d][q]["notify"]
  <2>1. /\ "notify" \in CommitStage /\ "notify" # from /\ "notify" # to
        /\ commit[n][r]["notify"] \in Nat
    BY RoundTypes, StageMembers
  <2> QED
    BY <1>3, <2>1
<1>6. OneInFlight'
  BY <1>1, <1>2, CommitStepPending, InFlightKept DEF RoundInv
<1>7. OnlyViewEndsRounds'
  <2>1. \A d \in Node \ {View}, q \in Request :
           commit'[d][q]["round"] = commit[d][q]["round"]
    BY <1>3, StageMembers
  <2> QED
    BY <1>5, <2>1 DEF RoundInv, OnlyViewEndsRounds
<1>8. PastRoundsFinished' /\ DispatchWaits'
  BY <1>1, <1>2, <1>5, FinishedKept
     DEF RoundInv, PastRoundsFinished, DispatchWaits, Dispatched
<1>9. CommitAfterStateUpdate'
  <2> SUFFICES ASSUME NEW d \in Node, NEW i \in 1..Len(executed'[d])
               PROVE  prePrepare[d][executed'[d][i]] = "done"
    BY DEF CommitAfterStateUpdate
  <2>1. CASE d = n /\ i = Len(executed[n]) + 1
    BY <1>1, <1>4, <2>1
  <2>2. CASE ~(d = n /\ i = Len(executed[n]) + 1)
    <3>1. i \in 1..Len(executed[d]) /\ executed'[d][i] = executed[d][i]
      BY <1>1, <2>2
    <3> QED
      BY <3>1 DEF RoundInv, CommitAfterStateUpdate
  <2> QED
    BY <2>1, <2>2
<1>10. CASE n # View
  <2>1. executed'[View] = executed[View]
    BY <1>1, <1>10
  <2>2. \A q \in Request : Storing(q)' = Storing(q)
    BY <1>1, <1>3, <1>10, StageMembers DEF Storing
  <2>3. OnePerRound' /\ RoundsInOrder'
    BY <2>1, <2>2 DEF RoundInv, OnePerRound, RoundsInOrder
  <2> QED
    BY <1>6, <1>7, <1>8, <1>9, <2>3 DEF RoundInv, OneBackup
<1>11. CASE n = View
  <2>1. /\ roundOf[r] = currentRound[View]
        /\ \A q \in Request, s \in CommitStage \ {"notify"} :
              commit[View][q][s] > 0 => q = r
    BY <1>2, <1>11, CommitIsOfCurrentRound
  <2>2. \A q \in Request : Storing(q) = 0
    <3>1. \A q \in Request : commit[View][q]["store"] = 0 /\ commit[View][q]["round"] = 0
      <4>1. "store" \in CommitStage \ {"notify", from}
            /\ "round" \in CommitStage \ {"notify", from}
        BY StageMembers
      <4>2. \A q \in Request : /\ commit[View][q]["store"] \in Nat
                               /\ commit[View][q]["round"] \in Nat
        BY <1>1, RoundTypes, StageMembers
      <4>3. ASSUME NEW q \in Request, NEW s \in {"store", "round"},
                   commit[View][q][s] # 0
            PROVE  FALSE
        BY <1>4, <1>11, <2>1, <4>1, <4>2, <4>3
      <4> QED
        BY <4>3
    <3> QED
      BY <3>1 DEF Storing
  <2>3. Len(executed[View]) = currentRound[View]
    BY <2>2 DEF RoundInv, OnePerRound
  <2>4. /\ Len(executed'[View]) = currentRound[View] + 1
        /\ executed'[View][currentRound[View] + 1] = r
        /\ \A i \in 1..currentRound[View] : executed'[View][i] = executed[View][i]
    BY <1>1, <1>11, <2>3
  <2>5. Storing(r)' = 1
    <3>1. commit[View][r]["store"] = 0 /\ commit[View][r]["round"] = 0
      BY <1>4, <1>11, StageMembers
    <3>2. /\ commit'[View][r]["store"] = IF to = "store" THEN 1 ELSE 0
          /\ commit'[View][r]["round"] = IF to = "round" THEN 1 ELSE 0
      BY <1>1, <1>2, <1>3, <1>11, <3>1, StageMembers
    <3> QED
      BY <1>11, <3>2 DEF Storing
  <2>6. OnePerRound'
    BY <1>1, <2>4, <2>5 DEF OnePerRound
  <2>7. RoundsInOrder'
    BY <1>1, <2>1, <2>3, <2>4 DEF RoundInv, RoundsInOrder
  <2> QED
    BY <1>6, <1>7, <1>8, <1>9, <2>6, <2>7 DEF RoundInv, OneBackup
<1> QED
  BY <1>10, <1>11

\* The block is stored and the flag of the node is cleared.
LEMMA StoredKeeps ==
    ASSUME RoundInv, IndInv', NEW n \in Node, NEW r \in Request,
           CommitStored(n, r)
    PROVE  RoundInv'
<1>1. /\ TypeOK /\ TypeOK' /\ View \in Node
      /\ CommitStep(n, r, "store", AfterCommitAddon(n))
      /\ UNCHANGED <<prePrepare, prepare, roundOf, currentRound, runPc, executed>>
  BY RoundTypes DEF IndInv, CommitStored, runVars
<1>2. /\ "store" \in CommitStage \ {"notify"}
      /\ AfterCommitAddon(n) \in CommitStage \cup {"done"}
      /\ n = View => AfterCommitAddon(n) = "round"
      /\ n # View => AfterCommitAddon(n) = "done"
  BY Stages DEF AfterCommitAddon
<1>3. /\ \A d \in Node, q \in Request, st \in CommitStage :
            ~(d = n /\ q = r) \/ (st # "store" /\ st # AfterCommitAddon(n)) =>
               commit'[d][q][st] = commit[d][q][st]
      /\ commit'[n][r]["store"] = commit[n][r]["store"] - 1
      /\ n = View => commit'[n][r]["round"] = commit[n][r]["round"] + 1
  BY <1>1, <1>2, CommitMoves
<1>4. \A d \in Node, q \in Request : commit'[d][q]["notify"] = commit[d][q]["notify"]
  <2>1. /\ "notify" \in CommitStage /\ "notify" # "store"
        /\ "notify" # AfterCommitAddon(n)
        /\ commit[n][r]["notify"] \in Nat
    BY <1>2, RoundTypes, StageMembers
  <2> QED
    BY <1>3, <2>1
<1>5. OneInFlight'
  BY <1>1, <1>2, CommitStepPending, InFlightKept DEF RoundInv
<1>6. OnlyViewEndsRounds'
  <2>1. \A d \in Node \ {View}, q \in Request :
           commit'[d][q]["round"] = commit[d][q]["round"]
    BY <1>2, <1>3, StageMembers
  <2> QED
    BY <1>4, <2>1 DEF RoundInv, OnlyViewEndsRounds
<1>7. PastRoundsFinished' /\ DispatchWaits'
  BY <1>1, <1>2, <1>4, FinishedKept
     DEF RoundInv, PastRoundsFinished, DispatchWaits, Dispatched
<1>8. \A q \in Request : Storing(q)' = Storing(q)
  <2>1. \A q \in Request : /\ commit[View][q]["store"] \in Nat
                           /\ commit[View][q]["round"] \in Nat
    BY <1>1, RoundTypes, StageMembers
  <2>2. ASSUME NEW q \in Request, n = View, q = r
        PROVE  Storing(q)' = Storing(q)
    BY <1>3, <2>1, <2>2 DEF Storing
  <2>3. ASSUME NEW q \in Request, ~(n = View /\ q = r)
        PROVE  Storing(q)' = Storing(q)
    BY <1>1, <1>3, <2>3, StageMembers DEF Storing
  <2> QED
    BY <2>2, <2>3
<1>9. OnePerRound' /\ CommitAfterStateUpdate' /\ RoundsInOrder'
  BY <1>1, <1>8 DEF RoundInv, OnePerRound, CommitAfterStateUpdate, RoundsInOrder
<1> QED
  BY <1>5, <1>6, <1>7, <1>9 DEF RoundInv, OneBackup

\* IncCurrentRound: the request of the round is finished.
LEMMA RoundEndKeeps ==
    ASSUME RoundInv, IndInv', NEW n \in Node, NEW r \in Request,
           CommitRound(n, r)
    PROVE  RoundInv'
<1>1. /\ TypeOK /\ TypeOK' /\ View \in Node
      /\ CommitStep(n, r, "round", "notify") /\ commit[n][r]["round"] > 0
      /\ currentRound' = [currentRound EXCEPT ![n] = @ + 1]
      /\ UNCHANGED <<prePrepare, prepare, roundOf, runPc, executed>>
      /\ currentRound \in [Node -> Nat] /\ roundOf \in [Request -> Nat]
  BY RoundTypes DEF IndInv, CommitRound, CommitStep, IncCurrentRound, runVars,
     addonVars
<1>2. n = View
  BY <1>1 DEF RoundInv, OnlyViewEndsRounds
<1>3. "round" \in CommitStage \ {"notify"} /\ "notify" \in CommitStage
  BY Stages
<1>4. \A d \in Node, q \in Request, st \in CommitStage :
         commit'[d][q][st] =
            IF d = View /\ q = r
            THEN commit[View][r][st] - (IF st = "round" THEN 1 ELSE 0)
                                     + (IF st = "notify" THEN 1 ELSE 0)
            ELSE commit[d][q][st]
  BY <1>1, <1>2, <1>3, CommitStepType
<1>5. /\ prePrepare[View][r] = "done" /\ commit[View][r]["round"] = 1
      /\ \A s \in CommitStage \ {"round"} : commit[View][r][s] = 0
      /\ \A p \in Node \ {View}, s \in PrepareStage : prepare[p][r][s] = 0
  BY <1>1, <1>2, <1>3, CommitIsAlone
<1>6. /\ r \in Dispatched /\ roundOf[r] = currentRound[View]
      /\ \A q \in Request, s \in CommitStage \ {"notify"} :
            commit[View][q][s] > 0 => q = r
  BY <1>1, <1>2, <1>3, CommitIsOfCurrentRound
<1>7. currentRound'[View] = currentRound[View] + 1
  BY <1>1, <1>2
<1>8. OneInFlight'
  BY <1>1, <1>3, CommitStepPending, InFlightKept DEF RoundInv
<1>9. OnlyViewEndsRounds'
  BY <1>2, <1>4, Stages DEF RoundInv, OnlyViewEndsRounds
<1>10. \A q \in Dispatched : /\ roundOf[q] <= currentRound[View]
                             /\ roundOf[q] = currentRound[View] => q = r
                             /\ roundOf[q] < currentRound[View] => Finished(q)
  BY <1>6 DEF RoundInv, PastRoundsFinished
<1>11. Finished(r)'
  BY <1>1, <1>4, <1>5 DEF Finished
<1>12. \A q \in Request : Finished(q) => Finished(q)'
  BY <1>1, <1>3, FinishedKept
<1>13. PastRoundsFinished'
  <2>1. \A q \in Dispatched : roundOf[q] \in Nat /\ currentRound[View] \in Nat
    BY <1>1 DEF Dispatched
  <2>2. \A q \in Dispatched : roundOf[q] <= currentRound'[View] /\ Finished(q)'
    BY <1>7, <1>10, <1>11, <1>12, <2>1 DEF Dispatched
  <2> QED
    BY <1>1, <2>2 DEF RoundInv, PastRoundsFinished, Dispatched
<1>14. DispatchWaits'
  <2>1. \A q \in Dispatched : roundOf[q] < currentRound'[View]
    BY <1>1, <1>7, <1>10 DEF Dispatched
  <2>2. \A q \in Request \ {r} : commit[View][q]["notify"] = 0
    <3> SUFFICES ASSUME NEW q \in Request \ {r}, commit[View][q]["notify"] # 0
                 PROVE  FALSE
      OBVIOUS
    <3>1. commit[View][q]["notify"] > 0
      BY <1>1, <1>3, RoundTypes
    <3>2. roundOf[r] < currentRound[View]
      BY <1>6, <3>1 DEF RoundInv, DispatchWaits
    <3> QED
      BY <1>1, <1>6, <3>2
  <2>3. runPc # "loop"
    BY <1>1, <1>6 DEF RoundInv, DispatchWaits
  <2>4. \A q \in Request : commit'[View][q]["notify"] > 0 => q = r
    BY <1>1, <1>3, <1>4, <2>2
  <2> QED
    BY <1>1, <1>6, <1>7, <2>1, <2>3, <2>4 DEF DispatchWaits, Dispatched
<1>15. OnePerRound'
  <2>1. Len(executed[View]) = currentRound[View] + 1
    <3>1. Storing(r) > 0
      BY <1>1, <1>5, RoundTypes, Stages DEF Storing
    <3> QED
      BY <3>1 DEF RoundInv, OnePerRound
  <2>2. \A q \in Request : Storing(q)' = 0
    <3>1. "store" \in CommitStage \ {"notify", "round"} /\ "round" \in CommitStage \ {"notify"}
      BY StageMembers
    <3>2. \A q \in Request : /\ commit[View][q]["store"] \in Nat
                             /\ commit[View][q]["round"] \in Nat
      BY <1>1, RoundTypes, StageMembers
    <3>3. ASSUME NEW q \in Request, q # r
          PROVE  Storing(q)' = 0
      <4>1. commit[View][q]["store"] = 0 /\ commit[View][q]["round"] = 0
        BY <1>6, <3>1, <3>2, <3>3
      <4> QED
        BY <1>1, <1>4, <3>1, <3>3, <4>1 DEF Storing
    <3>4. Storing(r)' = 0
      BY <1>1, <1>4, <1>5, <3>1 DEF Storing
    <3> QED
      BY <3>3, <3>4
  <2> QED
    BY <1>1, <1>7, <2>1, <2>2 DEF OnePerRound
<1>16. CommitAfterStateUpdate' /\ RoundsInOrder'
  BY <1>1 DEF RoundInv, CommitAfterStateUpdate, RoundsInOrder
<1> QED
  BY <1>8, <1>9, <1>13, <1>14, <1>15, <1>16 DEF RoundInv, OneBackup

\* The send on consensusDone, received or dropped.
LEMMA NotifyKeeps ==
    ASSUME RoundInv, IndInv', NEW n \in Node, NEW r \in Request,
           CommitNotify(n, r)
    PROVE  RoundInv'
<1>1. /\ TypeOK /\ TypeOK' /\ View \in Node
      /\ CommitStep(n, r, "notify", "done") /\ commit[n][r]["notify"] > 0
      /\ UNCHANGED <<prePrepare, prepare, roundOf, currentRound, executed>>
      /\ currentRound \in [Node -> Nat] /\ roundOf \in [Request -> Nat]
  BY RoundTypes DEF IndInv, CommitNotify, CommitStep, addonVars
<1>2. n = View
  BY <1>1 DEF RoundInv, OnlyViewEndsRounds
<1>3. "notify" \in CommitStage
  BY Stages
<1>4. /\ \A d \in Node, q \in Request, st \in CommitStage :
            ~(d = View /\ q = r) \/ st # "notify" =>
               commit'[d][q][st] = commit[d][q][st]
      /\ commit'[View][r]["notify"] = commit[View][r]["notify"] - 1
  <2>1. /\ \A d \in Node, q \in Request, st \in CommitStage :
              ~(d = n /\ q = r) \/ (st # "notify" /\ st # "done") =>
                 commit'[d][q][st] = commit[d][q][st]
        /\ commit'[n][r]["notify"] = commit[n][r]["notify"] - 1
    BY <1>1, <1>3, CommitMoves
  <2>2. "done" \notin CommitStage
    BY DEF CommitStage
  <2> QED
    BY <1>2, <2>1, <2>2
<1>5. /\ commit[View][r]["notify"] = 1
      /\ roundOf[r] = currentRound[View] - 1
      /\ \A q \in Dispatched : roundOf[q] < currentRound[View]
      /\ r \in Dispatched
  <2>1. commit[View][r]["notify"] = 1 /\ prePrepare[View][r] = "done"
    BY <1>1, <1>2, <1>3, CommitIsAlone
  <2> QED
    BY <1>1, <1>2, <2>1 DEF RoundInv, DispatchWaits, Dispatched
<1>6. \A q \in Request : commit'[View][q]["notify"] = 0
  <2>1. ASSUME NEW q \in Request, commit[View][q]["notify"] > 0
        PROVE  q = r
    <3>1. prePrepare[View][q] = "done"
      BY <1>1, <1>3, <2>1, CommitIsAlone
    <3>2. roundOf[q] = currentRound[View] - 1 /\ q \in Dispatched
      BY <2>1, <3>1 DEF RoundInv, DispatchWaits, Dispatched
    <3> QED
      BY <1>5, <3>2 DEF RoundInv, PastRoundsFinished
  <2> QED
    <3>1. \A q \in Request : commit[View][q]["notify"] \in Nat
      BY <1>1, <1>3, RoundTypes
    <3>2. \A q \in Request : q # r => commit[View][q]["notify"] = 0
      BY <2>1, <3>1
    <3> QED
      BY <1>1, <1>3, <1>4, <1>5, <3>2
<1>7. OneInFlight'
  BY <1>1, <1>3, CommitStepPending, InFlightKept DEF RoundInv
<1>8. OnlyViewEndsRounds'
  BY <1>4, <1>6, Stages DEF RoundInv, OnlyViewEndsRounds
<1>9. PastRoundsFinished'
  <2>1. \A q \in Request : Finished(q) => Finished(q)'
    BY <1>1, <1>4 DEF Finished
  <2> QED
    BY <1>1, <2>1 DEF RoundInv, PastRoundsFinished, Dispatched
<1>10. DispatchWaits'
  BY <1>1, <1>5, <1>6 DEF DispatchWaits, Dispatched
<1>11. OnePerRound'
  <2>1. \A q \in Request : Storing(q)' = Storing(q)
    BY <1>1, <1>4, StageMembers DEF Storing
  <2> QED
    BY <1>1, <2>1 DEF RoundInv, OnePerRound
<1>12. CommitAfterStateUpdate' /\ RoundsInOrder'
  BY <1>1 DEF RoundInv, CommitAfterStateUpdate, RoundsInOrder
<1> QED
  BY <1>7, <1>8, <1>9, <1>10, <1>11, <1>12 DEF RoundInv, OneBackup
\* What depends on the Commit stages after execution only.
LEMMA RestKept ==
    ASSUME RoundInv, IndInv', UNCHANGED <<roundOf, currentRound, runPc, executed>>,
           Dispatched' = Dispatched,
           \A d \in Node, q \in Request, st \in {"store", "round", "notify"} :
              commit'[d][q][st] = commit[d][q][st],
           \A d \in Node, q \in Request :
              prePrepare[d][q] = "done" => prePrepare'[d][q] = "done",
           \A q \in Request : Finished(q) => Finished(q)',
           OneInFlight'
    PROVE  RoundInv'
<1>1. View \in Node
  BY RoundTypes
<1>2. OnlyViewEndsRounds' /\ OnePerRound' /\ DispatchWaits'
  BY <1>1 DEF RoundInv, OnlyViewEndsRounds, OnePerRound, Storing, DispatchWaits
<1>3. PastRoundsFinished'
  BY DEF RoundInv, PastRoundsFinished, Dispatched
<1>4. CommitAfterStateUpdate'
  <2> SUFFICES ASSUME NEW d \in Node, NEW i \in 1..Len(executed[d])
               PROVE  prePrepare'[d][executed[d][i]] = "done"
    BY DEF CommitAfterStateUpdate
  <2>1. executed[d][i] \in Request
    BY RoundTypes
  <2> QED
    BY <2>1 DEF RoundInv, CommitAfterStateUpdate
<1>5. RoundsInOrder'
  BY DEF RoundInv, RoundsInOrder
<1> QED
  BY <1>2, <1>3, <1>4, <1>5 DEF RoundInv, OneBackup

\* Steps of handlePrepare before the broadcast.
LEMMA PrepareMoveKeeps ==
    ASSUME RoundInv, IndInv', NEW n \in Node, NEW r \in Request,
           NEW from \in PrepareStage, NEW to \in PrepareStage \cup {"done"},
           PrepareStep(n, r, from, to),
           UNCHANGED <<prePrepare, commit, roundOf, currentRound, runPc, executed>>
    PROVE  RoundInv'
<1>1. TypeOK /\ TypeOK' /\ View \in Node
  BY RoundTypes DEF IndInv
<1>2. \A d, p \in Node, q \in Request : Pending(d, p, q)' <= Pending(d, p, q)
  <2> SUFFICES ASSUME NEW d \in Node, NEW p \in Node, NEW q \in Request
               PROVE  Pending(d, p, q)' <= Pending(d, p, q)
    OBVIOUS
  <2>1. Preparing(p, q)' \in Nat /\ Preparing(p, q)' <= Preparing(p, q)
    BY <1>1, PrepareStepPreparing
  <2>2. /\ Committing(d, q)' = Committing(d, q)
        /\ Executing(d, q)' = Executing(d, q)
        /\ Closing(d, q)' = Closing(d, q)
    BY DEF Committing, Executing, Closing
  <2>3. /\ Preparing(p, q) \in Nat /\ Committing(d, q) \in Nat
        /\ Executing(d, q) \in Nat /\ Closing(d, q) \in Nat
    BY <1>1, PreparingSum, CommittingSum
  <2> QED
    BY <2>1, <2>2, <2>3 DEF Pending
<1>3. OneInFlight'
  BY <1>1, <1>2, InFlightKept DEF RoundInv
<1>4. ASSUME NEW q \in Request, Finished(q)
      PROVE  Finished(q)'
  <2>1. prepare[n][r][from] > 0
    BY DEF PrepareStep
  <2>2. \A p \in Node \ {View}, st \in PrepareStage : prepare'[p][q][st] = 0
    <3> SUFFICES ASSUME NEW p \in Node \ {View}, NEW st \in PrepareStage
                 PROVE  prepare'[p][q][st] = 0
      OBVIOUS
    <3>1. ~(p = n /\ q = r)
      BY <1>4, <2>1 DEF Finished
    <3>2. prepare'[p][q][st] = prepare[p][q][st]
      BY <1>1, <3>1, PrepareStepType
    <3> QED
      BY <1>4, <3>2 DEF Finished
  <2> QED
    BY <1>4, <2>2 DEF Finished
<1> QED
  BY <1>3, <1>4, RestKept DEF Dispatched

\* The broadcast of a Commit moves a handler from the other node to the lane's
\* own one.
LEMMA BroadcastKeeps ==
    ASSUME RoundInv, IndInv', NEW n \in Node, NEW r \in Request,
           PrepareBroadcast(n, r)
    PROVE  RoundInv'
<1>1. /\ TypeOK /\ TypeOK' /\ View \in Node
      /\ PrepareStep(n, r, "bcast", "done") /\ prepare[n][r]["bcast"] > 0
      /\ commit' = Deliver(commit, n, r)
      /\ UNCHANGED <<prePrepare, roundOf, currentRound, runPc, executed>>
  BY RoundTypes DEF IndInv, PrepareBroadcast, PrepareStep, runVars, addonVars
<1>2. \A d \in Node, q \in Request, st \in CommitStage :
         commit'[d][q][st] = IF d \in Live \ {n} /\ q = r /\ st = "net"
                             THEN commit[d][q][st] + 1 ELSE commit[d][q][st]
  <2>1. commit \in [Node -> [Request -> [CommitStage -> Nat]]]
    BY <1>1 DEF TypeOK
  <2> QED
    <3>1. \A d \in Node, q \in Request, st \in CommitStage :
             Deliver(commit, n, r)[d][q][st] =
                IF d \in Live \ {n} /\ q = r /\ st = "net"
                THEN commit[d][q][st] + 1 ELSE commit[d][q][st]
      BY <2>1, DeliverType, StageMembers
    <3> QED
      BY <1>1, <3>1
<1>3. \A p \in Node, q \in Request, st \in PrepareStage :
         ~(p = n /\ q = r) => prepare'[p][q][st] = prepare[p][q][st]
  BY <1>1, PrepareStepType, StageMembers
<1>4. ASSUME NEW d \in Node, NEW p \in Node, NEW q \in Request, d # p
      PROVE  Pending(d, p, q)' <= Pending(d, p, q)
  <2>1. /\ Preparing(p, q) \in Nat /\ Committing(d, q) \in Nat
        /\ Executing(d, q) \in Nat /\ Closing(d, q) \in Nat
    BY <1>1, PreparingSum, CommittingSum
  <2>2. Executing(d, q)' = Executing(d, q) /\ Closing(d, q)' = Closing(d, q)
    BY <1>2, StageMembers DEF Executing, Closing
  <2>3. CASE p = n /\ q = r
    <3>1. Preparing(p, q)' = Preparing(p, q) - 1
      BY <1>1, <2>3, PrepareStepPreparing, StageMembers
    <3>2. \A st \in CommitStage : commit[d][q][st] \in Nat
      BY RoundTypes
    <3>3. Committing(d, q)' \in {Committing(d, q), Committing(d, q) + 1}
      BY <1>2, <3>2, StageMembers DEF Committing
    <3> QED
      BY <2>1, <2>2, <3>1, <3>3 DEF Pending
  <2>4. CASE ~(p = n /\ q = r)
    <3>1. Preparing(p, q)' = Preparing(p, q)
      BY <1>3, <2>4, StageMembers DEF Preparing
    <3>2. ~(q = r /\ d # n)
      BY <1>4, <2>4, TwoNodes DEF RoundInv
    <3>3. Committing(d, q)' = Committing(d, q)
      BY <1>2, <3>2, StageMembers DEF Committing
    <3> QED
      BY <2>1, <2>2, <3>1, <3>3 DEF Pending
  <2> QED
    BY <2>3, <2>4
<1>5. OneInFlight'
  BY <1>1, <1>4, InFlightKept DEF RoundInv
<1>6. ASSUME NEW q \in Request, Finished(q)
      PROVE  Finished(q)'
  <2>1. ~(q = r /\ n # View)
    BY <1>1, <1>6, StageMembers DEF Finished
  <2>2. \A st \in CommitStage : commit'[View][q][st] = commit[View][q][st]
    BY <1>1, <1>2, <2>1
  <2>3. \A p \in Node \ {View}, st \in PrepareStage :
           prepare'[p][q][st] = prepare[p][q][st]
    BY <1>3, <2>1
  <2> QED
    BY <1>1, <1>6, <2>2, <2>3 DEF Finished
<1>7. \A d \in Node, q \in Request, st \in {"store", "round", "notify"} :
         commit'[d][q][st] = commit[d][q][st]
  BY <1>2, StageMembers
<1> QED
  BY <1>1, <1>5, <1>6, <1>7, RestKept DEF Dispatched

\* A node accepts a request: its Prepare is the first of its lane.
LEMMA AcceptKeeps ==
    ASSUME RoundInv, IndInv', NEW n \in Node, NEW r \in Request,
           prePrepare[n][r] \in {"net", "exec"},
           prePrepare' = [prePrepare EXCEPT ![n][r] = "done"],
           prepare' = Deliver(prepare, n, r),
           UNCHANGED <<commit, roundOf, currentRound, runPc, executed>>
    PROVE  RoundInv'
<1>1. /\ TypeOK /\ TypeOK' /\ View \in Node
      /\ prePrepare \in [Node -> [Request -> PrePrepareStage]]
  BY RoundTypes DEF IndInv, TypeOK
<1>2. \A d \in Node, q \in Request, st \in PrepareStage :
         prepare'[d][q][st] = IF d \in Live \ {n} /\ q = r /\ st = "net"
                              THEN prepare[d][q][st] + 1 ELSE prepare[d][q][st]
  <2>1. prepare \in [Node -> [Request -> [PrepareStage -> Nat]]]
    BY <1>1 DEF TypeOK
  <2> QED
    BY <2>1, DeliverType, StageMembers
<1>3. \A d \in Node, q \in Request :
         prePrepare'[d][q] = IF d = n /\ q = r THEN "done" ELSE prePrepare[d][q]
  BY <1>1
<1>4. OneInFlight'
  <2> SUFFICES ASSUME NEW d \in Node, NEW p \in Node, NEW q \in Request, d # p
               PROVE  Pending(d, p, q)'
                         <= IF prePrepare'[d][q] = "done" THEN 1 ELSE 0
    BY DEF OneInFlight
  <2>1. /\ Preparing(p, q) \in Nat /\ Committing(d, q) \in Nat
        /\ Executing(d, q) \in Nat /\ Closing(d, q) \in Nat
    BY <1>1, PreparingSum, CommittingSum
  <2>2. /\ Committing(d, q)' = Committing(d, q)
        /\ Executing(d, q)' = Executing(d, q)
        /\ Closing(d, q)' = Closing(d, q)
    BY DEF Committing, Executing, Closing
  <2>3. Pending(d, p, q) <= IF prePrepare[d][q] = "done" THEN 1 ELSE 0
    BY DEF RoundInv, OneInFlight
  <2>4. CASE d = n /\ q = r
    <3>1. Preparing(p, q)' \in {Preparing(p, q), Preparing(p, q) + 1}
      <4>1. \A st \in PrepareStage : prepare[p][q][st] \in Nat
        BY <1>1, PreparingSum
      <4> QED
        BY <1>2, <4>1, StageMembers DEF Preparing
    <3>2. prePrepare[d][q] # "done" /\ prePrepare'[d][q] = "done"
      BY <1>3, <2>4
    <3> QED
      BY <2>1, <2>2, <2>3, <3>1, <3>2 DEF Pending
  <2>5. CASE ~(d = n /\ q = r)
    <3>1. ~(q = r /\ p # n)
      BY <2>5, TwoNodes DEF RoundInv
    <3>2. Preparing(p, q)' = Preparing(p, q)
      BY <1>2, <3>1, StageMembers DEF Preparing
    <3>3. prePrepare'[d][q] = prePrepare[d][q]
      BY <1>3, <2>5
    <3> QED
      BY <2>1, <2>2, <2>3, <3>2, <3>3 DEF Pending
  <2> QED
    BY <2>4, <2>5
<1>5. ASSUME NEW q \in Request, Finished(q)
      PROVE  Finished(q)'
  <2>1. ~(q = r /\ n = View)
    BY <1>5 DEF Finished
  <2>2. \A p \in Node \ {View}, st \in PrepareStage :
           prepare'[p][q][st] = prepare[p][q][st]
    BY <1>1, <1>2, <2>1, TwoNodes DEF RoundInv
  <2> QED
    BY <1>1, <1>3, <1>5, <2>2 DEF Finished
<1>6. Dispatched' = Dispatched
  BY <1>1, <1>3 DEF Dispatched
<1> QED
  BY <1>3, <1>4, <1>5, <1>6, RestKept

\* The PrePrepare is dropped, or the request waits to be executed.
LEMMA HoldKeeps ==
    ASSUME RoundInv, IndInv', NEW n \in Node, NEW r \in Request,
           NEW to \in {"dropped", "exec"},
           prePrepare[n][r] = "net",
           prePrepare' = [prePrepare EXCEPT ![n][r] = to],
           UNCHANGED <<prepare, commit, roundOf, currentRound, runPc, executed>>
    PROVE  RoundInv'
<1>1. /\ TypeOK /\ TypeOK' /\ View \in Node
      /\ prePrepare \in [Node -> [Request -> PrePrepareStage]]
  BY RoundTypes DEF IndInv, TypeOK
<1>2. \A d \in Node, q \in Request :
         prePrepare'[d][q] = IF d = n /\ q = r THEN to ELSE prePrepare[d][q]
  BY <1>1
<1>3. /\ \A d \in Node, q \in Request :
            prePrepare[d][q] = "done" <=> prePrepare'[d][q] = "done"
      /\ Dispatched' = Dispatched
  BY <1>1, <1>2 DEF Dispatched
<1>4. \A d, p \in Node, q \in Request : Pending(d, p, q)' = Pending(d, p, q)
  BY DEF Pending, Preparing, Committing, Executing, Closing
<1>5. OneInFlight'
  BY <1>3, <1>4 DEF RoundInv, OneInFlight
<1>6. \A q \in Request : Finished(q) => Finished(q)'
  BY <1>1, <1>3 DEF Finished
<1> QED
  BY <1>3, <1>5, <1>6, RestKept

\* Run dispatches a request in a round of its own.
LEMMA DispatchKeeps ==
    ASSUME RoundInv, IndInv', RunDispatch
    PROVE  RoundInv'
<1> DEFINE r == Head(requestQueue)
<1>1. /\ TypeOK /\ TypeOK' /\ View \in Node /\ View \in Live
      /\ requestQueue \in Seq(Request) /\ requestQueue # <<>>
      /\ currentRound[View] \in Nat /\ roundOf \in [Request -> Nat]
      /\ executed \in [Node -> Seq(Request)]
      /\ prePrepare \in [Node -> [Request -> PrePrepareStage]]
      /\ UNCHANGED <<prepare, commit, currentRound, executed>>
      /\ runPc = "loop" /\ runPc' = "sent"
      /\ roundOf' = [roundOf EXCEPT ![r] = currentRound[View]]
      /\ prePrepare' = [n \in Node |-> [prePrepare[n] EXCEPT
                            ![r] = IF n \in Live THEN "net" ELSE @]]
  BY RoundTypes, NodeAssumption DEF IndInv, RunDispatch, addonVars, TypeOK, Live
<1>2. r = requestQueue[1] /\ r \in Request /\ 1 \in 1..Len(requestQueue)
  BY <1>1
<1> HIDE DEF r
<1>3. r \notin Dispatched
  BY <1>2 DEF RoundInv, IndInv, QueueIsFresh
<1>4. \A d \in Node, q \in Request : prePrepare'[d][q] =
         IF q = r /\ d \in Live THEN "net" ELSE prePrepare[d][q]
  BY <1>1, <1>2
<1>5. \A q \in Request : roundOf'[q] =
         IF q = r THEN currentRound[View] ELSE roundOf[q]
  BY <1>1, <1>2
<1>6. Dispatched' = Dispatched \cup {r}
  BY <1>1, <1>2, <1>4 DEF Dispatched
<1>7. \A d \in Node : /\ prePrepare[d][r] = "unsent"
                      /\ \A st \in PrepareStage : prepare[d][r][st] = 0
                      /\ \A st \in CommitStage : commit[d][r][st] = 0
  BY <1>2, <1>3 DEF RoundInv, IndInv, UndispatchedIsUntouched
<1>8. \A q \in Dispatched : q # r /\ roundOf[q] < currentRound[View]
  BY <1>1, <1>3 DEF RoundInv, DispatchWaits
<1>9. OneInFlight'
  <2> SUFFICES ASSUME NEW d \in Node, NEW p \in Node, NEW q \in Request, d # p
               PROVE  Pending(d, p, q)'
                         <= IF prePrepare'[d][q] = "done" THEN 1 ELSE 0
    BY DEF OneInFlight
  <2>1. Pending(d, p, q)' = Pending(d, p, q)
    BY <1>1 DEF Pending, Preparing, Committing, Executing, Closing
  <2>2. CASE q = r
    <3>1. /\ Preparing(p, q) = 0 /\ Committing(d, q) = 0
          /\ Executing(d, q) = 0 /\ Closing(d, q) = 0
      BY <1>7, <2>2, StageMembers DEF Preparing, Committing, Executing, Closing
    <3> QED
      BY <2>1, <3>1 DEF Pending
  <2>3. CASE q # r
    BY <1>4, <2>1, <2>3 DEF RoundInv, OneInFlight
  <2> QED
    BY <2>2, <2>3
<1>10. PastRoundsFinished'
  <2>1. \A q \in Request : q # r /\ Finished(q) => Finished(q)'
    BY <1>1, <1>4 DEF Finished
  <2>2. \A q \in Dispatched : q \in Request /\ roundOf[q] \in Nat
    BY <1>1 DEF Dispatched
  <2>3. \A q \in Dispatched : /\ roundOf'[q] = roundOf[q]
                              /\ roundOf'[q] <= currentRound'[View]
                              /\ Finished(q)'
    BY <1>1, <1>5, <1>8, <2>1, <2>2 DEF RoundInv, PastRoundsFinished
  <2>4. roundOf'[r] = currentRound'[View]
    BY <1>1, <1>2, <1>5
  <2>5. \A q, s \in Dispatched' : roundOf'[q] = roundOf'[s] => q = s
    BY <1>1, <1>6, <1>8, <2>2, <2>3, <2>4 DEF RoundInv, PastRoundsFinished
  <2> QED
    BY <1>1, <1>6, <2>3, <2>4, <2>5 DEF PastRoundsFinished
<1>11. DispatchWaits' /\ OnlyViewEndsRounds' /\ OnePerRound'
  BY <1>1 DEF RoundInv, DispatchWaits, OnlyViewEndsRounds, OnePerRound, Storing
<1>12. \A d \in Node : \A i \in 1..Len(executed[d]) :
          /\ executed[d][i] \in Request /\ executed[d][i] # r
          /\ prePrepare[d][executed[d][i]] = "done"
  BY <1>1, <1>7 DEF RoundInv, CommitAfterStateUpdate
<1>13. CommitAfterStateUpdate'
  BY <1>1, <1>4, <1>12 DEF CommitAfterStateUpdate
<1>14. RoundsInOrder'
  BY <1>1, <1>5, <1>12 DEF RoundInv, RoundsInOrder
<1> QED
  BY <1>9, <1>10, <1>11, <1>13, <1>14 DEF RoundInv, OneBackup

\* The steps of the proposer, and of Run without a request.
LEMMA OutsideKeeps ==
    ASSUME RoundInv, IndInv',
           UNCHANGED <<prePrepare, prepare, commit, roundOf, currentRound, executed>>,
           runPc' = runPc \/ runPc' # "loop"
    PROVE  RoundInv'
<1>1. OneInFlight'
  BY DEF RoundInv, OneInFlight, Pending, Preparing, Committing, Executing, Closing
<1>2. PastRoundsFinished'
  BY DEF RoundInv, PastRoundsFinished, Finished, Dispatched
<1>3. OnlyViewEndsRounds' /\ OnePerRound' /\ CommitAfterStateUpdate' /\ RoundsInOrder'
  BY DEF RoundInv, OnlyViewEndsRounds, OnePerRound, Storing,
     CommitAfterStateUpdate, RoundsInOrder
<1>4. DispatchWaits'
  BY DEF RoundInv, DispatchWaits, Dispatched
<1> QED
  BY <1>1, <1>2, <1>3, <1>4 DEF RoundInv, OneBackup

LEMMA RoundInit == OneBackup /\ Init => RoundInv
<1> SUFFICES ASSUME OneBackup, Init PROVE RoundInv
  OBVIOUS
<1>1. IndInv /\ View \in Node
  BY IndInit, NodeAssumption
<1>2. /\ \A n \in Node, r \in Request :
            /\ prePrepare[n][r] = "unsent"
            /\ \A st \in PrepareStage : prepare[n][r][st] = 0
            /\ \A st \in CommitStage : commit[n][r][st] = 0
      /\ \A n \in Node : executed[n] = <<>> /\ currentRound[n] = 0
  BY DEF Init
<1>3. OneInFlight
  <2> SUFFICES ASSUME NEW n \in Node, NEW p \in Node, NEW r \in Request
               PROVE  Pending(n, p, r) <= IF prePrepare[n][r] = "done" THEN 1 ELSE 0
    BY DEF OneInFlight
  <2>1. /\ Preparing(p, r) = 0 /\ Committing(n, r) = 0
        /\ Executing(n, r) = 0 /\ Closing(n, r) = 0
    BY <1>2, StageMembers DEF Preparing, Committing, Executing, Closing
  <2> QED
    BY <2>1 DEF Pending
<1>4. Dispatched = {}
  BY <1>1, <1>2 DEF Dispatched
<1>5. OnlyViewEndsRounds /\ PastRoundsFinished /\ DispatchWaits
  BY <1>1, <1>2, <1>4, StageMembers
     DEF OnlyViewEndsRounds, PastRoundsFinished, DispatchWaits
<1>6. OnePerRound
  <2>1. \A r \in Request : Storing(r) = 0
    BY <1>1, <1>2, StageMembers DEF Storing
  <2> QED
    BY <1>1, <1>2, <2>1 DEF OnePerRound
<1>7. CommitAfterStateUpdate /\ RoundsInOrder
  BY <1>1, <1>2 DEF CommitAfterStateUpdate, RoundsInOrder
<1> QED
  BY <1>1, <1>3, <1>5, <1>6, <1>7 DEF RoundInv

LEMMA RoundNext == RoundInv /\ [Next]_vars => RoundInv'
<1> SUFFICES ASSUME RoundInv, [Next]_vars PROVE RoundInv'
  OBVIOUS
<1> USE DEF proposeVars, runVars, addonVars
<1>0. IndInv'
  BY IndNext DEF RoundInv
<1>1. CASE ProposeRead
  BY <1>0, <1>1, OutsideKeeps DEF ProposeRead
<1>2. ASSUME NEW r \in Request, ProposeEnqueue(r) PROVE RoundInv'
  BY <1>0, <1>2, OutsideKeeps DEF ProposeEnqueue
<1>3. CASE RunDispatch
  BY <1>0, <1>3, DispatchKeeps
<1>4. CASE RunWait \/ RunStop
  BY <1>0, <1>4, OutsideKeeps DEF RunWait, RunStop
<1>5. ASSUME NEW n \in Node, NEW r \in Request, HandlePrePrepare(n, r)
      PROVE  RoundInv'
  <2>1. CASE prePrepare' = [prePrepare EXCEPT ![n][r] = "dropped"] /\ UNCHANGED prepare
    BY <1>0, <1>5, <2>1, HoldKeeps DEF HandlePrePrepare
  <2>2. CASE prePrepare' = [prePrepare EXCEPT ![n][r] = "exec"] /\ UNCHANGED prepare
    BY <1>0, <1>5, <2>2, HoldKeeps DEF HandlePrePrepare
  <2>3. CASE /\ prePrepare' = [prePrepare EXCEPT ![n][r] = "done"]
             /\ prepare' = Deliver(prepare, n, r)
    BY <1>0, <1>5, <2>3, AcceptKeeps DEF HandlePrePrepare
  <2> QED
    BY <1>5, <2>1, <2>2, <2>3 DEF HandlePrePrepare
<1>6. ASSUME NEW n \in Node, NEW r \in Request, ExecPrePrepare(n, r)
      PROVE  RoundInv'
  BY <1>0, <1>6, AcceptKeeps DEF ExecPrePrepare
<1>7. ASSUME NEW n \in Node, NEW r \in Request, PrepareHandler(n, r)
      PROVE  RoundInv'
  <2>1. CASE HandlePrepare(n, r)
    <3>1. PICK to \in {"wait", "count", "done"} : PrepareStep(n, r, "net", to)
      BY <2>1 DEF HandlePrepare, AfterPrepareAddon
    <3> QED
      BY <1>0, <2>1, <3>1, PrepareMoveKeeps, StageMembers DEF HandlePrepare
  <2>2. CASE PrepareWait(n, r)
    <3>1. PICK to \in {"wait", "count", "done"} : PrepareStep(n, r, "wait", to)
      BY <2>2 DEF PrepareWait, AfterPrepareAddon
    <3> QED
      BY <1>0, <2>2, <3>1, PrepareMoveKeeps, StageMembers DEF PrepareWait
  <2>3. CASE PrepareCount(n, r)
    <3>1. PICK to \in {"bcast", "done"} : PrepareStep(n, r, "count", to)
      BY <2>3 DEF PrepareCount
    <3> QED
      BY <1>0, <2>3, <3>1, PrepareMoveKeeps, StageMembers DEF PrepareCount
  <2> QED
    BY <1>0, <1>7, <2>1, <2>2, <2>3, BroadcastKeeps DEF PrepareHandler
<1>8. ASSUME NEW n \in Node, NEW r \in Request, CommitHandler(n, r)
      PROVE  RoundInv'
  <2>1. CASE HandleCommit(n, r)
    <3>1. PICK to \in {"count", "done"} : CommitStep(n, r, "net", to)
      BY <2>1 DEF HandleCommit
    <3> QED
      BY <1>0, <2>1, <3>1, QuietCommitKeeps DEF HandleCommit
  <2>2. CASE CommitCount(n, r)
    <3>1. PICK to \in {"reply", "done"} : CommitStep(n, r, "count", to)
      BY <2>2 DEF CommitCount
    <3> QED
      BY <1>0, <2>2, <3>1, QuietCommitKeeps DEF CommitCount
  <2>3. CASE CommitReply(n, r)
    <3>1. CASE TBD
      BY <1>0, <2>3, <3>1, QuietCommitKeeps DEF CommitReply
    <3>2. CASE ~TBD
      <4>1. /\ CommitStep(n, r, "reply", AfterCommitAddon(n))
            /\ executed' = [executed EXCEPT ![n] = Append(@, r)]
        BY <2>3, <3>2 DEF CommitReply
      <4>2. /\ AfterCommitAddon(n) \in {"store", "round", "done"}
            /\ n = View => AfterCommitAddon(n) # "done"
            /\ n # View => AfterCommitAddon(n) # "round"
        BY DEF AfterCommitAddon
      <4> QED
        BY <1>0, <2>3, <4>1, <4>2, ExecutionKeeps DEF CommitReply
    <3> QED
      BY <3>1, <3>2
  <2>4. CASE CommitAddon(n, r)
    BY <1>0, <2>4, QuietCommitKeeps DEF CommitAddon
  <2>5. CASE CommitBlock(n, r)
    BY <1>0, <2>5, ExecutionKeeps DEF CommitBlock
  <2> QED
    BY <1>0, <1>8, <2>1, <2>2, <2>3, <2>4, <2>5, StoredKeeps, RoundEndKeeps,
       NotifyKeeps DEF CommitHandler
<1>9. CASE UNCHANGED vars
  BY <1>0, <1>9, OutsideKeeps DEF vars
<1> QED
  BY <1>1, <1>2, <1>3, <1>4, <1>5, <1>6, <1>7, <1>8, <1>9 DEF Next, SystemStep

\* With one backup the view node executes its requests one per round and in
\* the order in which it dispatched them, however the handlers interleave.
THEOREM RoundsAreInOrder == OneBackup /\ Spec => []RoundsInOrder
<1>1. RoundInv => RoundsInOrder
  BY DEF RoundInv
<1> QED
  BY <1>1, RoundInit, RoundNext, PTL DEF Spec

\* With one backup a node commits only blocks whose state update it has done,
\* although stateUpdateDone does not say which block it belongs to.
THEOREM CommitsFollowExecution == OneBackup /\ Spec => []CommitAfterStateUpdate
<1>1. RoundInv => CommitAfterStateUpdate
  BY DEF RoundInv
<1> QED
  BY <1>1, RoundInit, RoundNext, PTL DEF Spec
-----------------------------------------------------------------------------
(* The chain.                                                              *)

LEMMA ChainTypes ==
    ASSUME TypeOK
    PROVE  /\ View \in Node /\ executed[View] \in Seq(Request)
           /\ Len(executed[View]) \in Nat
           /\ block \in [Request -> [prev : Request \cup {Genesis}, height : Nat]]
           /\ \A r \in Request : block[r].height \in Nat
           /\ \A b \in Request \cup {Genesis} : Height(b) \in Nat
           /\ CurrentBlock(View) \in Request \cup {Genesis}
<1>1. View \in Node
  BY NodeAssumption
<1>2. \A r \in Request : block[r].height \in Nat
  BY DEF TypeOK
<1>3. CurrentBlock(View) \in Request \cup {Genesis}
  BY <1>1, CurrentBlockType
<1>4. \A b \in Request \cup {Genesis} : Height(b) \in Nat
  BY <1>2 DEF Height
<1> QED
  BY <1>1, <1>2, <1>3, <1>4 DEF TypeOK

\* Blocks the view node has executed have been dispatched, hence proposed.
LEMMA ExecutedIsProposed ==
    ASSUME RoundInv, NEW i \in 1..Len(executed[View])
    PROVE  /\ executed[View][i] \in Request
           /\ executed[View][i] \in Dispatched
           /\ executed[View][i] \in Proposed
<1>1. View \in Node /\ executed[View][i] \in Request
  BY RoundTypes
<1>2. prePrepare[View][executed[View][i]] = "done"
  BY <1>1 DEF RoundInv, CommitAfterStateUpdate
<1> QED
  BY <1>1, <1>2 DEF Dispatched, RoundInv, IndInv, QueueIsFresh

\* Steps that touch neither the blocks nor the chain nor the order of rounds.
LEMMA ChainUntouched ==
    ASSUME ChainInv, UNCHANGED <<block, draft, requestQueue, roundOf>>,
           executed'[View] = executed[View], Dispatched' = Dispatched
    PROVE  ChainInv'
<1>1. CurrentBlock(View)' = CurrentBlock(View)
  BY DEF CurrentBlock
<1>2. \A b : Height(b)' = Height(b)
  BY DEF Height
<1>3. Height(CurrentBlock(View))' = Height(CurrentBlock(View))
  BY <1>1 DEF Height
<1>4. Proposed' = Proposed
  BY DEF Proposed
<1>5. HeightsRise' /\ ChainNotHigherThanLong'
  BY <1>3, <1>4 DEF ChainInv, HeightsRise, ChainNotHigherThanLong
<1>6. DraftOnChain'
  BY <1>2, <1>3 DEF ChainInv, DraftOnChain, Height
<1>7. BlocksBuildOnChain'
  BY <1>2, <1>4 DEF ChainInv, BlocksBuildOnChain, Height
<1> QED
  BY <1>5, <1>6, <1>7 DEF ChainInv

\* The view node puts the request of the round at the end of its chain.
LEMMA ChainGrows ==
    ASSUME RoundInv, ChainInv, NEW r \in Request,
           NEW st \in {"reply", "commit"}, commit[View][r][st] > 0,
           executed' = [executed EXCEPT ![View] = Append(@, r)],
           UNCHANGED <<block, draft, requestQueue, roundOf, prePrepare>>
    PROVE  ChainInv'
<1>1. TypeOK
  BY RoundTypes
<1>2. /\ View \in Node /\ executed[View] \in Seq(Request)
      /\ executed \in [Node -> Seq(Request)]
      /\ Len(executed[View]) \in Nat
      /\ \A q \in Request : block[q].height \in Nat
      /\ \A b \in Request \cup {Genesis} : Height(b) \in Nat
      /\ CurrentBlock(View) \in Request \cup {Genesis}
      /\ roundOf \in [Request -> Nat] /\ currentRound[View] \in Nat
  BY <1>1, ChainTypes, RoundTypes
<1>3. /\ Len(executed'[View]) = Len(executed[View]) + 1
      /\ executed'[View][Len(executed[View]) + 1] = r
      /\ \A i \in 1..Len(executed[View]) : executed'[View][i] = executed[View][i]
  BY <1>2
<1>4. r \in Dispatched /\ roundOf[r] = currentRound[View]
  BY StageMembers, CommitIsOfCurrentRound
<1>5. r \in Proposed /\ r # Genesis /\ block[r].height = Height(r)
  BY <1>4, ValueAssumption DEF RoundInv, IndInv, QueueIsFresh, Height
<1>6. \A b : Height(b)' = Height(b)
  BY DEF Height
<1>7. Proposed' = Proposed /\ Dispatched' = Dispatched
  BY DEF Proposed, Dispatched
<1>8. \/ CurrentBlock(View)' = r
      \/ CurrentBlock(View)' = Genesis /\ CurrentBlock(View) = Genesis
  BY <1>2, <1>3 DEF CurrentBlock
<1>9. Height(CurrentBlock(View)) <= Height(r)
  <2>1. CASE CurrentBlock(View) = Genesis
    BY <1>2, <2>1 DEF Height
  <2>2. CASE CurrentBlock(View) # Genesis
    <3> DEFINE i == Len(executed[View])
    <3>1. CurrentBlock(View) = executed[View][i] /\ i \in 1..Len(executed[View])
      BY <1>2, <2>2 DEF CurrentBlock
    <3>2. /\ executed[View][i] \in Dispatched /\ executed[View][i] \in Request
          /\ roundOf[executed[View][i]] <= currentRound[View]
      BY <3>1, ExecutedIsProposed DEF RoundInv, PastRoundsFinished
    <3>3. block[executed[View][i]].height <= block[r].height
      BY <1>4, <3>2 DEF ChainInv, HeightsRise
    <3> QED
      BY <1>5, <2>2, <3>1, <3>3 DEF Height
  <2> QED
    BY <2>1, <2>2
<1>10. /\ Height(CurrentBlock(View))' \in Nat
       /\ Height(CurrentBlock(View)) <= Height(CurrentBlock(View))'
       /\ \/ Height(CurrentBlock(View))' = block[r].height
          \/ Height(CurrentBlock(View))' = 0
  BY <1>2, <1>5, <1>8, <1>9, ValueAssumption DEF Height
<1>11. HeightsRise'
  <2>1. \A q \in Proposed : block[q].height <= Height(CurrentBlock(View))' + 1
    <3> SUFFICES ASSUME NEW q \in Proposed
                 PROVE  block[q].height <= Height(CurrentBlock(View))' + 1
      OBVIOUS
    <3>1. /\ block[q].height \in Nat
          /\ block[q].height <= Height(CurrentBlock(View)) + 1
      BY <1>2 DEF ChainInv, HeightsRise, Proposed
    <3>2. Height(CurrentBlock(View)) \in Nat
      BY <1>2
    <3> QED
      BY <1>10, <3>1, <3>2
  <2> QED
    BY <1>7, <2>1 DEF ChainInv, HeightsRise
<1>12. ChainNotHigherThanLong'
  <2>1. block[r].height <= Len(executed[View]) + 1
    BY <1>5 DEF ChainInv, BlocksBuildOnChain
  <2> QED
    BY <1>2, <1>3, <1>10, <2>1 DEF ChainNotHigherThanLong
<1>13. DraftOnChain'
  <2> SUFFICES ASSUME draft # Nil
               PROVE  /\ \/ draft = Genesis
                         \/ \E i \in 1..Len(executed'[View]) :
                               executed'[View][i] = draft
                      /\ Height(draft)' <= Height(CurrentBlock(View))'
    BY DEF DraftOnChain
  <2>1. draft \in Request \cup {Genesis}
    BY <1>1 DEF TypeOK
  <2>2. \/ draft = Genesis
        \/ \E i \in 1..Len(executed[View]) : executed[View][i] = draft
    BY DEF ChainInv, DraftOnChain
  <2>3. Height(draft) <= Height(CurrentBlock(View)) /\ Height(draft)' = Height(draft)
    BY <1>6 DEF ChainInv, DraftOnChain, Height
  <2>4. Height(draft)' <= Height(CurrentBlock(View))'
    BY <1>2, <1>10, <2>1, <2>3
  <2> QED
    BY <1>2, <1>3, <2>2, <2>4
<1>14. BlocksBuildOnChain'
  <2> SUFFICES ASSUME NEW q \in Proposed
               PROVE  /\ \/ block[q].prev = Genesis
                         \/ \E i \in 1..Len(executed'[View]) :
                               executed'[View][i] = block[q].prev
                      /\ block[q].height > Height(block[q].prev)
                      /\ block[q].height <= Len(executed'[View]) + 1
    BY <1>7 DEF BlocksBuildOnChain, Height
  <2>1. /\ \/ block[q].prev = Genesis
           \/ \E i \in 1..Len(executed[View]) : executed[View][i] = block[q].prev
        /\ block[q].height > Height(block[q].prev)
        /\ block[q].height <= Len(executed[View]) + 1
    BY DEF ChainInv, BlocksBuildOnChain
  <2>2. block[q].height \in Nat
    BY <1>2 DEF Proposed
  <2> QED
    BY <1>2, <1>3, <2>1, <2>2
<1> QED
  BY <1>11, <1>12, <1>13, <1>14 DEF ChainInv

\* NewBlock reads the parent.
LEMMA ChainRead ==
    ASSUME RoundInv, ChainInv, ProposeRead
    PROVE  ChainInv'
<1>1. TypeOK
  BY RoundTypes
<1>2. /\ draft' = CurrentBlock(View)
      /\ UNCHANGED <<block, requestQueue, roundOf, prePrepare, executed>>
  BY DEF ProposeRead, runVars, addonVars
<1>3. /\ executed[View] \in Seq(Request) /\ Len(executed[View]) \in Nat
      /\ Height(CurrentBlock(View)) \in Nat
  BY <1>1, ChainTypes
<1>4. /\ CurrentBlock(View)' = CurrentBlock(View)
      /\ Height(CurrentBlock(View))' = Height(CurrentBlock(View))
      /\ Height(draft)' = Height(CurrentBlock(View))
  BY <1>2 DEF CurrentBlock, Height
<1>5. Proposed' = Proposed /\ Dispatched' = Dispatched
  BY <1>2 DEF Proposed, Dispatched
<1>6. \/ CurrentBlock(View) = Genesis
      \/ \E i \in 1..Len(executed[View]) : executed[View][i] = CurrentBlock(View)
  BY <1>3 DEF CurrentBlock
<1>7. DraftOnChain'
  BY <1>2, <1>3, <1>4, <1>6 DEF DraftOnChain
<1>8. HeightsRise' /\ ChainNotHigherThanLong'
  BY <1>2, <1>4, <1>5 DEF ChainInv, HeightsRise, ChainNotHigherThanLong
<1>9. BlocksBuildOnChain'
  BY <1>2, <1>5 DEF ChainInv, BlocksBuildOnChain, Height
<1> QED
  BY <1>7, <1>8, <1>9 DEF ChainInv

\* NewBlock reads the height and the block is queued.
LEMMA ChainEnqueue ==
    ASSUME RoundInv, ChainInv, NEW r \in Request, ProposeEnqueue(r)
    PROVE  ChainInv'
<1> DEFINE new == Height(CurrentBlock(View)) + 1
<1>1. TypeOK
  BY RoundTypes
<1>2. /\ draft # Nil /\ draft' = Nil /\ r \notin Proposed
      /\ block' = [block EXCEPT ![r] = [prev |-> draft, height |-> new]]
      /\ requestQueue' = Append(requestQueue, r)
      /\ UNCHANGED <<roundOf, prePrepare, executed>>
  BY DEF ProposeEnqueue, addonVars
<1>3. /\ View \in Node
      /\ executed[View] \in Seq(Request) /\ Len(executed[View]) \in Nat
      /\ block \in [Request -> [prev : Request \cup {Genesis}, height : Nat]]
      /\ \A q \in Request : block[q].height \in Nat
      /\ \A b \in Request \cup {Genesis} : Height(b) \in Nat
      /\ CurrentBlock(View) \in Request \cup {Genesis}
      /\ requestQueue \in Seq(Request)
      /\ draft \in Request \cup {Genesis}
      /\ r # Genesis
  BY <1>1, <1>2, ChainTypes, ValueAssumption DEF TypeOK
<1>4. new \in Nat /\ new > 0
  BY <1>3
<1>5. /\ \A q \in Request : q # r => block'[q] = block[q]
      /\ block'[r].prev = draft /\ block'[r].height = new
  BY <1>2, <1>3
<1> HIDE DEF new
<1>6. Proposed' = Proposed \cup {r} /\ Dispatched' = Dispatched
  BY <1>2, <1>4, <1>5 DEF Proposed, Dispatched
<1>7. r \notin Dispatched /\ Dispatched \subseteq Proposed
  BY <1>2 DEF RoundInv, IndInv, QueueIsFresh
<1>8. \A i \in 1..Len(executed[View]) : executed[View][i] # r
  BY <1>2, ExecutedIsProposed
<1>9. \A b \in (Request \cup {Genesis}) \ {r} : Height(b)' = Height(b)
  BY <1>5 DEF Height
<1>10. CurrentBlock(View)' = CurrentBlock(View) /\ CurrentBlock(View) # r
  BY <1>2, <1>3, <1>8 DEF CurrentBlock
<1>11. Height(CurrentBlock(View))' = Height(CurrentBlock(View))
  BY <1>3, <1>5, <1>10 DEF Height
<1>12. /\ \/ draft = Genesis
          \/ \E i \in 1..Len(executed[View]) : executed[View][i] = draft
       /\ Height(draft) <= Height(CurrentBlock(View))
  BY <1>2 DEF ChainInv, DraftOnChain
<1>13. draft # r
  BY <1>3, <1>8, <1>12
<1>14. \A q \in Proposed : q \in Request /\ q # r /\ block[q].height <= new
  BY <1>2 DEF ChainInv, HeightsRise, Proposed, new
<1>15. HeightsRise'
  <2>1. \A q \in Dispatched : block'[q].height = block[q].height
    BY <1>5, <1>7, <1>14
  <2>2. /\ Len(requestQueue') = Len(requestQueue) + 1
        /\ requestQueue'[Len(requestQueue) + 1] = r
        /\ \A i \in 1..Len(requestQueue) : requestQueue'[i] = requestQueue[i]
        /\ Len(requestQueue) \in Nat
    BY <1>2, <1>3
  <2>3. \A i \in 1..Len(requestQueue) :
           /\ requestQueue[i] \in Proposed
           /\ block'[requestQueue[i]].height = block[requestQueue[i]].height
           /\ block[requestQueue[i]].height <= new
    BY <1>5, <1>14 DEF RoundInv, IndInv, QueueIsFresh
  <2>4. \A i \in 1..Len(requestQueue') :
           i = Len(requestQueue) + 1 \/ i \in 1..Len(requestQueue)
    BY <2>2
  <2>5. \A q, s \in Dispatched : roundOf[q] <= roundOf[s] =>
           block'[q].height <= block'[s].height
    BY <2>1 DEF ChainInv, HeightsRise
  <2>6. \A q \in Dispatched, i \in 1..Len(requestQueue') :
           block'[q].height <= block'[requestQueue'[i]].height
    BY <1>5, <1>7, <1>14, <2>1, <2>2, <2>3, <2>4 DEF ChainInv, HeightsRise
  <2>7. \A i, j \in 1..Len(requestQueue') : i <= j =>
           block'[requestQueue'[i]].height <= block'[requestQueue'[j]].height
    <3> SUFFICES ASSUME NEW i \in 1..Len(requestQueue'),
                        NEW j \in 1..Len(requestQueue'), i <= j
                 PROVE  block'[requestQueue'[i]].height
                           <= block'[requestQueue'[j]].height
      OBVIOUS
    <3>1. CASE j \in 1..Len(requestQueue)
      <4>1. i \in 1..Len(requestQueue)
        BY <2>2, <3>1
      <4>2. block[requestQueue[i]].height <= block[requestQueue[j]].height
        BY <3>1, <4>1 DEF ChainInv, HeightsRise
      <4> QED
        BY <2>2, <2>3, <3>1, <4>1, <4>2
    <3>2. CASE j = Len(requestQueue) + 1
      <4>1. requestQueue'[j] = r /\ block'[requestQueue'[j]].height = new
        BY <1>5, <2>2, <3>2
      <4>2. block'[requestQueue'[i]].height <= new
        <5>1. CASE i \in 1..Len(requestQueue)
          BY <2>2, <2>3, <5>1
        <5>2. CASE i = Len(requestQueue) + 1
          BY <1>4, <4>1, <3>2, <5>2
        <5> QED
          BY <2>4, <5>1, <5>2
      <4> QED
        BY <4>1, <4>2
    <3> QED
      BY <2>4, <3>1, <3>2
  <2>8. \A q \in Proposed' : block'[q].height <= Height(CurrentBlock(View))' + 1
    BY <1>4, <1>5, <1>6, <1>11, <1>14 DEF new
  <2> QED
    BY <1>2, <1>6, <2>5, <2>6, <2>7, <2>8 DEF HeightsRise
<1>16. DraftOnChain' /\ ChainNotHigherThanLong'
  BY <1>2, <1>11 DEF ChainInv, DraftOnChain, ChainNotHigherThanLong
<1>17. BlocksBuildOnChain'
  <2> SUFFICES ASSUME NEW q \in Proposed'
               PROVE  /\ \/ block'[q].prev = Genesis
                         \/ \E i \in 1..Len(executed[View]) :
                               executed[View][i] = block'[q].prev
                      /\ block'[q].height > Height(block[q].prev)'
                      /\ block'[q].height <= Len(executed[View]) + 1
    BY <1>2 DEF BlocksBuildOnChain
  <2>1. CASE q = r
    <3>1. Height(block[q].prev)' = Height(draft)
      BY <1>3, <1>5, <1>9, <1>13, <2>1 DEF Height
    <3>2. new > Height(draft)
      BY <1>3, <1>12 DEF new
    <3>3. new <= Len(executed[View]) + 1
      BY <1>3 DEF new, ChainInv, ChainNotHigherThanLong
    <3> QED
      BY <1>5, <1>12, <2>1, <3>1, <3>2, <3>3
  <2>2. CASE q # r
    <3>1. q \in Proposed /\ q \in Request
      BY <1>6, <1>14, <2>2
    <3>2. /\ block'[q] = block[q]
          /\ \/ block[q].prev = Genesis
             \/ \E i \in 1..Len(executed[View]) : executed[View][i] = block[q].prev
          /\ block[q].height > Height(block[q].prev)
          /\ block[q].height <= Len(executed[View]) + 1
      BY <1>5, <2>2, <3>1 DEF ChainInv, BlocksBuildOnChain
    <3>3. block[q].prev # r /\ block[q].prev \in Request \cup {Genesis}
      BY <1>3, <1>8, <3>1, <3>2
    <3>4. Height(block[q].prev)' = Height(block[q].prev)
      BY <1>5, <3>2, <3>3 DEF Height
    <3> QED
      BY <3>2, <3>4
  <2> QED
    BY <2>1, <2>2
<1> QED
  BY <1>15, <1>16, <1>17 DEF ChainInv

\* Run moves the first request of the queue behind those dispatched.
LEMMA ChainDispatch ==
    ASSUME RoundInv, ChainInv, RunDispatch
    PROVE  ChainInv'
<1> DEFINE r == Head(requestQueue)
<1>1. /\ View \in Node /\ View \in Live /\ TypeOK
      /\ requestQueue \in Seq(Request) /\ requestQueue # <<>>
      /\ roundOf \in [Request -> Nat] /\ currentRound[View] \in Nat
      /\ prePrepare \in [Node -> [Request -> PrePrepareStage]]
      /\ runPc = "loop"
      /\ UNCHANGED <<block, draft, executed>>
      /\ requestQueue' = Tail(requestQueue)
      /\ roundOf' = [roundOf EXCEPT ![r] = currentRound[View]]
      /\ prePrepare' = [n \in Node |-> [prePrepare[n] EXCEPT
                            ![r] = IF n \in Live THEN "net" ELSE @]]
  BY RoundTypes, NodeAssumption
     DEF RunDispatch, addonVars, proposeVars, TypeOK, Live
<1>2. r = requestQueue[1] /\ r \in Request /\ 1 \in 1..Len(requestQueue)
  BY <1>1
<1>3. /\ Len(requestQueue') = Len(requestQueue) - 1
      /\ \A i \in 1..Len(requestQueue') : /\ requestQueue'[i] = requestQueue[i + 1]
                                          /\ i + 1 \in 1..Len(requestQueue)
  BY <1>1
<1> HIDE DEF r
<1>4. r \notin Dispatched /\ \A q \in Dispatched : q \in Request
  BY <1>2 DEF RoundInv, IndInv, QueueIsFresh, Dispatched
<1>5. \A d \in Node, q \in Request : prePrepare'[d][q] =
         IF q = r /\ d \in Live THEN "net" ELSE prePrepare[d][q]
  BY <1>1, <1>2
<1>6. Dispatched' = Dispatched \cup {r} /\ Proposed' = Proposed
  BY <1>1, <1>2, <1>5 DEF Dispatched, Proposed
<1>7. \A q \in Dispatched :
         /\ roundOf'[q] = roundOf[q] /\ roundOf'[q] < roundOf'[r]
         /\ block[q].height <= block[r].height
  BY <1>1, <1>2, <1>4 DEF RoundInv, DispatchWaits, ChainInv, HeightsRise
<1>8. CurrentBlock(View)' = CurrentBlock(View)
  BY <1>1 DEF CurrentBlock
<1>9. Height(CurrentBlock(View))' = Height(CurrentBlock(View))
  BY <1>1, <1>8 DEF Height
<1>10. block[r].height \in Nat /\ roundOf'[r] \in Nat
  BY <1>1, <1>2, ChainTypes
<1>11. HeightsRise'
  <2>1. \A q, s \in Dispatched' : roundOf'[q] <= roundOf'[s] =>
           block[q].height <= block[s].height
    <3> SUFFICES ASSUME NEW q \in Dispatched', NEW s \in Dispatched',
                        roundOf'[q] <= roundOf'[s]
                 PROVE  block[q].height <= block[s].height
      OBVIOUS
    <3>1. CASE q = r /\ s = r
      BY <1>10, <3>1
    <3>2. CASE q # r /\ s = r
      BY <1>6, <1>7, <3>2
    <3>3. CASE q = r /\ s # r
      <4>1. s \in Dispatched /\ roundOf'[s] \in Nat
        BY <1>1, <1>4, <1>6, <1>7, <3>3
      <4> QED
        BY <1>7, <1>10, <3>3, <4>1
    <3>4. CASE q # r /\ s # r
      BY <1>6, <1>7, <3>4 DEF ChainInv, HeightsRise
    <3> QED
      BY <3>1, <3>2, <3>3, <3>4
  <2>2. \A q \in Dispatched', i \in 1..Len(requestQueue') :
           block[q].height <= block[requestQueue'[i]].height
    <3> SUFFICES ASSUME NEW q \in Dispatched', NEW i \in 1..Len(requestQueue')
                 PROVE  block[q].height <= block[requestQueue[i + 1]].height
      BY <1>3
    <3>1. CASE q = r
      <4>1. i \in Nat /\ 1 <= i + 1
        BY <1>1, <1>3
      <4> QED
        BY <1>2, <1>3, <3>1, <4>1 DEF ChainInv, HeightsRise
    <3>2. CASE q \in Dispatched
      BY <1>3, <3>2 DEF ChainInv, HeightsRise
    <3> QED
      BY <1>6, <3>1, <3>2
  <2>3. \A i, j \in 1..Len(requestQueue') : i <= j =>
           block[requestQueue'[i]].height <= block[requestQueue'[j]].height
    <3> SUFFICES ASSUME NEW i \in 1..Len(requestQueue'),
                        NEW j \in 1..Len(requestQueue'), i <= j
                 PROVE  block[requestQueue[i + 1]].height
                           <= block[requestQueue[j + 1]].height
      BY <1>3
    <3>1. i + 1 <= j + 1
      BY <1>1, <1>3
    <3> QED
      BY <1>3, <3>1 DEF ChainInv, HeightsRise
  <2> QED
    BY <1>1, <1>6, <1>9, <2>1, <2>2, <2>3 DEF ChainInv, HeightsRise
<1>12. DraftOnChain' /\ ChainNotHigherThanLong'
  BY <1>1, <1>9 DEF ChainInv, DraftOnChain, ChainNotHigherThanLong, Height
<1>13. BlocksBuildOnChain'
  BY <1>1, <1>6 DEF ChainInv, BlocksBuildOnChain, Height
<1> QED
  BY <1>11, <1>12, <1>13 DEF ChainInv

LEMMA ChainInit == OneBackup /\ Init => ChainInv
<1> SUFFICES ASSUME Init PROVE ChainInv
  OBVIOUS
<1>1. View \in Node /\ Genesis \notin Request
  BY NodeAssumption, ValueAssumption
<1>2. executed[View] = <<>> /\ Proposed = {} /\ Dispatched = {} /\ draft = Nil
  BY <1>1 DEF Init, Proposed, Dispatched
<1>3. Height(CurrentBlock(View)) = 0
  BY <1>2 DEF CurrentBlock, Height
<1>4. HeightsRise
  BY <1>2 DEF HeightsRise, Init
<1> QED
  BY <1>2, <1>3, <1>4 DEF ChainInv, DraftOnChain, ChainNotHigherThanLong,
     BlocksBuildOnChain

LEMMA ChainNext == RoundInv /\ ChainInv /\ [Next]_vars => ChainInv'
<1> SUFFICES ASSUME RoundInv, ChainInv, [Next]_vars PROVE ChainInv'
  OBVIOUS
<1> USE DEF proposeVars, runVars, addonVars
<1>0. /\ View \in Node /\ executed \in [Node -> Seq(Request)]
      /\ prePrepare \in [Node -> [Request -> PrePrepareStage]]
  BY RoundTypes DEF TypeOK
<1>1. CASE RunWait \/ RunStop \/ UNCHANGED vars
  BY <1>1, ChainUntouched DEF RunWait, RunStop, vars, Dispatched
<1>2. ASSUME NEW n \in Node, NEW r \in Request,
             HandlePrePrepare(n, r) \/ ExecPrePrepare(n, r)
      PROVE  ChainInv'
  <2>1. /\ prePrepare[n][r] \in {"net", "exec"}
        /\ \E to \in {"dropped", "exec", "done"} :
              prePrepare' = [prePrepare EXCEPT ![n][r] = to]
    BY <1>2 DEF HandlePrePrepare, ExecPrePrepare
  <2>2. \A q \in Request : prePrepare[View][q] # "unsent"
                             <=> prePrepare'[View][q] # "unsent"
    BY <1>0, <2>1
  <2>3. Dispatched' = Dispatched
    BY <2>2 DEF Dispatched
  <2> QED
    BY <1>2, <2>3, ChainUntouched DEF HandlePrePrepare, ExecPrePrepare
<1>3. ASSUME NEW n \in Node, NEW r \in Request, PrepareHandler(n, r)
      PROVE  ChainInv'
  BY <1>3, ChainUntouched DEF PrepareHandler, HandlePrepare, PrepareWait,
     PrepareCount, PrepareBroadcast, Dispatched
<1>4. ASSUME NEW n \in Node, NEW r \in Request, CommitHandler(n, r)
      PROVE  ChainInv'
  <2>1. CASE executed' = executed
    BY <1>4, <2>1, ChainUntouched DEF CommitHandler, HandleCommit, CommitCount,
       CommitReply, CommitAddon, CommitBlock, CommitStored, CommitRound,
       CommitNotify, Dispatched
  <2>2. ASSUME NEW st \in {"reply", "commit"}, NEW to,
               CommitStep(n, r, st, to),
               executed' = [executed EXCEPT ![n] = Append(@, r)],
               UNCHANGED <<block, draft, requestQueue, roundOf, prePrepare>>
        PROVE  ChainInv'
    <3>1. CASE n = View
      BY <2>2, <3>1, ChainGrows DEF CommitStep
    <3>2. CASE n # View
      <4>1. executed'[View] = executed[View]
        BY <1>0, <2>2, <3>2
      <4> QED
        BY <2>2, <4>1, ChainUntouched DEF Dispatched
    <3> QED
      BY <3>1, <3>2
  <2>3. CASE CommitReply(n, r)
    BY <2>1, <2>2, <2>3 DEF CommitReply
  <2>4. CASE CommitBlock(n, r)
    BY <2>2, <2>4 DEF CommitBlock
  <2>5. CASE ~CommitReply(n, r) /\ ~CommitBlock(n, r)
    BY <1>4, <2>1, <2>5 DEF CommitHandler, HandleCommit, CommitCount,
       CommitAddon, CommitStored, CommitRound, CommitNotify
  <2> QED
    BY <2>3, <2>4, <2>5
<1> QED
  BY <1>1, <1>2, <1>3, <1>4, ChainRead, ChainEnqueue, ChainDispatch
     DEF Next, SystemStep

\* With one backup every proposed block has a parent that the view node has
\* committed (or genesis), a height above the parent's and at most one above
\* the length of the chain, although NewBlock reads the chain twice without a
\* lock and blocks wait in the queue while the chain grows.
THEOREM BlocksAreBuiltOnChain == OneBackup /\ Spec => []BlocksBuildOnChain
<1>1. RoundInv /\ ChainInv => BlocksBuildOnChain
  BY DEF ChainInv
<1> QED
  BY <1>1, RoundInit, RoundNext, ChainInit, ChainNext, PTL DEF Spec
-----------------------------------------------------------------------------
(* The end of a round.                                                     *)

\* HandleCommitAddon is called, and hence a request executed, only after
\* setReplySent.
ExecutedIsDecided ==
    /\ \A n \in Node, r \in Request, st \in {"addon", "commit"} :
          commit[n][r][st] > 0 => requestPool[n][r].isReply
    /\ \A n \in Node : \A i \in 1..Len(executed[n]) :
          requestPool[n][executed[n][i]].isReply

LEMMA DecidedInit == Init => ExecutedIsDecided
BY DEF Init, ExecutedIsDecided, CommitStage

LEMMA DecidedNext == IndInv /\ ExecutedIsDecided /\ [Next]_vars => ExecutedIsDecided'
<1> SUFFICES ASSUME IndInv, ExecutedIsDecided, [Next]_vars
             PROVE  ExecutedIsDecided'
  OBVIOUS
<1> USE DEF proposeVars, runVars, addonVars
<1>0. /\ TypeOK /\ executed \in [Node -> Seq(Request)]
      /\ requestPool \in [Node -> [Request -> RequestInfo]]
  BY DEF IndInv, TypeOK
<1>1. \A n \in Node, r \in Request :
         requestPool[n][r].isReply => requestPool'[n][r].isReply
  BY StepGrows DEF Grows
<1>2. CASE UNCHANGED <<commit, executed>>
  BY <1>0, <1>1, <1>2 DEF ExecutedIsDecided
<1>3. ASSUME NEW n \in Node, NEW r \in Request, PrepareBroadcast(n, r)
      PROVE  ExecutedIsDecided'
  <2>1. \A d \in Node, q \in Request, st \in {"addon", "commit"} :
           commit'[d][q][st] = commit[d][q][st]
    <3>1. commit \in [Node -> [Request -> [CommitStage -> Nat]]]
      BY <1>0 DEF TypeOK
    <3>2. \A d \in Node, q \in Request, st \in CommitStage :
             Deliver(commit, n, r)[d][q][st] =
                IF d \in Live \ {n} /\ q = r /\ st = "net"
                THEN commit[d][q][st] + 1 ELSE commit[d][q][st]
      BY <3>1, DeliverType, StageMembers
    <3>3. commit' = Deliver(commit, n, r)
      BY <1>3 DEF PrepareBroadcast
    <3> QED
      BY <3>2, <3>3, StageMembers
  <2>2. executed' = executed
    BY <1>3 DEF PrepareBroadcast
  <2>3. \A d \in Node : \A i \in 1..Len(executed[d]) : executed[d][i] \in Request
    BY <1>0
  <2> QED
    BY <1>1, <2>1, <2>2, <2>3 DEF ExecutedIsDecided
<1>4. ASSUME NEW n \in Node, NEW r \in Request, CommitHandler(n, r)
      PROVE  ExecutedIsDecided'
  \* The stages entered are those of a decided request ...
  <2>1. ASSUME NEW from \in CommitStage, NEW to \in CommitStage \cup {"done"},
               from # to, CommitStep(n, r, from, to),
               to \in {"addon", "commit"} => requestPool'[n][r].isReply
        PROVE  \A d \in Node, q \in Request, st \in {"addon", "commit"} :
                  commit'[d][q][st] > 0 => requestPool'[d][q].isReply
    <3> SUFFICES ASSUME NEW d \in Node, NEW q \in Request,
                        NEW st \in {"addon", "commit"}, commit'[d][q][st] > 0,
                        ~(d = n /\ q = r /\ st = to)
                 PROVE  requestPool[d][q].isReply
      BY <1>1, <2>1
    <3>1. commit[d][q][st] \in Nat /\ commit[n][r][from] \in Nat /\ st \in CommitStage
      BY <1>0, FieldTypes, Stages
    <3>2. commit[d][q][st] > 0
      <4>1. CASE d = n /\ q = r /\ st = from
        BY <1>0, <2>1, <3>1, <4>1, CommitMoves
      <4>2. CASE ~(d = n /\ q = r /\ st = from)
        BY <1>0, <2>1, <3>1, <4>2, CommitMoves
      <4> QED
        BY <4>1, <4>2
    <3> QED
      BY <3>2 DEF ExecutedIsDecided
  \* ... and so are the requests executed.
  <2>2. ASSUME \/ executed' = executed
               \/ /\ executed' = [executed EXCEPT ![n] = Append(@, r)]
                  /\ requestPool'[n][r].isReply
        PROVE  \A d \in Node : \A i \in 1..Len(executed'[d]) :
                  requestPool'[d][executed'[d][i]].isReply
    <3>1. \A d \in Node : \A i \in 1..Len(executed[d]) :
             /\ executed[d][i] \in Request
             /\ requestPool'[d][executed[d][i]].isReply
      BY <1>0, <1>1 DEF ExecutedIsDecided
    <3>2. CASE executed' = executed
      BY <3>1, <3>2
    <3>3. CASE /\ executed' = [executed EXCEPT ![n] = Append(@, r)]
               /\ requestPool'[n][r].isReply
      <4> SUFFICES ASSUME NEW d \in Node, NEW i \in 1..Len(executed'[d])
                   PROVE  requestPool'[d][executed'[d][i]].isReply
        OBVIOUS
      <4>1. CASE d # n
        BY <1>0, <3>1, <3>3, <4>1
      <4>2. CASE d = n
        <5>1. /\ executed'[n] = Append(executed[n], r)
              /\ Len(executed[n]) \in Nat
              /\ i \in 1..Len(executed[n]) \/ i = Len(executed[n]) + 1
          BY <1>0, <3>3, <4>2
        <5>2. CASE i \in 1..Len(executed[n])
          BY <1>0, <3>1, <4>2, <5>1, <5>2
        <5>3. CASE i = Len(executed[n]) + 1
          BY <1>0, <3>3, <4>2, <5>1, <5>3
        <5> QED
          BY <5>1, <5>2, <5>3
      <4> QED
        BY <4>1, <4>2
    <3> QED
      BY <2>2, <3>2, <3>3
  <2>3. CASE CommitReply(n, r)
    <3>1. requestPool'[n][r].isReply
      BY <1>0, <2>3, FlagFields DEF CommitReply
    <3>2. \E to \in {"addon", "round", "done"} : CommitStep(n, r, "reply", to)
      BY <2>3 DEF CommitReply, AfterCommitAddon
    <3> QED
      BY <2>1, <2>2, <2>3, <3>1, <3>2, Stages DEF CommitReply, ExecutedIsDecided
  <2>4. CASE CommitAddon(n, r) \/ CommitBlock(n, r)
    <3>1. requestPool'[n][r].isReply
      BY <1>1, <2>4 DEF CommitAddon, CommitBlock, CommitStep, ExecutedIsDecided
    <3> QED
      BY <2>1, <2>2, <2>4, <3>1, Stages DEF CommitAddon, CommitBlock, ExecutedIsDecided
  <2>5. CASE HandleCommit(n, r) \/ CommitCount(n, r) \/ CommitStored(n, r)
             \/ CommitRound(n, r) \/ CommitNotify(n, r)
    <3>1. /\ \E from \in {"net", "count", "store", "round", "notify"},
                to \in {"count", "reply", "round", "notify", "done"} :
                 from # to /\ CommitStep(n, r, from, to)
          /\ executed' = executed
      BY <2>5 DEF HandleCommit, CommitCount, CommitStored, CommitRound,
         CommitNotify, AfterCommitAddon
    <3> QED
      BY <2>1, <2>2, <3>1, Stages DEF ExecutedIsDecided
  <2> QED
    BY <1>4, <2>3, <2>4, <2>5 DEF CommitHandler
<1> QED
  BY <1>2, <1>3, <1>4 DEF Next, SystemStep, ProposeRead, ProposeEnqueue, RunDispatch,
     RunWait, RunStop, HandlePrePrepare, ExecPrePrepare, PrepareHandler,
     HandlePrepare, PrepareWait, PrepareCount, vars

\* With one backup the view node does not end the round of a request before it
\* has decided it, so it takes no vote for it as outdated: one request has been
\* executed per past round, and it is the one dispatched in that round.
THEOREM RoundsAwaitDecision == OneBackup /\ Spec => []RoundEndsWithDecision
<1>1. RoundInv /\ ExecutedIsDecided => RoundEndsWithDecision
  <2> SUFFICES ASSUME RoundInv, ExecutedIsDecided, NEW r \in Dispatched,
                      roundOf[r] < currentRound[View]
               PROVE  requestPool[View][r].isReply
    BY RoundTypes DEF RoundEndsWithDecision, Dispatched
  <2>1. /\ roundOf[r] \in Nat /\ currentRound[View] \in Nat
        /\ Len(executed[View]) \in Nat /\ View \in Node
    BY RoundTypes DEF Dispatched
  <2>2. Len(executed[View]) >= currentRound[View]
    <3>1. CASE \A q \in Request : Storing(q) = 0
      BY <2>1, <3>1 DEF RoundInv, OnePerRound
    <3>2. CASE \E q \in Request : Storing(q) # 0
      <4>1. PICK q \in Request : Storing(q) # 0
        BY <3>2
      <4>2. Storing(q) > 0
        BY <2>1, <4>1, RoundTypes, Stages DEF Storing
      <4> QED
        BY <2>1, <4>2 DEF RoundInv, OnePerRound
    <3> QED
      BY <3>1, <3>2
  <2>3. roundOf[r] + 1 \in 1..Len(executed[View])
    BY <2>1, <2>2
  <2>4. roundOf[executed[View][roundOf[r] + 1]] = roundOf[r]
    BY <2>1, <2>3 DEF RoundInv, RoundsInOrder
  <2>5. executed[View][roundOf[r] + 1] = r
    BY <2>3, <2>4, ExecutedIsProposed DEF RoundInv, PastRoundsFinished
  <2> QED
    BY <2>1, <2>3, <2>5 DEF ExecutedIsDecided
<1>2. OneBackup /\ Init => RoundInv /\ ExecutedIsDecided
  BY RoundInit, DecidedInit
<1>3. RoundInv /\ ExecutedIsDecided /\ [Next]_vars => (RoundInv /\ ExecutedIsDecided)'
  BY RoundNext, DecidedNext DEF RoundInv
<1> QED
  BY <1>1, <1>2, <1>3, PTL DEF Spec
=============================================================================
