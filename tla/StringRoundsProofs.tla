------------------------- MODULE StringRoundsProofs -------------------------
(* What the proofs about the string protocols share: places, sessions,     *)
(* what Wire does to the messages it is given, and that a string on its    *)
(* way from the user to its session is in one place only.                  *)
EXTENDS StringRounds, FiniteSetTheorems, SequenceTheorems, TLAPS

\* The running session: its start and what the view proposes in it.
Start == Last.start
Proposal == IF View \in malicious THEN Bad ELSE Last.val

Session == [start : Nat, val : String]

\* The faults are counted, and the scenario is one of those assumed.
Counted == faults \in Nat /\ lates \in Nat /\ setup \in Scenarios

LEMMA NatN == N \in Nat \ {0} /\ F \in Nat
BY RoundsAssumption

LEMMA Places ==
  /\ View \in Node /\ Client \notin Node /\ Node \subseteq Nat /\ IsFiniteSet(Node)
  /\ View = 0 /\ F \in Nat /\ F < N /\ N \in Nat
<1>1. N \in Nat \ {0} /\ F \in 0..N - 1
  BY RoundsAssumption
<1>2. IsFiniteSet(0..N - 1)
  BY <1>1, FS_Interval
<1> QED BY <1>1, <1>2 DEF View, Client, Node

LEMMA ToAllFinite ==
  ASSUME NEW n, NEW m
  PROVE  IsFiniteSet(ToAll(n, m))
<1> DEFINE S == Node \ {n}
           T == {[m EXCEPT !.to = o] : o \in S}
           f == [o \in S |-> [m EXCEPT !.to = o]]
<1>1. IsFiniteSet(S)
  BY Places, FS_Subset
<1>2. f \in Surjection(S, T)
  BY DEF Surjection
<1> HIDE DEF S, T, f
<1>3. IsFiniteSet(T)
  BY <1>1, <1>2, FS_Surjection
<1> QED BY <1>3 DEF T, S, ToAll

\* Lost and late messages only add up.
LEMMA WireGrows ==
  ASSUME Counted, NEW before, NEW msgs, IsFiniteSet(msgs), Wire(before, msgs)
  PROVE  /\ faults' \in Nat /\ faults' >= faults
         /\ lates' \in Nat /\ lates' >= lates
<1>1. PICK lost, slow :
        /\ lost \subseteq msgs /\ slow \subseteq msgs
        /\ faults' = faults + Cardinality(lost) /\ lates' = lates + Cardinality(slow)
  BY Zenon DEF Wire
<1>2. Cardinality(lost) \in Nat /\ Cardinality(slow) \in Nat
  BY <1>1, FS_Subset, FS_CardinalityType
<1> QED BY <1>1, <1>2 DEF Counted

\* Without delay, what is sent and not lost arrives as it was sent.
LEMMA SyncWire ==
  ASSUME Counted, NEW before, NEW msgs, IsFiniteSet(msgs), Wire(before, msgs), lates' = 0
  PROVE  \E lost : /\ lost \subseteq msgs /\ IsFiniteSet(lost)
                   /\ \A m \in lost : m.kind \in setup.lossKind
                   /\ net' = before \cup ({m \in msgs : m.to \notin Deaf} \ lost)
                   /\ faults' = faults + Cardinality(lost)
<1> DEFINE sent == {m \in msgs : m.to \notin Deaf}
<1>1. PICK lost \in SUBSET {m \in sent : m.kind \in setup.lossKind} :
      \E slow \in SUBSET {m \in sent \ lost : m.kind \in setup.lateKind} :
        /\ net' = before \cup (sent \ (lost \cup slow))
                         \cup {[m EXCEPT !.due = @ + 1] : m \in slow}
        /\ faults' = faults + Cardinality(lost)
        /\ lates' = lates + Cardinality(slow)
  BY Zenon DEF Wire
<1>2. PICK slow \in SUBSET {m \in sent \ lost : m.kind \in setup.lateKind} :
        /\ net' = before \cup (sent \ (lost \cup slow))
                         \cup {[m EXCEPT !.due = @ + 1] : m \in slow}
        /\ faults' = faults + Cardinality(lost)
        /\ lates' = lates + Cardinality(slow)
  BY <1>1
<1>3. IsFiniteSet(lost) /\ IsFiniteSet(slow)
  <2>1. lost \in SUBSET msgs /\ slow \in SUBSET msgs
    OBVIOUS
  <2> QED BY <2>1, FS_Subset
<1>4. Cardinality(slow) \in Nat
  BY <1>3, FS_CardinalityType
<1>5. Cardinality(slow) = 0
  BY <1>2, <1>4 DEF Counted
<1>6. slow = {}
  BY <1>3, <1>5, FS_EmptySet
<1>7. net' = before \cup (sent \ lost)
  BY <1>2, <1>6
<1> QED BY <1>2, <1>3, <1>7

\* Nodes that are not sent what they should be are at most as many as the
\* messages lost.
LEMMA LostCount ==
  ASSUME NEW lost, IsFiniteSet(lost), NEW S, NEW m, "to" \in DOMAIN m,
         \A p \in S : [m EXCEPT !.to = p] \in lost
  PROVE  Cardinality(S) <= Cardinality(lost)
<1> DEFINE f == [p \in S |-> [m EXCEPT !.to = p]]
<1>1. f \in [S -> lost]
  OBVIOUS
<1>2. ASSUME NEW p \in S, NEW q \in S, f[p] = f[q] PROVE p = q
  <2>1. [m EXCEPT !.to = p].to = p /\ [m EXCEPT !.to = q].to = q
    OBVIOUS
  <2> QED BY <1>2, <2>1
<1>3. f \in Injection(S, lost)
  BY <1>1, <1>2 DEF Injection, IsInjective
<1> HIDE DEF f
<1> QED BY <1>3, FS_Injection

\* The last session is the one just appended.
LEMMA LastOfAppend ==
  ASSUME NEW e \in Session, sessions \in Seq(Session), sessions' = Append(sessions, e)
  PROVE  /\ sessions' \in Seq(Session) /\ sessions' # <<>>
         /\ Len(sessions') = Len(sessions) + 1
         /\ Last' = e
         /\ \A i \in 1..Len(sessions) : sessions'[i] = sessions[i]
BY AppendProperties DEF Last

-----------------------------------------------------------------------------
(***************************************************************************)
(* A string is in one place: not typed, injected, queued or proposed.      *)
(***************************************************************************)

Injects(msgs) == {m \in msgs : m.kind = "Inject"}
Queued(s) == \E i \in 1..Len(stringQueue) : stringQueue[i] = s
Held(s) == \E i \in 1..Len(sessions) : sessions[i].val = s

OnePlace ==
  /\ \A m, o \in Injects(net) : m.val = o.val => m = o
  /\ \A m \in Injects(net) : m.val \notin toType /\ ~Queued(m.val) /\ ~Held(m.val)
  /\ \A i, j \in 1..Len(stringQueue) : stringQueue[i] = stringQueue[j] => i = j
  /\ \A i \in 1..Len(stringQueue) : stringQueue[i] \notin toType /\ ~Held(stringQueue[i])
  /\ \A i \in 1..Len(sessions) : sessions[i].val \notin toType
  /\ ProposedOnce

\* Messages of the protocols.
Plain(msgs) == \A m \in msgs : {"kind", "to", "due"} \subseteq DOMAIN m /\ m.kind # "Inject"

LEMMA PlainWire ==
  ASSUME NEW before, NEW msgs, Plain(msgs), Wire(before, msgs)
  PROVE  Injects(net') \subseteq Injects(before)
<1>1. PICK sent, lost, slow :
        /\ sent \subseteq msgs /\ slow \subseteq sent
        /\ net' = before \cup (sent \ (lost \cup slow))
                         \cup {[m EXCEPT !.due = @ + 1] : m \in slow}
  BY Zenon DEF Wire
<1> SUFFICES ASSUME NEW m \in net', m.kind = "Inject" PROVE m \in before
  BY DEF Injects
<1>2. CASE m \in sent
  BY <1>1, <1>2 DEF Plain
<1>3. CASE \E o \in slow : m = [o EXCEPT !.due = @ + 1]
  <2>1. PICK o \in slow : m = [o EXCEPT !.due = @ + 1]
    BY <1>3
  <2>2. {"kind", "to", "due"} \subseteq DOMAIN o /\ o.kind # "Inject"
    BY <1>1 DEF Plain
  <2> QED BY <2>1, <2>2
<1> QED BY <1>1, <1>2, <1>3

LEMMA ToAllPlain ==
  ASSUME NEW n, NEW m, {"kind", "to", "due"} \subseteq DOMAIN m, m.kind # "Inject"
  PROVE  Plain(ToAll(n, m))
BY DEF Plain, ToAll

\* At most one message comes of one.
LEMMA WireOne ==
  ASSUME NEW before, NEW m, {"kind", "to", "val", "due"} \subseteq DOMAIN m, Wire(before, {m})
  PROVE  \E o : o.kind = m.kind /\ o.val = m.val /\ net' \subseteq before \cup {o}
<1>1. PICK lost, slow :
        /\ slow \subseteq {m}
        /\ net' \subseteq before \cup ({m} \ (lost \cup slow))
                         \cup {[q EXCEPT !.due = @ + 1] : q \in slow}
  BY Zenon DEF Wire
<1>2. CASE slow = {}
  BY <1>1, <1>2
<1>3. CASE slow = {m}
  <2> DEFINE o == [m EXCEPT !.due = @ + 1]
  <2>1. o.kind = m.kind /\ o.val = m.val
    OBVIOUS
  <2>2. net' \subseteq before \cup {o}
    BY <1>1, <1>3
  <2> QED BY <2>1, <2>2
<1> QED BY <1>1, <1>2, <1>3

SameStrings ==
  UNCHANGED <<toType, stringQueue, sessions>> /\ Injects(net') \subseteq Injects(net)

LEMMA SamePlace == OnePlace /\ SameStrings => OnePlace'
BY DEF OnePlace, SameStrings, Queued, Held, ProposedOnce

LEMMA CommandPlace ==
  ASSUME OnePlace, NEW s \in String, HandleCmdPropose(s)
  PROVE  OnePlace'
<1> DEFINE m == [kind |-> "Inject", to |-> View, val |-> s, due |-> Soon("Inject")]
<1>1. /\ s \in toType /\ toType' = toType \ {s} /\ Wire(net, {m})
      /\ UNCHANGED <<stringQueue, sessions>>
  BY DEF HandleCmdPropose
<1>2. {"kind", "to", "val", "due"} \subseteq DOMAIN m /\ m.kind = "Inject" /\ m.val = s
  OBVIOUS
<1> HIDE DEF m
<1>3. PICK o : o.kind = m.kind /\ o.val = m.val /\ net' \subseteq net \cup {o}
  BY <1>1, <1>2, WireOne, Zenon
<1>4. o.val = s /\ Injects(net') \subseteq Injects(net) \cup {o}
  BY <1>2, <1>3 DEF Injects
<1>5. ~Queued(s) /\ ~Held(s) /\ \A q \in Injects(net) : q.val # s
  BY <1>1 DEF OnePlace, Queued, Held
<1>6. \A q, r \in Injects(net') : q.val = r.val => q = r
  BY <1>4, <1>5 DEF OnePlace
<1>7. \A q \in Injects(net') : q.val \notin toType' /\ ~Queued(q.val)' /\ ~Held(q.val)'
  BY <1>1, <1>4, <1>5 DEF OnePlace, Queued, Held
<1> QED BY <1>1, <1>6, <1>7 DEF OnePlace, Queued, Held, ProposedOnce

LEMMA InjectPlace ==
  ASSUME OnePlace, NEW m \in net, HandleInject(m), stringQueue \in Seq(String), m.val \in String
  PROVE  OnePlace'
<1>1. /\ m.kind = "Inject" /\ net' = net \ {m} /\ stringQueue' = Append(stringQueue, m.val)
      /\ UNCHANGED <<toType, sessions>>
  BY DEF HandleInject
<1>2. m \in Injects(net) /\ Injects(net') = Injects(net) \ {m}
  BY <1>1 DEF Injects
<1>3. Len(stringQueue') = Len(stringQueue) + 1 /\ Len(stringQueue) \in Nat
      /\ stringQueue'[Len(stringQueue) + 1] = m.val
      /\ \A i \in 1..Len(stringQueue) : stringQueue'[i] = stringQueue[i]
  BY <1>1, AppendProperties
<1>4. \A s : Queued(s)' => Queued(s) \/ s = m.val
  BY <1>3 DEF Queued
<1>5. m.val \notin toType /\ ~Queued(m.val) /\ ~Held(m.val)
      /\ \A q \in Injects(net') : q.val # m.val
  BY <1>2 DEF OnePlace
<1>6. \A q \in Injects(net') : q.val \notin toType /\ ~Queued(q.val)' /\ ~Held(q.val)
  BY <1>2, <1>4, <1>5 DEF OnePlace
<1>7. \A i \in 1..Len(stringQueue) : stringQueue[i] # m.val
  BY <1>5 DEF Queued
<1>8. \A i, j \in 1..Len(stringQueue') : stringQueue'[i] = stringQueue'[j] => i = j
  <2> SUFFICES ASSUME NEW i \in 1..Len(stringQueue'), NEW j \in 1..Len(stringQueue'),
                      stringQueue'[i] = stringQueue'[j]
               PROVE  i = j
    OBVIOUS
  <2>1. i \in 1..Len(stringQueue) \/ i = Len(stringQueue) + 1
    BY <1>3
  <2>2. j \in 1..Len(stringQueue) \/ j = Len(stringQueue) + 1
    BY <1>3
  <2> QED BY <1>3, <1>7, <2>1, <2>2 DEF OnePlace
<1>9. \A i \in 1..Len(stringQueue') : stringQueue'[i] \notin toType /\ ~Held(stringQueue'[i])
  BY <1>3, <1>5 DEF OnePlace
<1>10. \A s : Held(s)' = Held(s)
  BY <1>1 DEF Held
<1> QED BY <1>1, <1>2, <1>6, <1>8, <1>9, <1>10 DEF OnePlace, ProposedOnce

\* A session is started with the string at the head of the queue.
LEMMA InitPlace ==
  ASSUME OnePlace, NEW T, RunInit(T), stringQueue \in Seq(String), sessions \in Seq(Session),
         now \in Nat
  PROVE  OnePlace'
<1> DEFINE init == [kind |-> "Init", to |-> Client, start |-> now + 1, due |-> now]
           e == [start |-> now + 1, val |-> Head(stringQueue)]
<1>1. /\ stringQueue # <<>> /\ stringQueue' = Tail(stringQueue) /\ toType' = toType
      /\ sessions' = Append(sessions, e) /\ Wire(net, ToAll(View, init) \cup {init})
  BY DEF RunInit
<1>2. Injects(net') \subseteq Injects(net)
  <2>1. Plain(ToAll(View, init) \cup {init})
    BY ToAllPlain DEF Plain
  <2> QED BY <1>1, <2>1, PlainWire
<1>3. Len(stringQueue) \in Nat \ {0} /\ Head(stringQueue) = stringQueue[1]
      /\ Len(stringQueue') = Len(stringQueue) - 1
      /\ \A i \in 1..Len(stringQueue) - 1 : stringQueue'[i] = stringQueue[i + 1]
  BY <1>1, HeadTailProperties
<1>4. e \in Session
  BY <1>1, HeadTailProperties DEF Session
<1>5. Len(sessions) \in Nat /\ Len(sessions') = Len(sessions) + 1
      /\ sessions'[Len(sessions) + 1] = e
      /\ \A i \in 1..Len(sessions) : sessions'[i] = sessions[i]
  BY <1>1, <1>4, AppendProperties
<1> DEFINE h == Head(stringQueue)
<1>6. e.val = h /\ h = stringQueue[1] /\ 1 \in 1..Len(stringQueue)
  BY <1>3
<1> HIDE DEF init, e, h
<1>7. h \notin toType /\ ~Held(h) /\ Queued(h)
  BY <1>6 DEF OnePlace, Queued
<1>8. \A s : Held(s)' => Held(s) \/ s = h
  BY <1>5, <1>6 DEF Held
<1>9. \A s : Queued(s)' => Queued(s) /\ s # h
  <2> SUFFICES ASSUME NEW i \in 1..Len(stringQueue) - 1
               PROVE  Queued(stringQueue'[i]) /\ stringQueue'[i] # h
    BY <1>3 DEF Queued
  <2>1. stringQueue'[i] = stringQueue[i + 1] /\ i + 1 \in 1..Len(stringQueue) /\ i + 1 # 1
    BY <1>3
  <2> QED BY <1>6, <2>1 DEF OnePlace, Queued
<1>10. \A m \in Injects(net') : m.val \notin toType /\ ~Queued(m.val)' /\ ~Held(m.val)'
  BY <1>2, <1>7, <1>8, <1>9 DEF OnePlace
<1>11. \A i, j \in 1..Len(stringQueue') : stringQueue'[i] = stringQueue'[j] => i = j
  <2> SUFFICES ASSUME NEW i \in 1..Len(stringQueue) - 1, NEW j \in 1..Len(stringQueue) - 1,
                      stringQueue'[i] = stringQueue'[j]
               PROVE  i = j
    BY <1>3
  <2>1. stringQueue[i + 1] = stringQueue[j + 1] /\ i + 1 \in 1..Len(stringQueue)
        /\ j + 1 \in 1..Len(stringQueue)
    BY <1>3
  <2>2. i + 1 = j + 1
    BY <2>1 DEF OnePlace
  <2> QED BY <1>3, <2>2
<1>12. ASSUME NEW s, NEW i \in 1..Len(stringQueue'), s = stringQueue'[i]
       PROVE  s \notin toType /\ ~Held(s)'
  <2>1. Queued(s)'
    BY <1>12 DEF Queued
  <2>2. Queued(s) /\ s # h
    BY <1>9, <2>1
  <2>3. s \notin toType /\ ~Held(s)
    BY <2>2 DEF OnePlace, Queued
  <2> QED BY <1>8, <2>2, <2>3
<1>13. ProposedOnce' /\ \A i \in 1..Len(sessions') : sessions'[i].val \notin toType
  <2>1. \A i \in 1..Len(sessions) : sessions[i].val # h
    BY <1>7 DEF Held
  <2>2. \A i \in 1..Len(sessions') : i \in 1..Len(sessions) \/ i = Len(sessions) + 1
    BY <1>5
  <2> QED BY <1>5, <1>6, <1>7, <2>1, <2>2 DEF OnePlace, ProposedOnce
<1>14. \A i \in 1..Len(stringQueue') :
         stringQueue'[i] \notin toType' /\ ~\E j \in 1..Len(sessions') : sessions'[j].val = stringQueue'[i]
  BY <1>1, <1>12 DEF Held
<1> QED BY <1>1, <1>2, <1>10, <1>11, <1>13, <1>14 DEF OnePlace, Held

LEMMA ProposePlace ==
  ASSUME OnePlace, NEW T, RunPropose(T)
  PROVE  OnePlace'
<1> DEFINE m == [kind |-> "Propose", to |-> Client, due |-> now,
                 val |-> IF View \in malicious THEN Bad ELSE Last.val]
           msgs == {p \in ToAll(View, m) : View \in malicious => p.to \in {1, 2}}
<1>1. Wire(net, msgs) /\ UNCHANGED <<toType, stringQueue, sessions>>
  BY DEF RunPropose
<1>2. Plain(msgs)
  <2>1. Plain(ToAll(View, m))
    BY ToAllPlain
  <2> QED BY <2>1 DEF Plain
<1> QED BY <1>1, <1>2, PlainWire, SamePlace DEF SameStrings

LEMMA ProposerPlace ==
  ASSUME OnePlace, stringQueue \in Seq(String), ProposerNext,
         \A m \in Injects(net) : m.val \in String
  PROVE  OnePlace'
<1>1. ASSUME NEW m \in Inbox, HandleInject(m) PROVE OnePlace'
  <2>1. m \in net /\ m.val \in String
    BY <1>1 DEF Inbox, HandleInject, Injects
  <2> QED BY <1>1, <2>1, InjectPlace
<1>2. CASE RunPoll \/ RunDone \/ RunStop \/ \E t \in Ripe : HandleConsensusDone(t)
  <2>1. UNCHANGED <<toType, stringQueue, sessions>> /\ net' \subseteq net
    BY <1>2 DEF RunPoll, RunDone, RunStop, HandleConsensusDone, roundVars, wireVars, proposerVars
  <2> QED BY <2>1, SamePlace DEF SameStrings, Injects
<1> QED BY <1>1, <1>2, CommandPlace DEF ProposerNext

LEMMA InitialPlace == RoundsInit => OnePlace
BY DEF RoundsInit, OnePlace, Injects, Queued, Held, ProposedOnce
=============================================================================
