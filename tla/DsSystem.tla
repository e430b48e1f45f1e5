------------------------------ MODULE DsSystem ------------------------------
(* The Dolev-Strong deployment: the string client and proposer, one        *)
(* DolevStrong module per node, and the client that queries the view for   *)
(* the result (queryMod).                                                  *)
EXTENDS DolevStrong

VARIABLE results   \* history: session of a query's answer and the value shown

vars == <<roundVars, dsVars, results>>

Init == RoundsInit /\ DsInitState /\ results = {}

\* HandleInitMsg at the view, called by its proposer.
ViewInit ==
  /\ RunInit(DsTimers(View, now + 1))
  /\ DsHandleInit(View)
  /\ UNCHANGED results

\* HandleInitMsg at another node.
HandleInit(m) ==
  /\ m.kind = "Init" /\ m.to \in Node
  /\ net' = net \ {m}
  /\ startTime' = [startTime EXCEPT ![m.to] = m.start]
  /\ timers' = timers \cup DsTimers(m.to, m.start)
  /\ DsHandleInit(m.to)
  /\ UNCHANGED <<now, tasks, setup, faults, lates, proposerVars, results>>

ViewPropose ==
  /\ RunPropose({})
  /\ DsViewPropose(Last.val)
  /\ UNCHANGED results

HandlePropose(m) ==
  /\ m.kind = "Propose"
  /\ DsHandlePropose(m.to, m.val, net \ {m}, {})
  /\ UNCHANGED <<now, timers, startTime, setup, proposerVars, results>>

\* queryMod.handleInitMsg: a query when the nodes should have committed.
ClientInit(m) ==
  /\ m.kind = "Init" /\ m.to = Client
  /\ net' = net \ {m}
  /\ timers' = timers \cup {[node |-> Client, at |-> m.start + F + 1, what |-> "query"]}
  /\ UNCHANGED <<now, tasks, startTime, setup, faults, lates, proposerVars,
                 dsVars, results>>

ClientQueryEarly(t) ==
  /\ t.what = "query"
  /\ timers' = timers \ {t}
  /\ Wire(net, {[kind |-> "Query", to |-> View, due |-> Soon("Query")]})
  /\ UNCHANGED <<now, tasks, startTime, setup, proposerVars, dsVars, results>>

\* The query timer, a quarter of a tick after the commit timers.
ClientQuery(t) ==
  /\ t.what = "query"
  /\ \A u \in Ripe : u.node = Client
  /\ timers' = timers \ {t}
  /\ Wire(net, {[kind |-> "Query", to |-> View, due |-> Soon("Query")]})
  /\ UNCHANGED <<now, tasks, startTime, setup, proposerVars, dsVars, results>>

\* handleQueryMsg at the view.
HandleQuery(m) ==
  /\ m.kind = "Query"
  /\ Wire(net \ {m}, {[kind |-> "Reply", to |-> Client, val |-> commitValue[m.to],
                       due |-> Soon("Reply")]})
  /\ UNCHANGED <<now, timers, tasks, startTime, setup, proposerVars,
                 dsVars, results>>

\* queryMod.handleReplyQueryMsg: the value is shown.
ClientReply(m) ==
  /\ m.kind = "Reply"
  /\ net' = net \ {m}
  /\ results' = results \cup {[session |-> Len(sessions), val |-> m.val]}
  /\ UNCHANGED <<now, timers, tasks, startTime, setup, faults, lates,
                 proposerVars, dsVars>>

Next ==
  \/ ProposerNext /\ UNCHANGED <<dsVars, results>>
  \/ DsNext /\ UNCHANGED results
  \/ Tick /\ UNCHANGED <<dsVars, results>>
  \/ ViewInit \/ ViewPropose
  \/ \E m \in Inbox : \/ HandleInit(m) \/ HandlePropose(m)
                    \/ ClientInit(m) \/ HandleQuery(m) \/ ClientReply(m)
  \/ \E t \in Ripe : ClientQuery(t)

\* A started handler, a ripe timer, a message on its way and the clock all
\* make progress; nobody has to type, and nobody has to stop the view.
Progress == Next /\ toType' = toType /\ (pc' = "stopped" => pc = "stopped")

Spec == Init /\ [][Next]_vars /\ WF_vars(Progress)

(***************************************************************************)
(* Properties.                                                             *)
(***************************************************************************)

\* A forward is signed by the view and by the node that sends it, which does
\* not send it to itself; the view neither sends itself an Init nor a Propose.
Message ==
  [kind : {"Init"}, to : (Node \cup {Client}) \ {View}, start : Nat, due : Nat]
    \cup [kind : {"Inject"}, to : {View}, val : String, due : Nat]
    \cup [kind : {"Propose"}, to : Node \ {View}, val : Value, due : Nat]
    \cup {m \in [kind : {"Forward"}, to : Node, from : Node, val : Value,
                   sigs : Nat, due : Nat] : m.sigs >= 2 /\ m.from # m.to}
    \cup [kind : {"Query"}, to : {View}, due : Nat]
    \cup [kind : {"Reply"}, to : {Client}, val : Value \cup {None}, due : Nat]

\* The types of the state.
TypeOK ==
  /\ \A m \in net : m \in Message
  /\ extrSet \in [Node -> SUBSET Value]
  /\ commitValue \in [Node -> Value \cup {None}]
  /\ stringQueue \in Seq(String)
  /\ consensusDone \in 0..1
  /\ pc \in {"poll", "start", "wait", "stopped"}

\* What the client shows for a session is what the honest view committed in
\* that session, never the value it still holds from the session before.
ClientSeesSession ==
  Synchronous /\ View \in Honest =>
    \A r \in results : r.val = sessions[r.session].val

(***************************************************************************)
(* Refinement: module StringBroadcast states what the deployment promises. *)
(***************************************************************************)

\* What the protocol is relied on to survive: no Init is lost (nothing sends
\* it again); of the nodes proposed to, at least one hears the view and its
\* forwards are heard, because there are more of them than lost messages;
\* and F counts what is wrong, a malicious view or any lost message.
Tolerated ==
  /\ "Init" \notin setup.lossKind
  /\ Targets = {} \/ faults < Cardinality(Targets)
  /\ F >= 1 \/ (View \notin malicious /\ faults = 0)

\* What its promise assumes.
Calmly == Synchronous /\ Tolerated

Abstract == INSTANCE StringBroadcast WITH
  Rounds  <- F + 1,
  Length  <- N + 7,
  kept    <- Calmly,
  honest  <- Honest,
  decided <- {d \in decided : d.node \in Honest},
  shown   <- results

\* Every behaviour of the deployment is one of the abstract broadcast: as
\* long as the faults are tolerated, decisions come with the last round of
\* the session that runs, agree and follow an honest view, and so do the
\* answers shown to the client.
Refines == Abstract!Spec

=============================================================================
