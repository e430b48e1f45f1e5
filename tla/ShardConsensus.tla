--------------------------- MODULE ShardConsensus ---------------------------
(***************************************************************************)
(* What the consensus module of one shard promises to its users: requests  *)
(* leave the queue of the view node in the order in which they entered it, *)
(* each once; a node accepts only a dispatched request, commits to it only *)
(* when enough OTHER nodes have accepted it, and decides it only when      *)
(* another node has committed to it.  Nothing is ever taken back.  There   *)
(* is no promise about how many requests are in flight, about the order of *)
(* the decisions or about a decision being reached everywhere: the runs of *)
(* module Pbft show that the code keeps none of these.                     *)
(***************************************************************************)
EXTENDS Integers, Sequences, FiniteSets

CONSTANTS
    Node,
    Request,
    Votes      \* Node -> the acceptances by others that a commit needs

VARIABLES
    queue,       \* submitted requests that are not dispatched yet
    dispatched,  \* requests sent to the shard
    accepted,    \* Request -> nodes that announced that they accept it
    committed,   \* Request -> nodes that announced that they commit to it
    decided      \* Request -> nodes that decided it

vars == <<queue, dispatched, accepted, committed, decided>>

Init ==
    /\ queue = <<>>
    /\ dispatched = {}
    /\ accepted = [r \in Request |-> {}]
    /\ committed = [r \in Request |-> {}]
    /\ decided = [r \in Request |-> {}]

Queued(r) == \E i \in 1..Len(queue) : queue[i] = r

Submit(r) ==
    /\ r \notin dispatched
    /\ ~Queued(r)
    /\ queue' = Append(queue, r)
    /\ UNCHANGED <<dispatched, accepted, committed, decided>>

Dispatch ==
    /\ queue # <<>>
    /\ Head(queue) \notin dispatched
    /\ queue' = Tail(queue)
    /\ dispatched' = dispatched \cup {Head(queue)}
    /\ UNCHANGED <<accepted, committed, decided>>

Accept(n, r) ==
    /\ r \in dispatched
    /\ n \notin accepted[r]
    /\ accepted' = [accepted EXCEPT ![r] = @ \cup {n}]
    /\ UNCHANGED <<queue, dispatched, committed, decided>>

Commit(n, r) ==
    /\ Cardinality(accepted[r] \ {n}) >= Votes[n]
    /\ committed' = [committed EXCEPT ![r] = @ \cup {n}]
    /\ UNCHANGED <<queue, dispatched, accepted, decided>>

Decide(n, r) ==
    /\ committed[r] \ {n} # {}
    /\ decided' = [decided EXCEPT ![r] = @ \cup {n}]
    /\ UNCHANGED <<queue, dispatched, accepted, committed>>

Next ==
    \/ \E r \in Request : Submit(r)
    \/ Dispatch
    \/ \E n \in Node, r \in Request :
          Accept(n, r) \/ Commit(n, r) \/ Decide(n, r)

Spec == Init /\ [][Next]_vars
=============================================================================
