-------------------------- MODULE StringBroadcast --------------------------
(***************************************************************************)
(* What the Dolev-Strong deployment promises to its user: a sequence of    *)
(* broadcasts, one per string, none of which cuts the one before short.    *)
(* Rounds ticks after the start of a broadcast, and at no other time, an   *)
(* honest node may decide a value for it: the one that the honest nodes    *)
(* before it have decided, and the string itself if the view is honest.    *)
(* The client may be shown a value for the broadcast that runs, the string *)
(* if the view is honest.  Nothing is taken back.  The promise is kept     *)
(* only as long as what it assumes of network and nodes has held: from     *)
(* then on anything may happen.                                            *)
(***************************************************************************)
EXTENDS Integers, Sequences

CONSTANTS
  Node,
  View,     \* the node that broadcasts
  String,   \* what it is given to broadcast
  Value,    \* what may be decided
  None,     \* what is shown when nothing is decided
  Rounds,   \* the ticks from the start of a broadcast to its decision
  Length    \* the ticks from the start of a broadcast to the next

VARIABLES
  kept,       \* whether what the promise assumes has held so far
  honest,     \* the nodes the promise is about
  now,        \* the clock
  sessions,   \* start and string of every broadcast, in order
  decided,    \* node, start of the broadcast and value of every decision
  shown       \* number of the broadcast and value of everything shown

vars == <<kept, honest, now, sessions, decided, shown>>

Init ==
  /\ kept \in BOOLEAN /\ honest \subseteq Node /\ now \in Nat
  /\ sessions = <<>> /\ decided = {} /\ shown = {}

Running == sessions[Len(sessions)]

\* A broadcast starts with the next tick.
Open(s) ==
  /\ sessions # <<>> => now + 1 >= Running.start + Length
  /\ sessions' = Append(sessions, [start |-> now + 1, val |-> s])
  /\ UNCHANGED <<now, decided, shown>>

Decide(n, v) ==
  /\ sessions # <<>> /\ now = Running.start + Rounds
  /\ n \in honest
  /\ \A d \in decided : d.start = Running.start => d.val = v
  /\ View \in honest => v = Running.val
  /\ decided' = decided \cup {[node |-> n, start |-> Running.start, val |-> v]}
  /\ UNCHANGED <<now, sessions, shown>>

Show(v) ==
  /\ sessions # <<>>
  /\ View \in honest => v = Running.val
  /\ shown' = shown \cup {[session |-> Len(sessions), val |-> v]}
  /\ UNCHANGED <<now, sessions, decided>>

Tick ==
  /\ now' = now + 1
  /\ UNCHANGED <<sessions, decided, shown>>

Broadcast ==
  \/ \E s \in String : Open(s)
  \/ \E n \in Node, v \in Value : Decide(n, v)
  \/ \E v \in Value \cup {None} : Show(v)
  \/ Tick

Next ==
  /\ UNCHANGED honest
  /\ kept' => kept /\ (Broadcast \/ UNCHANGED <<now, sessions, decided, shown>>)

Spec == Init /\ [][Next]_vars
=============================================================================
