------------------------------- MODULE MCTbb -------------------------------
(* Instances of Tbb for TLC: the scenarios of the runs.  The               *)
(* configurations give the other constants.                                *)
EXTENDS Tbb, TLC

CONSTANTS s1, s2

Calm == [typed |-> {s1}, malicious |-> {}, faults |-> 0, lossKind |-> {},
         lateKind |-> {}, crossKind |-> {}, ordered |-> {}, racing |-> {},
         mayStop |-> FALSE]

\* Tallies racing at a node with all nodes alive; a malicious view, with
\* forwards and votes that cross a tick; a lost Propose; a silent node with
\* everything crossing ticks and a late vote; two sessions with a silent node
\* and tallies racing at the others.  From the late vote on the execution is
\* not Synchronous and says something about TypeOK and EndIsTimed only.
SessionScenarios ==
  {[Calm EXCEPT !.racing = {<<1, "vote">>}, !.ordered = {"Forward1", "Forward2"}],
   [Calm EXCEPT !.malicious = {0}, !.crossKind = {"Forward1", "Vote"},
                !.ordered = {"Forward2"}],
   [Calm EXCEPT !.faults = 1, !.lossKind = {"Propose"},
                !.ordered = {"Vote", "Forward2"}],
   [Calm EXCEPT !.malicious = {2}, !.crossKind = Kind, !.faults = 1, !.lateKind = {"Vote"}],
   [Calm EXCEPT !.malicious = {2}, !.typed = {s1, s2},
                !.racing = {<<0, "vote">>, <<1, "ba">>}]}

\* Three strings, nothing going wrong but a silent node.
OverlapScenarios == {[Calm EXCEPT !.typed = String, !.malicious = {2}]}
=============================================================================
