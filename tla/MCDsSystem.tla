----------------------------- MODULE MCDsSystem -----------------------------
(* Instances of DsSystem for TLC: the scenarios of the runs.  The          *)
(* configurations give the other constants.                                *)
EXTENDS DsSystem, TLC

Calm == [typed |-> String, malicious |-> {}, faults |-> 0, lossKind |-> {},
         lateKind |-> {}, crossKind |-> {}, ordered |-> {}, racing |-> {},
         mayStop |-> FALSE]

\* One fault that Dolev-Strong tolerates with F = 1 (a lost message of the
\* protocol, a malicious view, a silent node), or a late Init, which it does
\* not; all handlers interleave and every message may cross a tick.
SessionScenarios ==
  LET Wild == [Calm EXCEPT !.crossKind = Kind, !.racing = Node \X {"Forward"},
                           !.mayStop = TRUE]
  IN {[Wild EXCEPT !.faults = 1, !.lossKind = {"Propose", "Forward"}, !.lateKind = {"Init"}]}
       \cup {[Wild EXCEPT !.malicious = {n}] : n \in Node}

\* A Propose message whose hop takes longer than a tick.
LateScenarios == {[Calm EXCEPT !.faults = 1, !.lateKind = {"Propose"}]}
=============================================================================
