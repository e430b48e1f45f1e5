SPECIFICATION Spec
CONSTANTS
  N = 3
  F = 1
  String = {s1, s2}
  Zero = Zero
  Bad = Bad
  None = None
  Scenarios <- SessionScenarios
  LastTyped = 12
INVARIANTS
  TypeOK
  Agreement
  Validity
  ClientSeesSession
  SessionsDoNotOverlap
  EndIsTimed
  ProposedOnce
PROPERTIES
  QueuedIsProposed
  Refines
CHECK_DEADLOCK FALSE
