SPECIFICATION Spec
CONSTANTS
  N = 3
  F = 1
  T1 = 1
  s1 = s1
  s2 = s2
  String = {s1, s2, s3}
  Zero = Zero
  Bad = Bad
  None = None
  Scenarios <- OverlapScenarios
  LastTyped = 1
INVARIANT
  SessionsDoNotOverlap
