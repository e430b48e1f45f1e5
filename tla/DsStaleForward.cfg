SPECIFICATION Spec
CONSTANTS
  N = 3
  F = 1
  String = {s1, s2}
  Zero = Zero
  Bad = Bad
  None = None
  Scenarios <- LateScenarios
  LastTyped = 1
INVARIANT
  ExtrEmptyAtStart
