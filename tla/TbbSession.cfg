SPECIFICATION Spec
CONSTANTS
  N = 3
  F = 1
  T1 = 1
  s1 = s1
  s2 = s2
  String = {s1, s2}
  Zero = Zero
  Bad = Bad
  None = None
  Scenarios <- SessionScenarios
  LastTyped = 1
INVARIANTS
  TypeOK
  CommitPointsAgree
  LastPointHasValue
  ClientConfirmsString
  EndIsTimed
