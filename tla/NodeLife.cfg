SPECIFICATION Spec
CONSTANTS
  K = 3
  ViewNode = {0}
  Ticks = 2
  MayFail = {2}
INVARIANTS
  TypeOK
  StaysUpUntilStopped
PROPERTIES
  StopReachesListeners
  ClientEnds
CHECK_DEADLOCK FALSE
