SPECIFICATION Spec
CONSTANTS
  Shard = {0, 1}
  Speed = 2
  MinTxs = 2
  MaxTxs = 3
  BatchSize = 3
  Scenarios <- FlowScenarios
INVARIANTS
  TypeOK
  PoolKeepsOrder
  ReportMatchesReplies
PROPERTIES
  PoolDrains
  ResultsWritten
CHECK_DEADLOCK FALSE
