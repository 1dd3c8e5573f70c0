SPECIFICATION Spec
CONSTANTS
  Streams = {a, b}
  Limits <- PipelinedAndShared
  MaxFailures = 1
INVARIANTS PoolWithinLimits OnlyWorkersFail
PROPERTIES StreamOrder
CHECK_DEADLOCK FALSE
