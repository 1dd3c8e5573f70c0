SPECIFICATION Spec
CONSTANTS
  Streams = {a}
  Limits <- Pipelined
  MaxFailures = 1
PROPERTIES EveryJobAnswered TeardownCompletes
CHECK_DEADLOCK FALSE
