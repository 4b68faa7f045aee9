SPECIFICATION Spec
CONSTANTS
  N = 3
  Fanout = 2
  Codes = {0, 1}
  RcFailed = 254
  ConnectTimeout = FALSE
  CommandTimeout = FALSE
  Streams = {"out"}
  Options <- StatusBoth
  ConnectHangs = TRUE
  Chatty = FALSE
  Failing = {"rcmd_create", "pthread_create"}
  SpuriousWakeups = FALSE
  MaxSignals = 0
INVARIANTS
  FanoutBound
  CountsWorkers
  AllServed
  FailureReported
