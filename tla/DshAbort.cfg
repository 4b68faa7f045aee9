SPECIFICATION Spec
CONSTANTS
  N = 2
  Fanout = 2
  Codes = {0, 143}
  RcFailed = 254
  ConnectTimeout = FALSE
  CommandTimeout = FALSE
  Streams = {"out"}
  Options <- Aborting
  ConnectHangs = FALSE
  Chatty = FALSE
  Failing = {}
  SpuriousWakeups = FALSE
  MaxSignals = 2
INVARIANTS
  SignalsLiveConnection
PROPERTIES
  SweepComplete
  SkipsCanceled
