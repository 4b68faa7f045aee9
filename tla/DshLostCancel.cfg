SPECIFICATION Spec
CONSTANTS
  N = 1
  Fanout = 1
  Codes = {0}
  RcFailed = 254
  ConnectTimeout = FALSE
  CommandTimeout = FALSE
  Streams = {"out"}
  Options <- Plain
  ConnectHangs = FALSE
  Chatty = FALSE
  Failing = {}
  SpuriousWakeups = FALSE
  MaxSignals = 2
PROPERTY CanceledStays
