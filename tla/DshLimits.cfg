SPECIFICATION FairSpec
CONSTANTS
  N = 2
  Fanout = 1
  Codes = {0}
  RcFailed = 254
  ConnectTimeout = TRUE
  CommandTimeout = TRUE
  Streams = {"out"}
  Options <- Waits
  ConnectHangs = TRUE
  Chatty = FALSE
  Failing = {"poll"}
  SpuriousWakeups = FALSE
  MaxSignals = 0
PROPERTIES
  Terminates
  LimitsKept
