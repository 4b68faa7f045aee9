\* Two files named alike, one of them in a directory with a subdirectory; every failure.
SPECIFICATION FairSpec
CONSTANTS
  Infiles <- Named
  Readdir <- Tree
  Size <- Sizes
  Unreadable <- NoneHidden
  BaseName <- Base
  HostName <- WithHost
  Targets <- Places
  Modes <- Robust
INVARIANTS SilenceMeansSuccess DeliveredOrReported OwnContent InStep
PROPERTIES Terminates
CHECK_DEADLOCK FALSE
