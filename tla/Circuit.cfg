SPECIFICATION Spec
CONSTANTS
  Thread = {"a", "b"}
  Setups <- Mixed
  Low = 12
  High = 14
  Busy = {13}
  Fd = {1, 2, 3}
  MaxTimo = 1
  Commands = 2
INVARIANTS DescriptorsKept OwnReply ToldPort
PROPERTIES AttemptsEnd
CHECK_DEADLOCK FALSE
