\* Two bytes, one of them the newline; sizes 1 to 4, growing by twos or failing to.
SPECIFICATION Spec
CONSTANTS
  Bytes = {"x", "nl"}
  NL = "nl"
  Junk = "junk"
  MinSize = 1
  MaxSize = 4
  Chunk = 2
  Meta = 1
  MayFail = TRUE
  MaxWrite = 4
INVARIANTS IndexValid ForwardLines BackwardLines LossCounted
PROPERTIES KeepsLog
