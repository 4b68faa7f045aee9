\* Names f08..f11 with and without padding, in brackets and alone.
SPECIFICATION Spec
CONSTANTS
  Base = 10
  Rank <- StemRank
  Tails <- AnyTail
  Inputs <- Words
  MaxRange = 3
  MaxRanges = 2
  MaxSuffix = 10
  MaxHosts = 3
INVARIANTS CountKept ReadsBack
PROPERTIES IsHostlistLog UniqComplete IterationEnds
