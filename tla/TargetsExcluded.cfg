\* -x foo2 leaves a foo2 that was named twice among the targets.
SPECIFICATION Spec
CONSTANTS
  Host <- MCHost
  Name <- MCName
  Path <- MCPath
  Resolve <- MCResolve
  PathOf <- MCPathOf
  FileAt <- MCFileAt
  Text <- MCText
  Stdin = "in"
  CommandLines <- MCCommandLines
  Rcmds <- MCRcmds
  Rank <- MCRank
  Expand <- MCExpand
  Fits <- MCFits
  GroupPath = "G"
  MachinesFile = "M"
INVARIANT ExcludedGone
CHECK_DEADLOCK FALSE
