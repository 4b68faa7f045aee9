\* Every command line of three arguments, and combinations of -g, -X, -a and WCOLL;
\* pdsh ends when it has made its connections or found an error.
SPECIFICATION Spec
CONSTANTS
  Host <- MCHost
  Name <- MCName
  Path <- MCPath
  Resolve <- MCResolve
  PathOf <- MCPathOf
  FileAt <- MCFileAt
  Text <- MCText
  Stdin = "in"
  CommandLines <- MCCommandLines
  Rcmds <- MCRcmds
  Rank <- MCRank
  Expand <- MCExpand
  Fits <- MCFits
  GroupPath = "G"
  MachinesFile = "M"
INVARIANTS IncludedOnce TargetsAsAsked FirstRegisteredWins InitBeforeConnect
PROPERTIES Finishes
CHECK_DEADLOCK FALSE
