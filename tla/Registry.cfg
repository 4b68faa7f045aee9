\* Loading in every order, replacement by priority, -M, options and exit.
\* pdsh ends when no module could be loaded, and after mod_exit.
SPECIFICATION Spec
CONSTANTS
  Files <- MCFiles
  Module <- MCModule
  Dirs <- MCDirs
  Trusted <- MCTrusted
  Lists <- MCLists
  Builtin <- MCBuiltin
INVARIANTS OptionsServed OneHandler InitOnce LoadOrderIrrelevant
CHECK_DEADLOCK FALSE
