\* Four items, equal in pairs, and two iterators.
SPECIFICATION Spec
CONSTANTS
  Nodes = {n1, n2, n3, n4}
  Iters = {i1, i2}
  Items = {1, 2, 3, 4}
  Key <- Keyed
  HeadPtr = HeadPtr
  Nil = Nil
SYMMETRY Interchangeable
INVARIANTS ChainKept ItemsAccounted
PROPERTIES IsListLog
CHECK_DEADLOCK FALSE
