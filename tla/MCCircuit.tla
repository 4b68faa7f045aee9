----------------------------- MODULE MCCircuit -----------------------------
EXTENDS Circuit
Setup(a, b, s, n) ==
  [proto |-> [t \in Thread |-> IF t = "a" THEN a ELSE b], separate |-> s, inuse |-> n]
Mixed == {Setup("rsh", "k4", TRUE, 0), Setup("k4", "k4", FALSE, 1), Setup("k4", "mrsh", TRUE, 0)}
=============================================================================
