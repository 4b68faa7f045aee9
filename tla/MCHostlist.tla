---------------------------- MODULE MCHostlist -----------------------------
(***************************************************************************)
(* A finite instance of the host list: names with two stems and numbers    *)
(* around a change of the number of digits.                                *)
(***************************************************************************)
EXTENDS Hostlist

StemRank == [stem \in {"f", "g"} |-> IF stem = "f" THEN 1 ELSE 2]

AnyTail == {"", "a"}

Name(stem, val, len) == [stem |-> stem, val |-> val, len |-> len, tail |-> ""]
Group(lo, hi, width) == [lo |-> lo, hi |-> hi, width |-> width]
Host(name) == [prefix |-> name, ranges |-> <<>>, tail |-> ""]
Bracket(name, groups) == [prefix |-> name, ranges |-> groups, tail |-> ""]

f   == Name("f", 0, 0)
f1  == Name("f", 1, 1)
g   == Host(Name("g", 0, 0))
f9  == Host(Name("f", 9, 1))
f09 == Host(Name("f", 9, 2))
f10 == Host(Name("f", 10, 2))
f11 == Host(Name("f", 11, 2))

Words == {
  <<Bracket(f, <<Group(8, 10, 1)>>)>>,                     \* f[8-10]
  <<f09>>, 
  <<f9, f10>>,                                             \* f9,f10: one range
  <<f11>>,                                                 \* too large for a range
  <<Bracket(f1, <<Group(0, 1, 1)>>)>>,                     \* f1[0-1]: f10,f11
  <<Bracket(f, <<Group(9, 9, 2), Group(10, 10, 2)>>), g>>, \* f[09,10],g
  <<g, Bracket(f, <<Group(10, 9, 2)>>)>>,                  \* f[10-9]: refused
  <<[Bracket(f, <<Group(9, 10, 1)>>) EXCEPT !.tail = "a"]>>}   \* f[9-10]a
=============================================================================
