----------------------------- MODULE MCTargets -----------------------------
(* Hosts 1 to 6, of which 6 is a name with brackets left that stands for 2 and 3.
   Files: A includes B by name, and B includes A again and C by two paths; M is the
   machines file, E cannot be read.                                              *)
EXTENDS Targets

MCHost == 1..6
MCName == {"A", "./A", "B", "./B", "C", "./C", "/C", "E", "./E", "M", "g", "G/g", "-", "x"}
MCPath == {".", "G"}
Found  == [n \in {"A", "B", "C", "E"} |-> "./" \o n] @@ [n \in {"./A", "./B", "./C", "./E", "/C"} |-> n]
MCResolve == [p \in MCPath |-> [n \in MCName |->
  IF p = "." /\ n \in DOMAIN Found THEN Found[n] ELSE IF p = "G" /\ n = "g" THEN "G/g"
  ELSE IF n = "/C" THEN n ELSE NoFile]]
MCPathOf == [n \in MCName |-> IF n = "G/g" THEN "G" ELSE "."]
MCFileAt == [n \in MCName |->
  CASE n \in {"A", "./A"} -> "A" [] n \in {"B", "./B"} -> "B" [] n \in {"C", "./C", "/C"} -> "C"
    [] n = "M" -> "M" [] n = "x" -> "X" [] n = "G/g" -> "g" [] n = "-" -> "in" [] OTHER -> NoFile]
H(s) == [kind |-> "hosts", hosts |-> s]
I(n) == [kind |-> "include", name |-> n]
Rem  == [kind |-> "comment"]
MCText == [A |-> <<H(<<1, 2>>), I("B"), H(<<5>>)>>, B |-> <<I("./A"), Rem, H(<<3>>), I("C"), I("/C"), I("B")>>,
           C |-> <<H(<<4>>), Rem>>, M |-> <<H(<<1, 2, 3>>)>>, X |-> <<H(<<2>>), I("E")>>,
           g |-> <<H(<<3, 1, 3>>), I("/C"), I("g")>>] @@ ("in" :> <<H(<<2, 3>>)>>)

Hosts(m, s, r, u) == [kind |-> "hosts", minus |-> m, hosts |-> s, rcmd |-> r, user |-> u]
FileA(m, n)  == [kind |-> "file", minus |-> m, name |-> n]
Regex(m, s)  == [kind |-> "regex", minus |-> m, match |-> s]
MCArgs == {
  Hosts(FALSE, <<1, 2, 3>>, None, None), Hosts(FALSE, <<2, 6>>, "ssh", None),
  Hosts(FALSE, <<3, 2>>, None, "jim"), Hosts(FALSE, <<2>>, "exec", "ann"), Hosts(FALSE, <<1>>, "nosuch", None),
  Hosts(TRUE, <<2>>, None, None), Hosts(TRUE, <<3, 4>>, None, None),
  FileA(FALSE, "A"), FileA(TRUE, "B"), FileA(FALSE, "-"), FileA(FALSE, "x"), FileA(FALSE, "E"), Regex(FALSE, 1..3), Regex(TRUE, {1})}

Line1(a, g, x, all, r, e) == [args |-> a, groups |-> g, exgroups |-> x, all |-> all, rcmd |-> r, env |-> e,
                              cmd |-> r # "rsh", timeouts_ok |-> TRUE]
MCCommandLines ==
  {Line1(a, <<>>, <<>>, FALSE, None, None) : a \in [1..3 -> MCArgs]} \cup
  {Line1(a, <<>>, <<>>, FALSE, r, "M") : a \in [1..1 -> MCArgs], r \in {"exec", "rsh", "nosuch"}} \cup
  {Line1(a, g, x, all, None, "M") : a \in UNION {[1..n -> {h \in MCArgs : h.minus}] : n \in 0..1},
     g \in {<<>>, <<"g">>, <<"g", "C">>, <<"g", "g">>}, x \in {<<>>, <<"g">>}, all \in BOOLEAN} \cup
  {Line1(<<FileA(TRUE, "A"), a>>, <<>>, <<>>, FALSE, None, "M") : a \in MCArgs} \cup
  {[Line1(<<>>, <<>>, <<"g">>, FALSE, r, None) EXCEPT !.timeouts_ok = (r = None)] : r \in {None, "ssh"}}
MCRcmds  == {"ssh", "exec", "rsh"}
MCRank   == <<"mrsh", "rsh", "ssh", "exec">>
MCExpand == [h \in MCHost |-> IF h = 6 THEN <<2, 3>> ELSE <<h>>]
\* In the buffer there is room for the hosts of B, not for those of A.
MCFits(s) == Len(s) <= 8
=============================================================================
