------------------------------- MODULE MCPcp -------------------------------
(***************************************************************************)
(* Finite instances of the copy protocol: a directory with a file and a    *)
(* subdirectory, and a file of the same name beside it.                    *)
(***************************************************************************)
EXTENDS PcpInvariant

Named == <<"x/d", "f">>
Tree == (<<"x/d">> :> <<"f", "e">>) @@ (<<"x/d", "e">> :> <<"g">>)
Sizes == (<<"x/d", "f">> :> 1) @@ (<<"x/d", "e", "g">> :> 0) @@ (<<"f">> :> 2)
Base == [n \in {"x/d", "e", "f", "g"} |-> IF n = "x/d" THEN "d" ELSE n]
WithHost == [n \in DOMAIN Base |-> Base[n] \o ".host"]
NoneHidden == {}

\* The hypothesis of the theorems of PcpProofs, for this tree.
ASSUME ListNested == Nested

Old(n) == Regular([k \in 1..n |-> Record("old", <<>>, k)])
Empty == <<>> :> Directory

\* An empty directory; one with a longer f, with d and with a file in d that has no
\* counterpart; one where a directory is in the way of d/f; a file.
Places == {Empty,
           Empty @@ (<<"f">> :> Old(3)) @@ (<<"d">> :> Directory)
                 @@ (<<"d", "x">> :> Old(1)),
           Empty @@ (<<"d">> :> Directory) @@ (<<"d", "f">> :> Directory),
           Empty @@ (<<"d">> :> Directory) @@ (<<"d", "e">> :> Old(1)),
           <<>> :> Old(1), <<>>}

Copy(preserve, reverse, faults) ==
  [preserve |-> preserve, reverse |-> reverse, faults |-> faults]

\* pdcp -p and rpdcp with the failures the protocol is built for, pdcp -p with all.
Robust == {Copy(TRUE, FALSE, Independent), Copy(FALSE, TRUE, Independent),
           Copy(TRUE, FALSE, FaultKinds)}
=============================================================================
