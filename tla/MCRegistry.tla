----------------------------- MODULE MCRegistry -----------------------------
(* Eight files that replace each other, want each other's options, cannot be
   trusted or refuse a personality: 1 gives way to 2, 3 and 4 want b, 5 is an rcmd
   module without options, 6 has an option that only pdcp takes and fails to start,
   7 is writable by everyone, and 8 is a stronger 5 that only pdcp accepts.      *)
EXTENDS Registry

Opt(c, p) == [opt |-> c, personality |-> p]
Both == Personalities
Mod(t, n, r, p, o, s) == [type |-> t, name |-> n, priority |-> r, personality |-> p, opts |-> o,
                          starts |-> s, opens |-> TRUE, writable |-> FALSE, owner |-> "root"]

MCFiles  == 1..8
MCModule == <<
  Mod("misc", 1, 100, Both, {Opt("a", Both), Opt("b", Both)}, TRUE),
  Mod("misc", 1, 120, Both, {Opt("a", Both)}, TRUE),
  Mod("misc", 2, 100, Both, {Opt("b", Both), Opt("c", Both)}, TRUE),
  Mod("misc", 3, 110, Both, {Opt("b", Both), Opt("a", {"PCP"})}, TRUE),
  Mod("rcmd", 4, 100, {"DSH"}, {}, TRUE),
  Mod("misc", 5, 90, Both, {Opt("c", {"PCP"}), Opt("d", Both)}, FALSE),
  [Mod("misc", 6, 100, Both, {Opt("e", Both)}, TRUE) EXCEPT !.writable = TRUE],
  Mod("rcmd", 4, 120, {"PCP"}, {Opt("l", Both)}, TRUE)>>
MCLists   == {<<>>, <<2>>, <<3, 9>>, <<5, 2, 2>>}
Dir(k, w, s) == [isdir |-> k, owner |-> "root", writable |-> w, sticky |-> s]
MCDirs    == {[files |-> MCFiles, chain |-> <<Dir(TRUE, FALSE, FALSE), Dir(TRUE, TRUE, TRUE)>>],
              [files |-> {7, 8}, chain |-> <<Dir(TRUE, FALSE, FALSE)>>],
              [files |-> {1}, chain |-> <<Dir(TRUE, FALSE, FALSE), Dir(TRUE, TRUE, FALSE)>>]}
MCTrusted == {"root", "me"}
MCBuiltin == [p \in Personalities |-> IF p = "DSH" THEN {"l", "w"} ELSE {"c", "w"}]
============================================================================
