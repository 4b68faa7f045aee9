---------------------------- MODULE PcpInvariant ----------------------------
(***************************************************************************)
(* The inductive invariants behind the properties of Pcp: for InStep,      *)
(* OwnContent and DeliveredOrReported that the server is always in one of  *)
(* a few situations, each of which says what the client waits for and what *)
(* is under way while the connection stands; for SilenceMeansSuccess that  *)
(* a copy with any failure is in one of these, or bound to print an error, *)
(* or to wait for ever, as long as none has been printed.                  *)
(***************************************************************************)
EXTENDS Pcp

\* The directory whose contents the list gives at each position.
Walk[k \in 1..(Len(List) + 1)] ==
  IF k = 1 THEN <<>>
  ELSE IF List[k - 1] = ExitMark THEN Front(Walk[k - 1])
  ELSE IF List[k - 1].path \in Dirs THEN List[k - 1].path ELSE Walk[k - 1]

\* The list is nested: each entry is in the directory of its position, and each exit
\* mark leaves one.
Nested ==
  /\ List \in Seq([path : Paths \cup {<<>>}, user : BOOLEAN])
  /\ Walk \in [1..(Len(List) + 1) -> Dirs \cup {<<>>}]
  /\ Walk[1] = <<>> /\ Walk[Len(List) + 1] = <<>>
  /\ \A k \in 1..Len(List) :
       \/ List[k] = ExitMark /\ Walk[k] # <<>> /\ Walk[k + 1] = Front(Walk[k])
       \/ \E n \in Names :
            /\ List[k] = [path |-> Append(Walk[k], n), user |-> Walk[k] = <<>>]
            /\ List[k].path \in Paths
            /\ Walk[k + 1] = IF List[k].path \in Dirs THEN List[k].path ELSE Walk[k]

Spot(d) == IF d = <<>> THEN <<>> ELSE Site(d)
IsExit(j) == j \in DOMAIN List /\ List[j] = ExitMark
IsFile(j) == j \in DOMAIN List /\ List[j].path \in Files
MakesDir(j) == j \in DOMAIN List /\ List[j].path \in Dirs

\* The calls of _sink while the directory d of the source is filled; the last of them
\* may not have looked at its target yet.
Targeted(d) == /\ Len(stack) = Len(d) + 1
               /\ \A m \in 1..Len(stack) : stack[m].targ = SubSeq(Spot(d), 1, m - 1)
Levels(d) == Targeted(d) /\ \A m \in 1..Len(stack) : stack[m].isdir = (m > 1 \/ WasDir)
Entering(d) == /\ Targeted(d)
               /\ \A m \in 1..(Len(stack) - 1) : stack[m].isdir = (m > 1 \/ WasDir)

\* What the client may send at position j, and what it does then.
Requests(j) == IF ~(j \in DOMAIN List) THEN {} ELSE IF IsExit(j) THEN {Plain("E")}
               ELSE {Plain("T"), Control(List[j])}
Waits(r) ==
  cpc = (CASE r.kind = "E" -> "exit" [] r.kind = "T" -> "times" [] OTHER -> "control")

\* The file of position j is at hand.
Receiving(j) ==
  /\ IsFile(j) /\ Levels(Walk[j])
  /\ file.path = Site(List[j].path) /\ file.size = Size[List[j].path]
  /\ file.path \in DOMAIN dst /\ dst[file.path].kind = "file"

\* The server's situations.
Starting ==
  /\ spc = "enter" /\ Entering(<<>>) /\ c2s = <<>> /\ dst = dst0
  /\ up => i = 0 /\ cpc \in {"expand", "greet", "died"} /\ s2c = <<>>
Awaited(j) ==
  \/ i = 0 /\ j = 1 /\ cpc \in {"expand", "greet"} /\ s2c = <<"ok">>
  \/ i = j /\ cpc = "next" /\ s2c = <<>>
  \/ i = j /\ cpc = "times" /\ s2c = <<"ok">> /\ j \in DOMAIN List /\ ~IsExit(j)
  \/ i = j /\ cpc = "control" /\ s2c = <<"err">> /\ IsFile(j)
  \/ i = j /\ cpc = "ack" /\ s2c = <<"err">> /\ IsFile(j)
  \/ i = j /\ cpc = "ack" /\ s2c = <<"ok">> /\ IsFile(j) /\ Delivered(List[j].path)
  \/ i = j - 1 /\ cpc = "exit" /\ s2c = <<"ok">> /\ IsExit(i)
  \/ i = j - 1 /\ cpc = "control" /\ s2c = <<"ok">> /\ MakesDir(i)
Idle(j) == spc = "read" /\ Levels(Walk[j]) /\ c2s = <<>> /\ (up => Awaited(j))
Requested(j) ==
  /\ spc = "read" /\ Levels(Walk[j])
  /\ \E r \in Requests(j) : c2s = <<r>> /\ (up => i = j /\ s2c = <<>> /\ Waits(r))
Making(j) ==
  /\ spc = "enter" /\ MakesDir(j - 1) /\ Entering(Walk[j]) /\ c2s = <<>>
  /\ IsDir(Spot(Walk[j]))
  /\ up => i = j - 1 /\ cpc = "control" /\ s2c = <<>>
Storing(j) ==
  LET p == List[j].path  left == file.size - file.got IN
  /\ spc = "data" /\ Receiving(j) /\ file.wrerr # "displayed"
  /\ file.wrerr = "no" => /\ file.got <= Len(dst[file.path].data)
                          /\ \A k \in 1..file.got : dst[file.path].data[k] = DataCell(p, k)
  /\ Len(c2s) <= left + 1
  /\ \A k \in 1..Len(c2s) :
       c2s[k] = IF k <= left THEN DataCell(p, file.got + k) ELSE Plain("nul")
  /\ up => /\ i = j
           /\ \/ file.got = 0 /\ c2s = <<>> /\ cpc = "control" /\ s2c = <<"ok">>
              \/ file.got = 0 /\ c2s = <<>> /\ cpc = "open" /\ s2c = <<>>
              \/ Len(c2s) = left + 1 /\ cpc = "ack" /\ s2c = <<>>
Late == IF file.wrerr = "displayed" THEN <<"err">> ELSE <<>>
Closing(j) ==
  /\ spc = "response" /\ Receiving(j) /\ (file.wrerr = "no" => Delivered(List[j].path))
  /\ \/ /\ c2s = <<>>
        /\ up => /\ i = j /\ file.size = 0
                 /\ \/ cpc = "control" /\ s2c = <<"ok">> \o Late
                    \/ cpc = "open" /\ s2c = Late
     \/ c2s = <<Plain("nul")>> /\ (up => i = j /\ cpc = "ack" /\ s2c = Late)
     \* The client has the error already, and has gone on.
     \/ /\ file.wrerr = "displayed"
        /\ \E k \in (j + 1)..(Len(List) + 1) :
             /\ Walk[k] = Walk[j]
             /\ \/ /\ c2s = <<Plain("nul")>>
                   /\ up => /\ i = k /\ s2c = <<>> /\ cpc \in {"next", "done"}
                            /\ cpc = "done" => k = Len(List) + 1
                \/ \E r \in Requests(k) :
                     c2s = <<Plain("nul"), r>> /\ (up => i = k /\ s2c = <<>> /\ Waits(r))
Over == spc = "read" /\ c2s = <<>> /\ ClientGone
Gone == spc = "done" /\ (up => \/ cpc \in {"done", "died"}
                               \/ i = 0 /\ cpc \in {"expand", "greet"} /\ s2c = <<"err">>)

Together ==
  \/ Starting \/ Over \/ Gone
  \/ /\ WasDir \/ Len(List) <= 1     \* without a directory to put them in, one file
     /\ \E j \in 1..(Len(List) + 1) :
          Idle(j) \/ Requested(j) \/ Making(j) \/ Storing(j) \/ Closing(j)

\* No file gets into the place of a directory.
DirsClear == /\ WasDir => IsDir(<<>>)
             /\ \A d \in Dirs : Site(d) \in DOMAIN dst \ {<<>>} => IsDir(Site(d))
\* Where the client is in the list.
Placed ==
  /\ cpc \in {"expand", "greet"} => i = 0
  /\ cpc = "next" => i > 0
  /\ cpc \in {"exit", "times", "control", "open", "ack"} => i \in 1..Len(List)
  /\ cpc \in {"times", "control", "open", "ack"} => List[i] # ExitMark
  /\ cpc \in {"open", "ack"} => IsFile(i)
  /\ cpc \notin {"expand", "died"} => Checked \cap Unreadable = {}
  /\ spc \in {"data", "response"} =>
       file.path \in DOMAIN dst /\ dst[file.path].kind = "file"
  /\ mode.reverse => WasDir
\* The client's account of the files behind it.
Accounted ==
  /\ up => \A k \in FileEntries : k < i => Delivered(List[k].path) \/ told \cap {0, k} # {}
  /\ up /\ cpc \in {"done", "died"} => i = Len(List) + 1 \/ 0 \in told
\* As many directories entered as left, but for those of its position.
Counted == i > 0 => Depth = Len(Walk[i])

\* What becomes of a copy with a failure the protocol is not built for, before anything
\* is printed.  An error is under way that the client takes for its next answer, at the
\* latest when it has sent the data of a file;
Waiting == {"expand", "greet", "exit", "times", "control", "open", "ack"}
Doomed ==
  \/ s2c # <<>> /\ Head(s2c) = "err" /\ cpc \in Waiting
  \/ cpc = "control" /\ IsFile(i) /\ Len(s2c) >= 2 /\ s2c[1] = "ok" /\ s2c[2] = "err"
\* or a file was not as long as announced, and the client waits while the mark at the
\* end of the data is not where the server will look for it;
Owed == IF spc = "data" THEN file.size - file.got ELSE 0
Stuck == /\ cpc = "ack" /\ s2c = <<>> /\ spc \in {"data", "response"}
         /\ Len(c2s) <= Owed \/ c2s[Owed + 1].kind # "nul"
\* or the times of a directory that is left could not be set: one answer too many.
Extra ==
  /\ spc = "read" /\ c2s = <<>> /\ (WasDir \/ Len(List) <= 1)
  /\ \E j \in 1..(Len(List) + 1) :
       /\ Levels(Walk[j])
       /\ \/ i = j - 1 /\ cpc = "exit" /\ s2c = <<"ok", "err">> /\ IsExit(i)
          \/ i = j /\ cpc = "next" /\ s2c = <<"err">>
Silent == up /\ told = {} => Doomed \/ Stuck \/ (Accounted /\ (Together \/ Extra))

\* The calls of _sink, with those the D records under way will make, are no more than
\* the directories the client has sent.
Sending == {k \in DOMAIN List : MakesDir(k) /\ (k < i \/ (k = i /\ cpc = "control"))}
UnderWay == {k \in DOMAIN c2s : c2s[k].kind = "D"}
Bounded == Len(stack) + Cardinality(UnderWay) <= Cardinality(Sending) + 1

SilentInv == TypeOK /\ Placed /\ Silent /\ Bounded
CopyInv == /\ TypeOK /\ Placed /\ Counted
           /\ Sound => Together /\ DirsClear /\ OwnContent /\ Accounted

=============================================================================
