----------------------------- MODULE PcpProofs -----------------------------
(***************************************************************************)
(* The invariant of the copy protocol, for every tree, list of names and   *)
(* kind of copy: the two sides stay in step, no file's data lands in       *)
(* another's, and every file is stored or its failure printed, with the    *)
(* independent failures Sound admits.                                      *)
(*                                                                         *)
(* CopyInv says in which situation the server is, and what the client then *)
(* waits for (PcpInvariant).  The proof goes through it action by action:  *)
(* types first, then the names and the levels of _sink, the client's       *)
(* actions, the server's, and what the server does to the tree.            *)
(* SilentInv says what happens with every failure as long as no error was  *)
(* printed: the last part of the proof rests on the same lemmas, and on    *)
(* the count of the directories the client has sent.                       *)
(*                                                                         *)
(* Nested, the hypothesis of the theorems, says of the constant List that  *)
(* each directory is followed by its contents and an exit mark.  It is a   *)
(* fact about the recursive RexpandDir, whose proof needs induction over   *)
(* the tree; MCPcp has TLC evaluate it for the tree of the run.            *)
(***************************************************************************)
EXTENDS PcpInvariant, FiniteSetTheorems, SequenceTheorems, TLAPS

-----------------------------------------------------------------------------
(* Sequences, levels and cells.                                            *)

\* A sequence without its last element.
LEMMA FrontOf ==
  ASSUME NEW R, NEW s \in Seq(R), Len(s) >= 1
  PROVE  /\ Front(s) \in Seq(R) /\ Len(Front(s)) = Len(s) - 1
         /\ \A k \in 1..(Len(s) - 1) : Front(s)[k] = s[k]
<1>1. \A i_1 \in 1..(Len(s) - 1) : s[i_1] \in R
  OBVIOUS
<1> DEFINE n == Len(s) - 1
<1>2. n \in Nat /\ 1 \in Int /\ n \in Int /\ \A k \in 1..n : 1 + k - 1 = k
  OBVIOUS
<1> HIDE DEF n
<1>3. /\ SubSeq(s, 1, n) \in Seq(R)
      /\ Len(SubSeq(s, 1, n)) = IF 1 <= n THEN n - 1 + 1 ELSE 0
      /\ \A k \in 1 .. n - 1 + 1 : SubSeq(s, 1, n)[k] = s[1 + k - 1]
  BY <1>1, <1>2, SubSeqProperties DEF n
<1>4. Len(SubSeq(s, 1, n)) = n /\ \A k \in 1..n : SubSeq(s, 1, n)[k] = s[k]
  BY <1>2, <1>3
<1>5. Front(s) = SubSeq(s, 1, n)
  BY DEF Front, n
<1> QED
  BY <1>3, <1>4, <1>5 DEF n

\* The call of _sink that runs.
LEMMA HereFacts ==
  ASSUME TypeOK, stack # <<>>
  PROVE  Len(stack) \in Nat \ {0} /\ Here = stack[Len(stack)] /\ Here \in Calls
<1>1. stack \in Seq(Calls)
  BY DEF TypeOK
<1>2. Len(stack) \in Nat \ {0} /\ stack[Len(stack)] \in Calls
  BY <1>1
<1> QED
  BY <1>2 DEF Here, Last

\* Its locals change.
LEMMA SetHereFacts ==
  ASSUME TypeOK, stack # <<>>, NEW level \in Calls, SetHere(level)
  PROVE  /\ stack' \in Seq(Calls) /\ Len(stack') = Len(stack) /\ stack' # <<>>
         /\ \A m \in 1..Len(stack) : stack'[m] = IF m = Len(stack) THEN level ELSE stack[m]
<1>1. stack \in Seq(Calls) /\ Len(stack) \in Nat \ {0} /\ Len(stack) >= 1
  BY HereFacts DEF TypeOK
<1>2. /\ Front(stack) \in Seq(Calls) /\ Len(Front(stack)) = Len(stack) - 1
      /\ \A k \in 1..(Len(stack) - 1) : Front(stack)[k] = stack[k]
  BY <1>1, FrontOf
<1>3. stack' = Append(Front(stack), level)
  BY DEF SetHere
<1> HIDE DEF Front
<1>4. /\ stack' \in Seq(Calls) /\ Len(stack') = Len(stack) - 1 + 1
      /\ \A m \in 1..(Len(stack) - 1) : stack'[m] = Front(stack)[m]
      /\ stack'[Len(stack) - 1 + 1] = level
  BY <1>2, <1>3
<1>5. Len(stack') = Len(stack) /\ stack'[Len(stack)] = level
  BY <1>1, <1>4
<1> QED
  BY <1>1, <1>2, <1>4, <1>5

\* _sink returns to its caller.
LEMMA ReturnFacts ==
  ASSUME TypeOK, stack # <<>>, NEW a \in Seq({"ok", "err"}), Return(a)
  PROVE  /\ stack' \in Seq(Calls) /\ s2c' \in Seq({"ok", "err"})
         /\ Len(stack) = 1 => stack' = <<>> /\ spc' = "done"
         /\ Len(stack) # 1 =>
              /\ Len(stack) > 1 /\ spc' = "read" /\ Len(stack') = Len(stack) - 1 /\ stack' # <<>>
              /\ \A m \in 1..(Len(stack) - 1) :
                   stack'[m].targ = stack[m].targ /\ stack'[m].isdir = stack[m].isdir
<1>1. stack \in Seq(Calls) /\ Len(stack) \in Nat \ {0} /\ Len(stack) >= 1
  BY HereFacts DEF TypeOK
<1>2. s2c' \in Seq({"ok", "err"})
  <2>1. <<"err">> \in Seq({"ok", "err"}) /\ s2c \in Seq({"ok", "err"})
    BY DEF TypeOK
  <2>2. a \o <<"err">> \in Seq({"ok", "err"})
    BY <2>1
  <2>3. s2c \o a \in Seq({"ok", "err"}) /\ s2c \o (a \o <<"err">>) \in Seq({"ok", "err"})
    BY <2>1, <2>2
  <2> QED
    BY <2>1, <2>3 DEF Return, Answer
<1>3. CASE Len(stack) = 1
  <2>1. stack' = <<>> /\ spc' = "done"
    BY <1>3 DEF Return
  <2> QED
    BY <1>2, <1>3, <2>1
<1>4. CASE Len(stack) # 1
  <2>1. stack' = [Front(stack) EXCEPT ![Len(stack) - 1].setimes = FALSE] /\ spc' = "read"
    BY <1>4 DEF Return
  <2>2. Len(stack) > 1
    <3>1. \A n \in Nat \ {0} : n # 1 => n > 1
      OBVIOUS
    <3> QED
      BY <1>1, <1>4, <3>1
  <2>3. PICK f \in Seq(Calls) : /\ f = Front(stack) /\ Len(f) = Len(stack) - 1
                                /\ \A k \in 1..(Len(stack) - 1) : f[k] = stack[k]
    BY <1>1, FrontOf
  <2>4. stack' = [f EXCEPT ![Len(stack) - 1] = [f[Len(stack) - 1] EXCEPT !.setimes = FALSE]]
    BY <2>1, <2>3
  <2>5. PICK l : l = Len(stack) - 1
    OBVIOUS
  <2>6. l \in Nat \ {0} /\ Len(f) = l /\ l \in 1..Len(f)
    BY <1>1, <2>2, <2>3, <2>5
  <2>7. PICK c \in Calls : c = f[l]
    BY <2>6
  <2>8. PICK e : e = [c EXCEPT !.setimes = FALSE]
    OBVIOUS
  <2>9. e \in Calls
    BY <2>7, <2>8 DEF Calls
  <2>10. e.targ = c.targ
    BY <2>7, <2>8 DEF Calls
  <2>11. e.isdir = c.isdir
    BY <2>7, <2>8 DEF Calls
  <2>12. stack' = [f EXCEPT ![l] = e]
    BY <2>4, <2>5, <2>7, <2>8
  <2>13. /\ stack' \in Seq(Calls) /\ Len(stack') = l /\ stack' # <<>>
         /\ \A m \in 1..l : stack'[m] = IF m = l THEN e ELSE f[m]
    BY <2>6, <2>9, <2>12
  <2>14. \A m \in 1..l : stack'[m].targ = stack[m].targ /\ stack'[m].isdir = stack[m].isdir
    BY <2>3, <2>5, <2>7, <2>10, <2>11, <2>13
  <2> QED
    BY <1>2, <2>1, <2>2, <2>5, <2>13, <2>14
<1> QED
  BY <1>1, <1>3, <1>4

\* The records and cells that the client sends.
LEMMA CellFacts ==
  ASSUME Nested
  PROVE  /\ \A k \in Controls \cup {"nul", "hole", "tail"} : Plain(k) \in Cells
         /\ \A p \in Paths, k \in Nat : DataCell(p, k) \in Cells
         /\ \A j \in 1..Len(List) : List[j] # ExitMark =>
              /\ Control(List[j]) \in Cells /\ List[j].path \in Paths
              /\ Control(List[j]).kind = IF List[j].path \in Dirs THEN "D" ELSE "C"
              /\ List[j].path \notin Dirs => List[j].path \in Files /\ Control(List[j]).size = Size[List[j].path]
              /\ Control(List[j]).name = SentName(List[j]) /\ SentName(List[j]) \in Seq(Pieces)
<1>1. \A k \in Controls \cup {"nul", "hole", "tail"} : Plain(k) \in Cells
  BY DEF Plain, Record, Cells
<1>2. Paths \subseteq Seq(Names) /\ Names \subseteq Pieces
  BY PcpAssumption DEF Pieces
<1>3. \A p \in Paths : p \in Seq(Pieces)
  BY <1>2
<1>4. \A p \in Paths, k \in Nat : DataCell(p, k) \in Cells
  BY <1>3 DEF DataCell, Record, Cells
<1>5. ASSUME NEW j \in 1..Len(List), List[j] # ExitMark
      PROVE  /\ Control(List[j]) \in Cells /\ List[j].path \in Paths
             /\ Control(List[j]).kind = IF List[j].path \in Dirs THEN "D" ELSE "C"
             /\ List[j].path \notin Dirs => List[j].path \in Files /\ Control(List[j]).size = Size[List[j].path]
             /\ Control(List[j]).name = SentName(List[j]) /\ SentName(List[j]) \in Seq(Pieces)
  <2>1. PICK n \in Names :
            /\ List[j] = [path |-> Append(Walk[j], n), user |-> Walk[j] = <<>>]
            /\ List[j].path \in Paths
    BY <1>5 DEF Nested
  <2>2. /\ List[j].path \in Seq(Names) /\ List[j].path # <<>>
    <3>1. Len(List) \in Nat /\ Walk \in [1..(Len(List) + 1) -> Dirs \cup {<<>>}]
      BY DEF Nested
    <3>2. Walk[j] \in Dirs \cup {<<>>}
      BY <3>1
    <3>3. Walk[j] \in Seq(Names)
      <4>1. <<>> \in Seq(Names)
        OBVIOUS
      <4> QED
        BY <1>2, <3>2, <4>1 DEF Paths
    <3>4. Append(Walk[j], n) # <<>>
      BY <3>3
    <3>5. List[j].path = Append(Walk[j], n)
      BY <2>1
    <3> QED
      BY <1>2, <2>1, <3>4, <3>5
  <2>3. Last(List[j].path) \in Names
    BY <2>2 DEF Last
  <2>4. SentName(List[j]) \in Seq(Pieces)
    <3>1. ASSUME NEW x \in Pieces PROVE <<x>> \in Seq(Pieces)
      BY <3>1
    <3>2. SentFor(Last(List[j].path)) \in Pieces /\ Last(List[j].path) \in Pieces
      BY <2>3 DEF Pieces, SentFor
    <3> QED
      BY <3>1, <3>2 DEF SentName
  <2>5. List[j].path \notin Dirs => List[j].path \in Files /\ Size[List[j].path] \in Nat
    BY <2>1, PcpAssumption DEF Paths
  <2> QED
    BY <2>1, <2>4, <2>5 DEF Control, Record, Cells, Controls
<1> QED
  BY <1>1, <1>4, <1>5

\* A node is put into the destination.
LEMMA PlaceFacts ==
  ASSUME NEW path, NEW node, Place(path, node)
  PROVE  /\ DOMAIN dst' = DOMAIN dst \cup {path} /\ dst'[path] = node
         /\ \A p \in DOMAIN dst : p # path => dst'[p] = dst[p]
BY DEF Place

-----------------------------------------------------------------------------
(* Types.                                                                  *)

\* What a response leaves.
LEMMA ResponseFacts ==
  ASSUME TypeOK, ResponseOk \/ ResponseFails
  PROVE  s2c' \in Seq({"ok", "err"}) /\ told' \in {told, told \cup {i}}
<1>1. s2c \in Seq({"ok", "err"})
  BY DEF TypeOK
<1>2. s2c # <<>> => Tail(s2c) \in Seq({"ok", "err"})
  BY <1>1
<1> QED
  BY <1>1, <1>2 DEF ResponseOk, ResponseFails

\* What a record sent leaves.
LEMMA SendFacts ==
  ASSUME TypeOK, NEW r \in Cells, NEW p, Send(r, p)
  PROVE  /\ c2s' \in Seq(Cells)
         /\ \/ cpc' = "next" /\ i' = i + 1
            \/ cpc' = p /\ i' = i
<1>1. c2s \in Seq(Cells) /\ Append(c2s, r) \in Seq(Cells)
  BY DEF TypeOK
<1> QED
  BY <1>1 DEF Send, Advance

\* The type of the client's part, and its place in the list.
ClientOK ==
  /\ cpc \in {"expand", "greet", "next", "exit", "times", "control", "open", "ack",
              "done", "died"}
  /\ i \in 0..(Len(List) + 1) /\ told \subseteq 0..Len(List)
  /\ c2s \in Seq(Cells) /\ s2c \in Seq({"ok", "err"})
  /\ cpc \in {"expand", "greet"} => i = 0
  /\ cpc = "next" => i > 0
  /\ cpc \in {"exit", "times", "control", "open", "ack"} => i \in 1..Len(List)
  /\ cpc \in {"times", "control", "open", "ack"} => List[i] # ExitMark
  /\ cpc \in {"open", "ack"} => IsFile(i)
  /\ cpc \notin {"expand", "died"} => Checked \cap Unreadable = {}

\* Every step of the client keeps them.
LEMMA ClientTypes ==
  ASSUME Nested, TypeOK, ClientOK, Client
  PROVE  ClientOK'
<1>1. Len(List) \in Nat /\ DOMAIN List = 1..Len(List)
  BY DEF Nested
<1>2. i \in Nat /\ i \in 0..(Len(List) + 1) /\ told \subseteq 0..Len(List)
      /\ c2s \in Seq(Cells) /\ s2c \in Seq({"ok", "err"})
  BY <1>1 DEF ClientOK
<1>3. ASSUME NEW t, t \in {told, told \cup {i}}, i \in 0..Len(List) PROVE t \subseteq 0..Len(List)
  BY <1>2, <1>3
<1>4. CASE Expand
  <2>1. told' \subseteq 0..Len(List) /\ cpc' \in {"greet", "died"} /\ i' = i /\ c2s' = c2s /\ s2c' = s2c
        /\ (cpc' = "greet" => Checked \cap Unreadable = {}) /\ i = 0
    BY <1>1, <1>4 DEF Expand, ClientOK
  <2> QED
    BY <1>1, <1>2, <2>1 DEF ClientOK
<1>5. CASE Greeted
  <2>1. i = 0 /\ c2s' = c2s /\ Checked \cap Unreadable = {} /\ (ResponseOk \/ ResponseFails)
        /\ ((cpc' = "next" /\ i' = 1) \/ (cpc' = "done" /\ i' = 0))
    BY <1>5 DEF Greeted, ClientOK
  <2>2. s2c' \in Seq({"ok", "err"}) /\ told' \subseteq 0..Len(List)
    BY <1>1, <1>3, <2>1, ResponseFacts
  <2> QED
    BY <1>1, <1>2, <2>1, <2>2 DEF ClientOK
<1>6. CASE Finish
  BY <1>1, <1>2, <1>6 DEF Finish, ClientOK
<1>7. CASE SendExit
  <2>1. i \in 1..Len(List) /\ Checked \cap Unreadable = {} /\ i' = i /\ s2c' = s2c
    BY <1>1, <1>7 DEF SendExit, ClientOK
  <2>2. cpc' \in {"died", "exit"} /\ c2s' \in {c2s, Append(c2s, Plain("E"))}
    BY <1>7 DEF SendExit
  <2>3. told' \in {told, told \cup {i}}
    BY <1>7 DEF SendExit
  <2>4. c2s' \in Seq(Cells)
    BY <1>2, <2>2, CellFacts DEF Controls
  <2>5. told' \subseteq 0..Len(List)
    BY <1>1, <1>3, <2>1, <2>3
  <2> QED
    BY <1>1, <1>2, <2>1, <2>2, <2>4, <2>5 DEF ClientOK
<1>8. CASE Exited
  <2>1. i \in 1..Len(List) /\ Checked \cap Unreadable = {} /\ c2s' = c2s
        /\ ((i' = i + 1 /\ cpc' = "next") \/ (i' = i /\ cpc' = "died"))
        /\ told' \in {told, told \cup {i}} /\ (s2c' = s2c \/ (s2c # <<>> /\ s2c' = Tail(s2c)))
    BY <1>1, <1>8 DEF Exited, ClientOK, ResponseOk, Advance
  <2>2. told' \subseteq 0..Len(List)
    BY <1>1, <1>2, <1>3, <2>1
  <2>3. s2c # <<>> => Tail(s2c) \in Seq({"ok", "err"})
    BY <1>2
  <2>4. s2c' \in Seq({"ok", "err"})
    BY <1>2, <2>1, <2>3
  <2> QED
    BY <1>1, <1>2, <2>1, <2>2, <2>4 DEF ClientOK
<1>9. CASE SendFile
  <2>1. i \in 1..Len(List) /\ List[i] # ExitMark /\ Checked \cap Unreadable = {} /\ s2c' = s2c
        /\ told' \in {told, told \cup {i}}
    BY <1>1, <1>9 DEF SendFile, ClientOK
  <2>2. c2s' \in Seq(Cells) /\ ((cpc' = "next" /\ i' = i + 1) \/ (cpc' \in {"times", "control"} /\ i' = i))
    <3>1. Plain("T") \in Cells /\ Control(List[i]) \in Cells
      BY <1>1, <2>1, CellFacts DEF Controls
    <3> QED
      BY <1>2, <1>9, <3>1, SendFacts DEF SendFile, SendControl, Advance
  <2>3. told' \subseteq 0..Len(List)
    BY <1>1, <1>3, <2>1
  <2> QED
    BY <1>1, <1>2, <2>1, <2>2, <2>3 DEF ClientOK
<1>10. CASE TimesAnswered
  <2>1. i \in 1..Len(List) /\ List[i] # ExitMark /\ Checked \cap Unreadable = {} /\ (ResponseOk \/ ResponseFails)
    BY <1>1, <1>10 DEF TimesAnswered, ClientOK
  <2>2. c2s' \in Seq(Cells) /\ ((cpc' = "next" /\ i' = i + 1) \/ (cpc' = "control" /\ i' = i))
    <3>1. Control(List[i]) \in Cells
      BY <1>1, <2>1, CellFacts
    <3> QED
      BY <1>2, <1>10, <3>1, SendFacts DEF TimesAnswered, SendControl, Advance
  <2>3. s2c' \in Seq({"ok", "err"}) /\ told' \subseteq 0..Len(List)
    BY <1>1, <1>3, <2>1, ResponseFacts
  <2> QED
    BY <1>1, <1>2, <2>1, <2>2, <2>3 DEF ClientOK
<1>11. CASE ControlAnswered
  <2>1. i \in 1..Len(List) /\ List[i] # ExitMark /\ Checked \cap Unreadable = {} /\ (ResponseOk \/ ResponseFails)
        /\ c2s' = c2s
        /\ ((cpc' = "next" /\ i' = i + 1) \/ (cpc' = "open" /\ i' = i /\ List[i].path \notin Dirs))
    BY <1>1, <1>11 DEF ControlAnswered, ClientOK, Advance
  <2>2. List[i].path \notin Dirs => IsFile(i)
    BY <1>1, <2>1, CellFacts DEF IsFile
  <2>3. s2c' \in Seq({"ok", "err"}) /\ told' \subseteq 0..Len(List)
    BY <1>1, <1>3, <2>1, ResponseFacts
  <2>4. cpc' = "open" => IsFile(i')
    BY <2>1, <2>2
  <2> QED
    BY <1>1, <1>2, <2>1, <2>3, <2>4 DEF ClientOK, IsFile
<1>12. CASE SendData
  <2>1. i \in 1..Len(List) /\ List[i] # ExitMark /\ Checked \cap Unreadable = {} /\ s2c' = s2c /\ IsFile(i)
        /\ told' \in {told, told \cup {i}}
        /\ ((cpc' = "next" /\ i' = i + 1) \/ (cpc' = "ack" /\ i' = i))
    BY <1>1, <1>12 DEF SendData, ClientOK, Advance
  <2>2. c2s' \in Seq(Cells)
    <3> DEFINE cells(n) == [k \in 1..n |-> DataCell(List[i].path, k)]
    <3>1. List[i].path \in Paths /\ Size[List[i].path] \in Nat
      BY <2>1, PcpAssumption DEF IsFile, Paths
    <3>2. \A n \in Nat : cells(n) \in Seq(Cells)
      BY <3>1, CellFacts
    <3>3. <<Plain("nul")>> \in Seq(Cells)
      BY CellFacts
    <3>4. \A n \in Nat : c2s \o cells(n) \o <<Plain("nul")>> \in Seq(Cells)
      <4> HIDE DEF cells
      <4> QED
        BY <1>2, <3>2, <3>3
    <3>5. \A n \in Lengths(Size[List[i].path]) : n \in Nat
      BY <3>1 DEF Lengths
    <3>6. \A n \in Nat : c2s \o cells(n) \in Seq(Cells)
      <4> HIDE DEF cells
      <4> QED
        BY <1>2, <3>2
    <3>7. \A n \in 0..Size[List[i].path] : n \in Nat
      BY <3>1
    <3>8. \/ c2s' = c2s
          \/ \E n \in 0..Size[List[i].path] : c2s' = c2s \o cells(n)
          \/ \E n \in Lengths(Size[List[i].path]) : c2s' = c2s \o cells(n) \o <<Plain("nul")>>
      BY <1>12 DEF SendData, Data
    <3> HIDE DEF cells
    <3> QED
      BY <1>2, <3>4, <3>5, <3>6, <3>7, <3>8
  <2>3. told' \subseteq 0..Len(List)
    BY <1>1, <1>3, <2>1
  <2>4. cpc' = "ack" => IsFile(i')
    BY <2>1
  <2> QED
    BY <1>1, <1>2, <2>1, <2>2, <2>3, <2>4 DEF ClientOK, IsFile
<1>13. CASE Acknowledged
  <2>1. i \in 1..Len(List) /\ Checked \cap Unreadable = {} /\ (ResponseOk \/ ResponseFails)
        /\ c2s' = c2s /\ cpc' = "next" /\ i' = i + 1
    BY <1>1, <1>13 DEF Acknowledged, ClientOK, Advance
  <2>2. s2c' \in Seq({"ok", "err"}) /\ told' \subseteq 0..Len(List)
    BY <1>1, <1>3, <2>1, ResponseFacts
  <2> QED
    BY <1>1, <1>2, <2>1, <2>2 DEF ClientOK
<1> QED
  BY <1>4, <1>5, <1>6, <1>7, <1>8, <1>9, <1>10, <1>11, <1>12, <1>13 DEF Client

\* The type of the server's part.
ServerOK ==
  /\ c2s \in Seq(Cells) /\ s2c \in Seq({"ok", "err"})
  /\ spc \in {"enter", "read", "data", "response", "done"}
  /\ stack \in Seq(Calls) /\ (spc = "done") = (stack = <<>>)
  /\ file \in [path : Seq(Pieces), size : Nat, got : Nat, wrerr : Wrerr] /\ file.got <= file.size
  /\ \A p \in DOMAIN dst : dst[p] \in Nodes
  /\ spc \in {"data", "response"} => file.path \in DOMAIN dst /\ dst[file.path].kind = "file"

\* Its responses.
LEMMA AnswerFacts ==
  ASSUME TypeOK, NEW a \in Seq({"ok", "err"}), Answer(a)
  PROVE  s2c' \in Seq({"ok", "err"})
<1>1. s2c \in Seq({"ok", "err"}) /\ s2c \o a \in Seq({"ok", "err"})
  BY DEF TypeOK
<1> QED
  BY <1>1 DEF Answer
\* The same for a single answer.
LEMMA RespondFacts ==
  ASSUME TypeOK, NEW a \in {"ok", "err"}, Respond(a)
  PROVE  s2c' \in Seq({"ok", "err"})
<1>1. <<a>> \in Seq({"ok", "err"})
  OBVIOUS
<1> QED
  BY <1>1, AnswerFacts DEF Respond

\* The rest of the stream.
LEMMA RestFacts ==
  ASSUME NEW c \in Seq(Cells), c # <<>>
  PROVE  /\ Head(c) \in Cells /\ Tail(c) \in Seq(Cells) /\ Len(c) \in Nat \ {0}
         /\ Len(Tail(c)) = Len(c) - 1 /\ \A k \in 1..(Len(c) - 1) : Tail(c)[k] = c[k + 1]
         /\ Head(c) = c[1]
OBVIOUS

\* Locals of the call that runs.
LEMMA CallFacts ==
  ASSUME NEW c \in Calls, NEW b \in BOOLEAN
  PROVE  /\ [c EXCEPT !.isdir = b] \in Calls /\ [c EXCEPT !.setimes = b] \in Calls
         /\ [c EXCEPT !.isdir = b].targ = c.targ /\ [c EXCEPT !.isdir = b].isdir = b
         /\ [c EXCEPT !.setimes = b].targ = c.targ /\ [c EXCEPT !.setimes = b].isdir = c.isdir
<1>1. PICK d : d = [c EXCEPT !.isdir = b]
  OBVIOUS
<1>2. d \in Calls
  BY <1>1 DEF Calls
<1>3. d.targ = c.targ
  BY <1>1 DEF Calls
<1>4. d.isdir = b
  BY <1>1 DEF Calls
<1>5. PICK e : e = [c EXCEPT !.setimes = b]
  OBVIOUS
<1>6. e \in Calls
  BY <1>5 DEF Calls
<1>7. e.targ = c.targ
  BY <1>5 DEF Calls
<1>8. e.isdir = c.isdir
  BY <1>5 DEF Calls
<1> QED
  BY <1>1, <1>2, <1>3, <1>4, <1>5, <1>6, <1>7, <1>8

\* Nodes of the destination.
LEMMA NodeFacts ==
  /\ Directory \in Nodes
  /\ \A s \in Seq(Cells) : Regular(s) \in Nodes /\ Regular(s).kind = "file" /\ Regular(s).data = s
BY DEF Directory, Regular, Nodes

\* A cell written.
LEMMA OverwriteFacts ==
  ASSUME NEW s \in Seq(Cells), NEW c \in Cells, NEW k \in Nat \ {0}
  PROVE  /\ Overwrite(s, k, c) \in Seq(Cells)
         /\ k <= Len(s) + 1 => /\ k <= Len(Overwrite(s, k, c)) /\ Overwrite(s, k, c)[k] = c
                               /\ \A m \in 1..(k - 1) : m \in 1..Len(s) /\ Overwrite(s, k, c)[m] = s[m]
         /\ \A m \in DOMAIN Overwrite(s, k, c) :
              \/ m \in DOMAIN s /\ Overwrite(s, k, c)[m] = s[m]
              \/ (m = k \/ k > Len(s) + 1) /\ Overwrite(s, k, c)[m] = c
<1>1. CASE k \in DOMAIN s
  <2>1. PICK o : o = [s EXCEPT ![k] = c]
    OBVIOUS
  <2>2. o \in Seq(Cells) /\ Len(o) = Len(s) /\ \A m \in 1..Len(s) : o[m] = IF m = k THEN c ELSE s[m]
    BY <1>1, <2>1
  <2>3. Overwrite(s, k, c) = o
    BY <1>1, <2>1 DEF Overwrite
  <2> QED
    BY <1>1, <2>2, <2>3
<1>2. CASE k \notin DOMAIN s
  <2>1. PICK o : o = Append(s, c)
    OBVIOUS
  <2>2. o \in Seq(Cells) /\ Len(o) = Len(s) + 1 /\ o[Len(s) + 1] = c /\ \A m \in 1..Len(s) : o[m] = s[m]
    BY <2>1
  <2>3. Overwrite(s, k, c) = o
    BY <1>2, <2>1 DEF Overwrite
  <2>4. k > Len(s)
    BY <1>2
  <2> QED
    BY <2>2, <2>3, <2>4
<1> QED
  BY <1>1, <1>2

\* A file brought to its size.
LEMMA ResizedFacts ==
  ASSUME Nested, NEW s \in Seq(Cells), NEW n \in Nat
  PROVE  /\ Resized(s, n) \in Seq(Cells) /\ Len(Resized(s, n)) = n
         /\ \A m \in 1..n : Resized(s, n)[m] = IF m \in DOMAIN s THEN s[m] ELSE Hole
<1>1. Hole \in Cells
  BY CellFacts DEF Hole
<1>2. \A m \in 1..n : (IF m \in DOMAIN s THEN s[m] ELSE Hole) \in Cells
  BY <1>1
<1> HIDE DEF Hole
<1> QED
  BY <1>2 DEF Resized

\* A node put into the tree.
LEMMA PlaceType ==
  ASSUME TypeOK, NEW p, NEW n \in Nodes, Place(p, n)
  PROVE  \A q \in DOMAIN dst' : dst'[q] \in Nodes
<1>1. \A q \in DOMAIN dst : dst[q] \in Nodes
  BY DEF TypeOK
<1> QED
  BY <1>1 DEF Place

\* Every step of the server keeps them.
LEMMA ServerTypes ==
  ASSUME Nested, TypeOK, ServerOK, Server
  PROVE  ServerOK'
<1>1. /\ c2s \in Seq(Cells) /\ s2c \in Seq({"ok", "err"}) /\ stack \in Seq(Calls)
      /\ (spc = "done") = (stack = <<>>) /\ file.got <= file.size
      /\ file \in [path : Seq(Pieces), size : Nat, got : Nat, wrerr : Wrerr]
      /\ \A p \in DOMAIN dst : dst[p] \in Nodes
  BY DEF ServerOK
<1>2. <<"err">> \in Seq({"ok", "err"}) /\ <<"ok">> \in Seq({"ok", "err"}) /\ <<>> \in Seq({"ok", "err"})
      /\ <<"ok", "err">> \in Seq({"ok", "err"})
  OBVIOUS
<1>3. stack # <<>> => Here \in Calls /\ Len(stack) \in Nat \ {0}
  BY HereFacts
<1>4. ASSUME NEW a \in Seq({"ok", "err"}), Return(a), stack # <<>>, c2s' \in Seq(Cells), UNCHANGED <<file, dst>>
      PROVE  ServerOK'
  <2>1. /\ stack' \in Seq(Calls) /\ s2c' \in Seq({"ok", "err"})
        /\ spc' \in {"done", "read"} /\ (spc' = "done") = (stack' = <<>>)
    BY <1>4, ReturnFacts
  <2> QED
    BY <1>1, <1>4, <2>1 DEF ServerOK
<1>5. ASSUME NEW l \in Calls, SetHere(l), stack # <<>>
      PROVE  stack' \in Seq(Calls) /\ stack' # <<>>
  BY <1>5, SetHereFacts
<1>6. CASE Enter
  <2>1. stack # <<>> /\ UNCHANGED <<c2s, file, dst>>
    BY <1>1, <1>6 DEF Enter
  <2>2. CASE Return(<<"err">>)
    BY <1>1, <1>2, <1>4, <2>1, <2>2
  <2>3. CASE ~Return(<<"err">>)
    <3>1. SetHere([Here EXCEPT !.isdir = IsDir(Here.targ)]) /\ spc' = "read" /\ Respond("ok")
      BY <1>6, <2>3 DEF Enter
    <3>2. IsDir(Here.targ) \in BOOLEAN
      BY DEF IsDir
    <3>3. [Here EXCEPT !.isdir = IsDir(Here.targ)] \in Calls
      BY <1>3, <2>1, <3>2, CallFacts
    <3>4. stack' \in Seq(Calls) /\ stack' # <<>> /\ s2c' \in Seq({"ok", "err"})
      BY <1>5, <2>1, <3>1, <3>3, RespondFacts
    <3> QED
      BY <1>1, <2>1, <3>1, <3>4 DEF ServerOK
  <2> QED
    BY <2>2, <2>3
<1>7. CASE ReadEnd
  <2>1. stack # <<>> /\ UNCHANGED <<c2s, file, dst>> /\ Return(<<>>)
    BY <1>1, <1>7 DEF ReadEnd
  <2> QED
    BY <1>1, <1>2, <1>4, <2>1
<1>8. CASE ReadExit
  <2>1. stack # <<>> /\ UNCHANGED <<file, dst>> /\ Return(<<"ok">>) /\ c2s # <<>> /\ c2s' = Tail(c2s)
    BY <1>1, <1>8 DEF ReadExit, Reads
  <2>2. c2s' \in Seq(Cells)
    BY <1>1, <2>1, RestFacts
  <2> QED
    BY <1>1, <1>2, <1>4, <2>1, <2>2
<1>9. CASE ReadTimes
  <2>1. stack # <<>> /\ UNCHANGED <<spc, file, dst>> /\ spc = "read" /\ c2s # <<>> /\ c2s' = Tail(c2s)
        /\ Respond("ok") /\ SetHere([Here EXCEPT !.setimes = TRUE])
    BY <1>1, <1>9 DEF ReadTimes, Reads
  <2>2. [Here EXCEPT !.setimes = TRUE] \in Calls
    BY <1>3, <2>1, CallFacts
  <2>3. stack' \in Seq(Calls) /\ stack' # <<>> /\ s2c' \in Seq({"ok", "err"}) /\ c2s' \in Seq(Cells)
    BY <1>1, <1>5, <2>1, <2>2, RespondFacts, RestFacts
  <2> QED
    BY <1>1, <2>1, <2>3 DEF ServerOK
<1>10. CASE ReadGarbage
  <2>1. stack # <<>> /\ UNCHANGED <<file, dst>> /\ Return(<<"err">>)
    BY <1>1, <1>10 DEF ReadGarbage
  <2>2. c2s' \in Seq(Cells)
    <3>1. \A k \in DOMAIN c2s : SubSeq(c2s, k + 1, Len(c2s)) \in Seq(Cells)
      BY <1>1
    <3>2. <<>> \in Seq(Cells)
      OBVIOUS
    <3> QED
      BY <1>10, <3>1, <3>2 DEF ReadGarbage
  <2> QED
    BY <1>1, <1>2, <1>4, <2>1, <2>2
<1>11. CASE ReadDirectory
  <2>1. stack # <<>> /\ spc = "read" /\ c2s # <<>> /\ c2s' = Tail(c2s)
    BY <1>1, <1>11 DEF ReadDirectory, Reads
  <2>2. Head(c2s) \in Cells /\ c2s' \in Seq(Cells) /\ Head(c2s).name \in Seq(Pieces) /\ Head(c2s).size \in Nat
    <3>1. Head(c2s) \in Cells /\ c2s' \in Seq(Cells)
      BY <1>1, <2>1, RestFacts
    <3> QED
      BY <3>1 DEF Cells
  <2>3. PICK np \in Seq(Pieces) : np = Destination(Head(c2s))
    <3>1. Here.targ \in Seq(Pieces)
      BY <1>3, <2>1 DEF Calls
    <3>2. Here.targ \o Head(c2s).name \in Seq(Pieces)
      BY <2>2, <3>1
    <3> QED
      BY <3>1, <3>2 DEF Destination
  <2>4. CASE Refuse
    <3>1. s2c' \in Seq({"ok", "err"}) /\ spc' = "read" /\ UNCHANGED <<stack, file, dst>>
      BY <2>4, RespondFacts DEF Refuse
    <3> QED
      BY <1>1, <2>1, <2>2, <3>1 DEF ServerOK
  <2>5. CASE ~Refuse
    <3>1. /\ Place(np, Directory) /\ spc' = "enter" /\ UNCHANGED <<s2c, file>>
          /\ stack' = Append(stack, [targ |-> np, isdir |-> FALSE, setimes |-> FALSE])
      BY <1>11, <2>3, <2>5 DEF ReadDirectory
    <3>2. [targ |-> np, isdir |-> FALSE, setimes |-> FALSE] \in Calls
      BY DEF Calls
    <3>3. stack' \in Seq(Calls) /\ stack' # <<>>
      BY <1>1, <3>1, <3>2
    <3>4. \A q \in DOMAIN dst' : dst'[q] \in Nodes
      BY <3>1, NodeFacts, PlaceType
    <3> QED
      BY <1>1, <2>2, <3>1, <3>3, <3>4 DEF ServerOK
  <2> QED
    BY <2>4, <2>5
<1>12. CASE ReadFile
  <2>1. stack # <<>> /\ spc = "read" /\ c2s # <<>> /\ c2s' = Tail(c2s)
    BY <1>1, <1>12 DEF ReadFile, Reads
  <2>2. Head(c2s) \in Cells /\ c2s' \in Seq(Cells) /\ Head(c2s).name \in Seq(Pieces) /\ Head(c2s).size \in Nat
    <3>1. Head(c2s) \in Cells /\ c2s' \in Seq(Cells)
      BY <1>1, <2>1, RestFacts
    <3> QED
      BY <3>1 DEF Cells
  <2>3. PICK np \in Seq(Pieces) : np = Destination(Head(c2s))
    <3>1. Here.targ \in Seq(Pieces)
      BY <1>3, <2>1 DEF Calls
    <3>2. Here.targ \o Head(c2s).name \in Seq(Pieces)
      BY <2>2, <3>1
    <3> QED
      BY <3>1, <3>2 DEF Destination
  <2>4. CASE Refuse
    <3>1. s2c' \in Seq({"ok", "err"}) /\ spc' = "read" /\ UNCHANGED <<stack, file, dst>>
      BY <2>4, RespondFacts DEF Refuse
    <3> QED
      BY <1>1, <2>1, <2>2, <3>1 DEF ServerOK
  <2>5. CASE ~Refuse
    <3> DEFINE node == IF np \in DOMAIN dst THEN dst[np] ELSE Regular(<<>>)
    <3>1. /\ ~IsDir(np) /\ Place(np, node) /\ UNCHANGED stack
          /\ \/ /\ spc' = "data" /\ Respond("ok")
                /\ file' = [path |-> np, size |-> Head(c2s).size, got |-> 0, wrerr |-> "no"]
             \/ spc' = "read" /\ Answer(<<"ok", "err">>) /\ UNCHANGED file
      BY <1>12, <2>3, <2>5 DEF ReadFile
    <3>2. node \in Nodes /\ node.kind = "file"
      <4>1. <<>> \in Seq(Cells)
        OBVIOUS
      <4>2. np \in DOMAIN dst => dst[np] \in Nodes /\ dst[np].kind = "file"
        BY <1>1, <3>1 DEF IsDir, Nodes
      <4> QED
        BY <4>1, <4>2, NodeFacts
    <3> HIDE DEF node
    <3>3. /\ \A q \in DOMAIN dst' : dst'[q] \in Nodes
          /\ np \in DOMAIN dst' /\ dst'[np].kind = "file"
      <4>1. PICK q : q = np /\ Place(q, node)
        BY <3>1
      <4>2. q \in DOMAIN dst' /\ dst'[q] = node
        BY <4>1 DEF Place
      <4>3. \A r \in DOMAIN dst' : dst'[r] \in Nodes
        BY <3>2, <4>1, PlaceType
      <4> QED
        BY <3>2, <4>1, <4>2, <4>3
    <3>4. s2c' \in Seq({"ok", "err"})
      BY <1>2, <3>1, RespondFacts, AnswerFacts
    <3>5. CASE spc' = "read"
      <4>1. UNCHANGED file
        BY <3>1, <3>5
      <4> QED
        BY <1>1, <2>1, <2>2, <3>1, <3>3, <3>4, <3>5, <4>1 DEF ServerOK
    <3>6. CASE spc' = "data"
      <4>1. file' = [path |-> np, size |-> Head(c2s).size, got |-> 0, wrerr |-> "no"]
        BY <3>1, <3>6
      <4>2. /\ file' \in [path : Seq(Pieces), size : Nat, got : Nat, wrerr : Wrerr]
            /\ file'.got <= file'.size /\ file'.path = np
        BY <2>2, <4>1 DEF Wrerr
      <4> QED
        BY <1>1, <2>1, <2>2, <3>1, <3>3, <3>4, <3>6, <4>2 DEF ServerOK
    <3> QED
      BY <3>1, <3>5, <3>6
  <2> QED
    BY <2>4, <2>5
<1>13. CASE ReadData
  <2>1. /\ stack # <<>> /\ spc = "data" /\ file.got < file.size
        /\ file.path \in DOMAIN dst /\ dst[file.path].kind = "file" /\ dst[file.path].data \in Seq(Cells)
    <3>1. spc = "data" /\ file.got < file.size
      BY <1>13 DEF ReadData
    <3>2. file.path \in DOMAIN dst /\ dst[file.path].kind = "file"
      BY <3>1 DEF ServerOK
    <3> QED
      BY <1>1, <3>1, <3>2 DEF Nodes
  <2>2. CASE c2s # <<>> /\ c2s' = Tail(c2s)
    <3>1. c2s' \in Seq(Cells) /\ Head(c2s) \in Cells
      BY <1>1, <2>2, RestFacts
    <3>2. CASE UNCHANGED <<s2c, spc, stack>>
      <4>1. \/ /\ Place(file.path, Regular(Overwrite(dst[file.path].data, file.got + 1, Head(c2s))))
               /\ file' = [file EXCEPT !.got = @ + 1]
            \/ UNCHANGED dst /\ file' = [file EXCEPT !.got = @ + 1, !.wrerr = "yes"]
            \/ Return(<<"err">>) /\ UNCHANGED <<c2s, file, dst>>
        BY <1>13 DEF ReadData
      <4>2. CASE Return(<<"err">>) /\ UNCHANGED <<c2s, file, dst>>
        BY <1>1, <1>2, <1>4, <2>1, <4>2
      <4>3. CASE ~(Return(<<"err">>) /\ UNCHANGED <<c2s, file, dst>>)
        <5>1. /\ file' \in [path : Seq(Pieces), size : Nat, got : Nat, wrerr : Wrerr]
              /\ file'.got <= file'.size /\ file'.path = file.path
          <6>1. file' \in {[file EXCEPT !.got = @ + 1], [file EXCEPT !.got = @ + 1, !.wrerr = "yes"]}
            BY <4>1, <4>3
          <6>2. file.got \in Nat /\ file.size \in Nat /\ file.got + 1 <= file.size
            BY <1>1, <2>1
          <6>3. PICK p \in Seq(Pieces), s \in Nat, g \in Nat, w \in Wrerr :
                  file = [path |-> p, size |-> s, got |-> g, wrerr |-> w]
            BY <1>1
          <6>4. g + 1 <= s /\ g + 1 \in Nat /\ "yes" \in Wrerr /\ file.path = p
            BY <6>2, <6>3 DEF Wrerr
          <6>5. file' \in {[path |-> p, size |-> s, got |-> g + 1, wrerr |-> w],
                           [path |-> p, size |-> s, got |-> g + 1, wrerr |-> "yes"]}
            BY <6>1, <6>3
          <6> QED
            BY <6>4, <6>5
        <5>2. /\ \A q \in DOMAIN dst' : dst'[q] \in Nodes
              /\ file.path \in DOMAIN dst' /\ dst'[file.path].kind = "file"
          <6>1. CASE UNCHANGED dst
            BY <1>1, <2>1, <6>1
          <6>2. CASE ~(UNCHANGED dst)
            <7>1. Place(file.path, Regular(Overwrite(dst[file.path].data, file.got + 1, Head(c2s))))
              BY <4>1, <4>3, <6>2
            <7>2. file.got + 1 \in Nat \ {0}
              BY <1>1
            <7>3. Overwrite(dst[file.path].data, file.got + 1, Head(c2s)) \in Seq(Cells)
              BY <2>1, <3>1, <7>2, OverwriteFacts
            <7>4. PICK node \in Nodes : Place(file.path, node) /\ node.kind = "file"
              BY <7>1, <7>3, NodeFacts
            <7>5. \A q \in DOMAIN dst' : dst'[q] \in Nodes
              BY <7>4, PlaceType
            <7>6. file.path \in DOMAIN dst' /\ dst'[file.path] = node
              BY <7>4 DEF Place
            <7> QED
              BY <7>4, <7>5, <7>6
          <6> QED
            BY <6>1, <6>2
        <5> QED
          BY <1>1, <2>1, <3>1, <3>2, <5>1, <5>2 DEF ServerOK
      <4> QED
        BY <4>2, <4>3
    <3>3. CASE ~(UNCHANGED <<s2c, spc, stack>>)
      <4>1. Return(<<"err">>) /\ UNCHANGED <<c2s, file, dst>>
        BY <1>13, <3>3 DEF ReadData
      <4> QED
        BY <1>1, <1>2, <1>4, <2>1, <4>1
    <3> QED
      BY <3>2, <3>3
  <2>3. CASE ~(c2s # <<>> /\ c2s' = Tail(c2s))
    <3>1. Return(<<"err">>) /\ UNCHANGED <<c2s, file, dst>>
      BY <1>13, <2>3 DEF ReadData
    <3> QED
      BY <1>1, <1>2, <1>4, <2>1, <3>1
  <2> QED
    BY <2>2, <2>3
<1>14. CASE Truncate
  <2>1. /\ stack # <<>> /\ spc = "data" /\ file.got = file.size /\ spc' = "response"
        /\ UNCHANGED <<c2s, stack>>
        /\ file.path \in DOMAIN dst /\ dst[file.path].kind = "file" /\ dst[file.path].data \in Seq(Cells)
    <3>1. spc = "data" /\ file.got = file.size /\ spc' = "response" /\ UNCHANGED <<c2s, stack>>
      BY <1>14 DEF Truncate
    <3>2. file.path \in DOMAIN dst /\ dst[file.path].kind = "file"
      BY <3>1 DEF ServerOK
    <3> QED
      BY <1>1, <3>1, <3>2 DEF Nodes
  <2>2. CASE Place(file.path, Regular(Resized(dst[file.path].data, file.size))) /\ UNCHANGED <<s2c, file>>
    <3>1. Resized(dst[file.path].data, file.size) \in Seq(Cells)
      <4>1. file.size \in Nat
        BY <1>1
      <4> QED
        BY <2>1, <4>1, ResizedFacts
    <3>2. /\ \A q \in DOMAIN dst' : dst'[q] \in Nodes
          /\ file.path \in DOMAIN dst' /\ dst'[file.path].kind = "file"
      <4>1. PICK node \in Nodes : Place(file.path, node) /\ node.kind = "file"
        BY <2>2, <3>1, NodeFacts
      <4>2. \A q \in DOMAIN dst' : dst'[q] \in Nodes
        BY <4>1, PlaceType
      <4>3. file.path \in DOMAIN dst' /\ dst'[file.path] = node
        BY <4>1 DEF Place
      <4> QED
        BY <4>1, <4>2, <4>3
    <3> QED
      BY <1>1, <2>1, <2>2, <3>2 DEF ServerOK
  <2>3. CASE ~(Place(file.path, Regular(Resized(dst[file.path].data, file.size))) /\ UNCHANGED <<s2c, file>>)
    <3>1. Respond("err") /\ file' = [file EXCEPT !.wrerr = "displayed"] /\ UNCHANGED dst
      BY <1>14, <2>3 DEF Truncate
    <3>2. PICK p \in Seq(Pieces), s \in Nat, g \in Nat, w \in Wrerr :
                  file = [path |-> p, size |-> s, got |-> g, wrerr |-> w]
      BY <1>1
    <3>3. file' = [path |-> p, size |-> s, got |-> g, wrerr |-> "displayed"] /\ file.path = p
      BY <3>1, <3>2
    <3>4. /\ file' \in [path : Seq(Pieces), size : Nat, got : Nat, wrerr : Wrerr]
          /\ file'.got <= file'.size /\ file'.path = file.path
      <4>1. g <= s
        BY <1>1, <3>2
      <4> QED
        BY <3>3, <4>1 DEF Wrerr
    <3>5. s2c' \in Seq({"ok", "err"})
      BY <3>1, RespondFacts
    <3> QED
      BY <1>1, <2>1, <3>1, <3>4, <3>5 DEF ServerOK
  <2> QED
    BY <2>2, <2>3
<1>15. CASE EndMark
  <2>1. /\ stack # <<>> /\ spc = "response" /\ spc' = "read" /\ UNCHANGED <<file, dst>>
        /\ c2s # <<>> /\ c2s' = Tail(c2s)
    BY <1>1, <1>15 DEF EndMark
  <2>2. c2s' \in Seq(Cells)
    BY <1>1, <2>1, RestFacts
  <2>3. stack' \in Seq(Calls) /\ stack' # <<>>
    <3>1. SetHere([Here EXCEPT !.setimes = FALSE]) \/ UNCHANGED stack
      BY <1>15 DEF EndMark
    <3>2. [Here EXCEPT !.setimes = FALSE] \in Calls
      BY <1>3, <2>1, CallFacts
    <3> QED
      BY <1>1, <1>5, <2>1, <3>1, <3>2
  <2>4. s2c' \in Seq({"ok", "err"})
    <3>1. \/ Respond("ok") \/ Respond("err")
          \/ Answer(CASE file.wrerr = "yes" -> <<"err">>
                    [] file.wrerr = "no" -> <<"ok">>
                    [] file.wrerr = "displayed" -> <<>>)
      BY <1>15 DEF EndMark
    <3>2. file.wrerr \in {"no", "yes", "displayed"}
      BY <1>1 DEF Wrerr
    <3>3. (CASE file.wrerr = "yes" -> <<"err">>
                    [] file.wrerr = "no" -> <<"ok">>
                    [] file.wrerr = "displayed" -> <<>>) \in Seq({"ok", "err"})
      BY <1>2, <3>2
    <3> QED
      BY <3>1, <3>3, RespondFacts, AnswerFacts
  <2> QED
    BY <1>1, <2>1, <2>2, <2>3, <2>4 DEF ServerOK
<1>16. CASE NoEndMark
  <2>1. /\ stack # <<>> /\ spc = "response" /\ UNCHANGED <<file, dst>> /\ Return(<<"err">>)
    BY <1>1, <1>16 DEF NoEndMark
  <2>2. c2s' \in Seq(Cells)
    <3>1. CASE UNCHANGED c2s
      BY <1>1, <3>1
    <3>2. CASE ~(UNCHANGED c2s)
      <4>1. c2s # <<>> /\ c2s' = (IF Head(c2s).kind = "data" THEN <<Head(c2s)>> ELSE <<Plain("tail")>>) \o Tail(c2s)
        BY <1>16, <3>2 DEF NoEndMark
      <4>2. Head(c2s) \in Cells /\ Tail(c2s) \in Seq(Cells) /\ Plain("tail") \in Cells
        BY <1>1, <4>1, RestFacts, CellFacts
      <4>3. <<Head(c2s)>> \in Seq(Cells) /\ <<Plain("tail")>> \in Seq(Cells)
        BY <4>2
      <4>4. <<Head(c2s)>> \o Tail(c2s) \in Seq(Cells) /\ <<Plain("tail")>> \o Tail(c2s) \in Seq(Cells)
        BY <4>2, <4>3
      <4> QED
        BY <4>1, <4>4
    <3> QED
      BY <3>1, <3>2
  <2> QED
    BY <1>1, <1>2, <1>4, <2>1, <2>2
<1> QED
  BY <1>6, <1>7, <1>8, <1>9, <1>10, <1>11, <1>12, <1>13, <1>14, <1>15, <1>16 DEF Server

\* The connection breaks.
LEMMA DropFacts ==
  ASSUME NEW R, NEW s \in Seq(R), NEW m \in 0..Len(s)
  PROVE  /\ SubSeq(s, 1, m) \in Seq(R) /\ Len(SubSeq(s, 1, m)) = m
         /\ \A k \in 1..m : SubSeq(s, 1, m)[k] = s[k]
<1>1. \A k \in 1..m : s[k] \in R
  OBVIOUS
<1>2. m \in Nat /\ 1 \in Int /\ m \in Int /\ \A k \in 1..m : 1 + k - 1 = k
  OBVIOUS
<1>3. /\ SubSeq(s, 1, m) \in Seq(R)
      /\ Len(SubSeq(s, 1, m)) = IF 1 <= m THEN m - 1 + 1 ELSE 0
      /\ \A k \in 1 .. m - 1 + 1 : SubSeq(s, 1, m)[k] = s[1 + k - 1]
  BY <1>1, <1>2, SubSeqProperties
<1> QED
  BY <1>2, <1>3

\* Both programs keep to their places and types, whatever fails.
LEMMA TypesStep == Nested /\ TypeOK /\ Placed /\ [Next]_vars => TypeOK' /\ Placed'
<1> SUFFICES ASSUME Nested, TypeOK, Placed, [Next]_vars PROVE TypeOK' /\ Placed'
  OBVIOUS
<1>1. ClientOK /\ ServerOK
  BY DEF TypeOK, Placed, ClientOK, ServerOK
<1>2. up \in BOOLEAN /\ mode \in Modes /\ dst0 \in Targets /\ (mode.reverse => WasDir)
  BY DEF TypeOK, Placed
<1>3. ASSUME ClientOK', ServerOK', up' \in BOOLEAN, UNCHANGED given PROVE TypeOK' /\ Placed'
  <2>1. mode' \in Modes /\ dst0' \in Targets /\ (mode'.reverse => WasDir')
    BY <1>2, <1>3 DEF given, WasDir
  <2> QED
    BY <1>3, <2>1 DEF TypeOK, Placed, ClientOK, ServerOK
<1>4. CASE Client
  <2>1. UNCHANGED <<up, serverVars, given>>
    BY <1>4 DEF Client, Expand, Greeted, Finish, SendExit, Exited, SendFile, TimesAnswered,
                ControlAnswered, SendData, Acknowledged
  <2>2. ClientOK'
    BY <1>1, <1>4, ClientTypes
  <2>3. ServerOK'
    BY <1>1, <2>1, <2>2 DEF ServerOK, serverVars, ClientOK
  <2> QED
    BY <1>2, <1>3, <2>1, <2>2, <2>3
<1>5. CASE Server
  <2>1. UNCHANGED <<up, clientVars, given>>
    BY <1>5 DEF Server, Enter, ReadEnd, ReadExit, ReadTimes, ReadGarbage, ReadDirectory,
       ReadFile,
                ReadData, Truncate, EndMark, NoEndMark
  <2>2. ServerOK'
    BY <1>1, <1>5, ServerTypes
  <2>3. ClientOK'
    BY <1>1, <2>1, <2>2 DEF ClientOK, ServerOK, clientVars, IsFile
  <2> QED
    BY <1>2, <1>3, <2>1, <2>2, <2>3
<1>6. CASE Drop
  <2>1. UNCHANGED <<clientVars, serverVars, given>> /\ up' = FALSE
    BY <1>6 DEF Drop
  <2>2. c2s' \in Seq(Cells) /\ s2c' \in Seq({"ok", "err"})
    <3>1. c2s \in Seq(Cells) /\ s2c \in Seq({"ok", "err"})
      BY DEF TypeOK
    <3> QED
      BY <1>6, <3>1, DropFacts DEF Drop
  <2>3. ClientOK' /\ ServerOK'
    BY <1>1, <2>1, <2>2 DEF ClientOK, ServerOK, clientVars, serverVars, IsFile
  <2> QED
    BY <1>3, <2>1, <2>3
<1>7. CASE UNCHANGED vars
  <2>1. ClientOK' /\ ServerOK' /\ up' \in BOOLEAN /\ UNCHANGED given
    BY <1>1, <1>2, <1>7 DEF ClientOK, ServerOK, clientVars, serverVars, vars, IsFile
  <2> QED
    BY <1>3, <2>1
<1> QED
  BY <1>4, <1>5, <1>6, <1>7 DEF Next

\* They hold at the start.
LEMMA TypesInit == Nested /\ Init => TypeOK /\ Placed
<1> SUFFICES ASSUME Nested, Init PROVE TypeOK /\ Placed
  OBVIOUS
<1>1. <<>> \in Seq(Cells) /\ <<>> \in Seq({"ok", "err"}) /\ <<>> \in Seq(Pieces) /\ Len(List) \in Nat
  BY DEF Nested
<1>2. [targ |-> <<>>, isdir |-> FALSE, setimes |-> FALSE] \in Calls
  BY <1>1 DEF Calls
<1>3. stack \in Seq(Calls) /\ stack # <<>>
  BY <1>2 DEF Init
<1>4. /\ file \in [path : Seq(Pieces), size : Nat, got : Nat, wrerr : Wrerr] /\ file.got <= file.size
  BY <1>1 DEF Init, Wrerr
<1>5. \A p \in DOMAIN dst : dst[p] \in Nodes
  BY PcpAssumption DEF Init
<1>6. TypeOK
  BY <1>1, <1>3, <1>4, <1>5 DEF Init, TypeOK
<1>7. Placed
  BY DEF Init, Placed
<1> QED
  BY <1>6, <1>7

\* Both programs keep to their places and types: the client only waits for an answer
\* while it is at an entry of its list, the server never counts past the size of a file.
THEOREM TypeCorrect ==
  ASSUME Nested
  PROVE  Spec => []TypeOK
<1>1. Init => TypeOK /\ Placed
  BY TypesInit
<1>2. TypeOK /\ Placed /\ [Next]_vars => TypeOK' /\ Placed'
  BY TypesStep
<1> QED
  BY <1>1, <1>2, PTL DEF Spec

-----------------------------------------------------------------------------
(* The list of files and the sites of its entries.                         *)

\* The list and the directory of each position.
LEMMA ListFacts ==
  ASSUME Nested
  PROVE  /\ Len(List) \in Nat /\ DOMAIN List = 1..Len(List)
         /\ Paths \subseteq Seq(Names) \ {<<>>} /\ Dirs \cap Files = {} /\ Paths = Dirs \cup Files
         /\ \A j \in 1..(Len(List) + 1) : Walk[j] \in Dirs \cup {<<>>} /\ Walk[j] \in Seq(Names)
         /\ Walk[1] = <<>> /\ Walk[Len(List) + 1] = <<>>
<1>1. Len(List) \in Nat /\ DOMAIN List = 1..Len(List) /\ Walk[1] = <<>> /\ Walk[Len(List) + 1] = <<>>
  BY DEF Nested
<1>2. Paths \subseteq Seq(Names) \ {<<>>} /\ Dirs \cap Files = {} /\ Paths = Dirs \cup Files
  BY PcpAssumption DEF Paths
<1>3. <<>> \in Seq(Names)
  OBVIOUS
<1>4. \A j \in 1..(Len(List) + 1) : Walk[j] \in Dirs \cup {<<>>}
  BY DEF Nested
<1> QED
  BY <1>1, <1>2, <1>3, <1>4

\* What an entry of the list is: an exit mark, or a path in the directory of its position.
LEMMA EntryFacts ==
  ASSUME Nested, NEW j \in 1..Len(List)
  PROVE  /\ IsExit(j) => /\ ~IsFile(j) /\ ~MakesDir(j)
                         /\ Walk[j] # <<>> /\ Walk[j + 1] = Front(Walk[j])
         /\ ~IsExit(j) =>
              /\ IsFile(j) = ~MakesDir(j)
              /\ List[j].path \in Paths /\ List[j].path # <<>> /\ List[j] # ExitMark
              /\ IsFile(j) => List[j].path \in Files /\ List[j].path \notin Dirs /\ Walk[j + 1] = Walk[j]
              /\ MakesDir(j) => List[j].path \in Dirs /\ List[j].path \notin Files /\ Walk[j + 1] = List[j].path
              /\ \E n \in Names : List[j] = [path |-> Append(Walk[j], n), user |-> Walk[j] = <<>>]
<1>1. j \in DOMAIN List /\ <<>> \notin Paths /\ Dirs \cap Files = {} /\ Paths = Dirs \cup Files
  BY ListFacts
<1>2. CASE IsExit(j)
  <2>1. List[j] = ExitMark /\ List[j].path = <<>>
    BY <1>2 DEF IsExit, ExitMark
  <2>2. ~(List[j].path \in Paths)
    BY <1>1, <2>1
  <2>3. Walk[j] # <<>> /\ Walk[j + 1] = Front(Walk[j])
    BY <2>2 DEF Nested
  <2> QED
    BY <1>1, <1>2, <2>2, <2>3 DEF IsFile, MakesDir
<1>3. CASE ~IsExit(j)
  <2>1. List[j] # ExitMark
    BY <1>1, <1>3 DEF IsExit
  <2>2. PICK n \in Names :
            /\ List[j] = [path |-> Append(Walk[j], n), user |-> Walk[j] = <<>>]
            /\ List[j].path \in Paths
            /\ Walk[j + 1] = IF List[j].path \in Dirs THEN List[j].path ELSE Walk[j]
    BY <2>1 DEF Nested
  <2> QED
    BY <1>1, <1>3, <2>1, <2>2 DEF IsFile, MakesDir
<1> QED
  BY <1>2, <1>3

\* Where a source path belongs, when the destination is a directory.
LEMMA SiteFacts ==
  ASSUME WasDir, NEW p \in Seq(Names) \ {<<>>}
  PROVE  /\ Site(p) \in Seq(Pieces) /\ Len(Site(p)) = Len(p) /\ Site(p) # <<>> /\ Len(p) >= 1
         /\ \A k \in 1..Len(p) : Site(p)[k] = IF k = 1 THEN SentFor(p[1]) ELSE p[k]
<1>1. p \in Seq(Names) /\ Len(p) \in Nat /\ Len(p) >= 1 /\ \A k \in 1..Len(p) : p[k] \in Names
  OBVIOUS
<1>2. p \in Seq(Pieces) /\ SentFor(p[1]) \in Pieces
  <2>1. \A k \in 1..Len(p) : p[k] \in Pieces
    BY <1>1 DEF Pieces
  <2>2. SentFor(p[1]) \in Pieces
    BY <1>1 DEF Pieces, SentFor
  <2> QED
    BY <1>1, <2>1, <2>2
<1>3. PICK s : s = [p EXCEPT ![1] = SentFor(p[1])]
  OBVIOUS
<1>4. PICK h \in Pieces : h = SentFor(p[1])
  BY <1>2
<1>5. s \in Seq(Pieces) /\ Len(s) = Len(p) /\ \A k \in 1..Len(p) : s[k] = IF k = 1 THEN h ELSE p[k]
  BY <1>1, <1>2, <1>3, <1>4
<1>6. Site(p) = s
  BY <1>3 DEF Site
<1> QED
  BY <1>1, <1>4, <1>5, <1>6

\* Two source paths never belong in the same place.
LEMMA SiteInjective ==
  ASSUME WasDir, NEW p \in Paths, NEW q \in Paths, Site(p) = Site(q)
  PROVE  p = q
<1>0. p \in Seq(Names) \ {<<>>} /\ q \in Seq(Names) \ {<<>>}
  BY PcpAssumption
<1>1. Len(p) = Len(q) /\ Len(p) >= 1 /\ Len(p) \in Nat
  BY <1>0, SiteFacts
<1>2. p[1] = q[1]
  <2>1. SentFor(p[1]) = SentFor(q[1])
    <3>1. Site(p)[1] = SentFor(p[1]) /\ Site(q)[1] = SentFor(q[1])
      BY <1>0, <1>1, SiteFacts
    <3> QED
      BY <3>1
  <2> QED
    BY <2>1, PcpAssumption DEF SentFor
<1>3. ASSUME NEW k \in 1..Len(p) PROVE p[k] = q[k]
  <2>1. CASE k = 1
    BY <1>2, <2>1
  <2>2. CASE k # 1
    <3>1. Site(p)[k] = p[k] /\ Site(q)[k] = q[k]
      BY <1>0, <1>1, <2>2, SiteFacts
    <3> QED
      BY <3>1
  <2> QED
    BY <2>1, <2>2
<1> QED
  BY <1>0, <1>1, <1>3, SeqEqual

\* A path belongs below its directory, under the name sent with it.
LEMMA SiteBelow ==
  ASSUME WasDir, NEW d \in Seq(Names), NEW n \in Names, NEW e,
         e = [path |-> Append(d, n), user |-> d = <<>>]
  PROVE  /\ Spot(d) \in Seq(Pieces) /\ Len(Spot(d)) = Len(d)
         /\ Site(Append(d, n)) = Spot(d) \o SentName(e)
         /\ \A m \in 0..Len(d) : SubSeq(Site(Append(d, n)), 1, m) = SubSeq(Spot(d), 1, m)
<1> DEFINE p == Append(d, n)
<1>1. /\ p \in Seq(Names) \ {<<>>} /\ Len(p) = Len(d) + 1 /\ p[Len(d) + 1] = n
      /\ \A k \in 1..Len(d) : p[k] = d[k]
  BY AppendProperties
<1>2. e.path = p /\ e.user = (d = <<>>)
  OBVIOUS
<1> HIDE DEF p
<1>3. Spot(d) \in Seq(Pieces) /\ Len(Spot(d)) = Len(d)
      /\ \A k \in 1..Len(d) : Spot(d)[k] = IF k = 1 THEN SentFor(d[1]) ELSE d[k]
  <2>1. CASE d = <<>>
    <3>1. Spot(d) = <<>> /\ <<>> \in Seq(Pieces)
      BY <2>1 DEF Spot
    <3>2. Len(d) = 0 /\ Len(Spot(d)) = 0
      BY <2>1, <3>1
    <3>3. \A k \in 1..Len(d) : FALSE
      BY <3>2
    <3> QED
      BY <3>1, <3>2, <3>3
  <2>2. CASE d # <<>>
    BY <2>2, SiteFacts DEF Spot
  <2> QED
    BY <2>1, <2>2
<1>4. /\ Site(p) \in Seq(Pieces) /\ Len(Site(p)) = Len(d) + 1
      /\ \A k \in 1..(Len(d) + 1) : Site(p)[k] = IF k = 1 THEN SentFor(p[1]) ELSE p[k]
  BY <1>1, SiteFacts
<1>5. PICK x : x = IF d = <<>> THEN SentFor(n) ELSE n
  OBVIOUS
<1>6. x \in Pieces /\ SentName(e) = <<x>>
  <2>1. Last(p) = n
    BY <1>1 DEF Last
  <2>2. x \in Pieces
    BY <1>5 DEF Pieces, SentFor
  <2> QED
    BY <1>2, <1>5, <2>1, <2>2 DEF SentName
<1>7. Site(p)[Len(d) + 1] = x
  <2>1. CASE d = <<>>
    <3>1. Len(d) = 0
      BY <2>1
    <3> QED
      BY <1>1, <1>4, <1>5, <2>1, <3>1
  <2>2. CASE d # <<>>
    <3>1. Len(d) \in Nat /\ Len(d) > 0 /\ Len(d) + 1 \in 1..(Len(d) + 1) /\ Len(d) + 1 # 1
      BY <2>2
    <3> QED
      BY <1>1, <1>4, <1>5, <2>2, <3>1
  <2> QED
    BY <2>1, <2>2
<1>8. \A k \in 1..Len(d) : Site(p)[k] = Spot(d)[k]
  <2> TAKE k \in 1..Len(d)
  <2>1. k \in 1..(Len(d) + 1) /\ 1 \in 1..Len(d)
    OBVIOUS
  <2>2. p[1] = d[1] /\ p[k] = d[k]
    BY <1>1, <2>1
  <2> QED
    BY <1>3, <1>4, <2>1, <2>2
<1>9. Site(p) = Spot(d) \o SentName(e)
  <2>1. <<x>> \in Seq(Pieces) /\ Len(<<x>>) = 1 /\ <<x>>[1] = x
    BY <1>6
  <2>2. PICK t \in Seq(Pieces) : /\ t = Spot(d) \o SentName(e) /\ Len(t) = Len(d) + 1
                    /\ \A k \in 1..(Len(d) + 1) : t[k] = IF k <= Len(d) THEN Spot(d)[k] ELSE x
    <3>1. /\ Spot(d) \o <<x>> \in Seq(Pieces)
          /\ Len(Spot(d) \o <<x>>) = Len(d) + 1
          /\ \A k \in 1..(Len(d) + 1) : (Spot(d) \o <<x>>)[k] = IF k <= Len(d) THEN Spot(d)[k] ELSE <<x>>[k - Len(d)]
      BY <1>3, <2>1, ConcatProperties
    <3>2. \A k \in 1..(Len(d) + 1) : ~(k <= Len(d)) => k - Len(d) = 1
      BY <1>1
    <3> QED
      BY <1>6, <2>1, <3>1, <3>2
  <2>3. \A k \in 1..(Len(d) + 1) : t[k] = Site(p)[k]
    <3> TAKE k \in 1..(Len(d) + 1)
    <3>1. k \in 1..Len(d) \/ k = Len(d) + 1
      BY <1>1
    <3>2. ~(Len(d) + 1 <= Len(d)) /\ Len(d) + 1 \in 1..(Len(d) + 1)
      BY <1>1
    <3>3. k \in 1..Len(d) => k <= Len(d)
      OBVIOUS
    <3> QED
      BY <1>7, <1>8, <2>2, <3>1, <3>2, <3>3
  <2>4. t = Site(p)
    <3>1. PICK s \in Seq(Pieces) : s = Site(p)
      BY <1>4
    <3>2. Len(t) = Len(s) /\ \A k \in 1..Len(t) : t[k] = s[k]
      BY <1>4, <2>2, <2>3, <3>1
    <3>3. t = s
      BY <3>2, SeqEqual
    <3> QED
      BY <3>1, <3>3
  <2> QED
    BY <2>2, <2>4
<1>10. ASSUME NEW m \in 0..Len(d) PROVE SubSeq(Site(p), 1, m) = SubSeq(Spot(d), 1, m)
  <2>1. m \in 0..Len(Site(p)) /\ m \in 0..Len(Spot(d)) /\ \A k \in 1..m : k \in 1..Len(d)
    BY <1>3, <1>4
  <2>2. /\ SubSeq(Site(p), 1, m) \in Seq(Pieces) /\ Len(SubSeq(Site(p), 1, m)) = m
        /\ \A k \in 1..m : SubSeq(Site(p), 1, m)[k] = Site(p)[k]
    BY <1>4, <2>1, DropFacts
  <2>3. /\ SubSeq(Spot(d), 1, m) \in Seq(Pieces) /\ Len(SubSeq(Spot(d), 1, m)) = m
        /\ \A k \in 1..m : SubSeq(Spot(d), 1, m)[k] = Spot(d)[k]
    BY <1>3, <2>1, DropFacts
  <2>4. \A k \in 1..m : SubSeq(Site(p), 1, m)[k] = SubSeq(Spot(d), 1, m)[k]
    BY <1>8, <2>1, <2>2, <2>3
  <2> QED
    BY <2>2, <2>3, <2>4, SeqEqual
<1> QED
  BY <1>3, <1>9, <1>10 DEF p

-----------------------------------------------------------------------------
(* The calls of _sink.                                                     *)

\* Without a directory to put them in there is one file.
Fits == WasDir \/ Len(List) <= 1

\* The targets and the kinds of the calls of _sink stay.
SameLevels == /\ Len(stack') = Len(stack)
              /\ \A m \in 1..Len(stack) : stack'[m].targ = stack[m].targ /\ stack'[m].isdir = stack[m].isdir

\* What depends on the copy alone.
LEMMA GivenFacts ==
  ASSUME UNCHANGED given
  PROVE  /\ WasDir' = WasDir
         /\ \A p : Site(p)' = Site(p)
         /\ \A d : Spot(d)' = Spot(d)
         /\ \A e : Control(e)' = Control(e)
         /\ \A j : Requests(j)' = Requests(j)
         /\ Sound' = Sound
<1>1. dst0' = dst0 /\ mode' = mode
  BY DEF given
<1>2. WasDir' = WasDir
  BY <1>1 DEF WasDir
<1>3. \A p : Site(p)' = Site(p)
  BY <1>1, <1>2 DEF Site, SentFor
<1>4. \A d : Spot(d)' = Spot(d)
  BY <1>3 DEF Spot
<1>5. \A e : SentName(e)' = SentName(e)
  BY <1>1 DEF SentName, SentFor
<1>6. \A e : Control(e)' = Control(e)
  BY <1>5 DEF Control
<1>7. \A j : Requests(j)' = Requests(j)
  BY <1>6 DEF Requests
<1>8. \A d : InTheWay(d)' = InTheWay(d)
  BY <1>1, <1>3 DEF InTheWay
<1>9. Sound' = Sound
  BY <1>1, <1>8 DEF Sound
<1> QED
  BY <1>2, <1>3, <1>4, <1>6, <1>7, <1>9

\* The levels are the same when targets and flags are.
LEMMA LevelsStay ==
  ASSUME UNCHANGED given, SameLevels
  PROVE  \A d : (Targeted(d) => Targeted(d)') /\ (Levels(d) => Levels(d)') /\ (Entering(d) => Entering(d)')
<1>1. WasDir' = WasDir /\ \A d : Spot(d)' = Spot(d)
  BY GivenFacts
<1>2. \A d : Targeted(d) => Targeted(d)'
  BY <1>1 DEF Targeted, SameLevels
<1>3. \A d : Levels(d) => Levels(d)'
  BY <1>1, <1>2 DEF Levels, SameLevels
<1>4. ASSUME NEW d, Entering(d) PROVE Entering(d)'
  <2>1. Len(stack) = Len(d) + 1 /\ Len(stack') = Len(stack)
    BY <1>4 DEF Entering, Targeted, SameLevels
  <2>2. \A m \in 1..(Len(stack) - 1) : stack[m].isdir = (m > 1 \/ WasDir)
    BY <1>4 DEF Entering
  <2>3. \A m \in 1..(Len(stack) - 1) : m \in 1..Len(stack)
    <3>1. Len(stack) \in Int \/ Len(stack) \notin Int
      OBVIOUS
    <3> QED
      BY <2>1
  <2> QED
    BY <1>1, <1>2, <1>4, <2>1, <2>2, <2>3 DEF Entering, SameLevels
<1> QED
  BY <1>2, <1>3, <1>4

\* Directories are made, and left, only below a directory.
LEMMA FitsFacts ==
  ASSUME Nested, Fits, NEW j \in 1..Len(List)
  PROVE  /\ IsExit(j) \/ MakesDir(j) => WasDir
         /\ ~WasDir => Walk[j] = <<>> /\ j = 1
<1>1. Len(List) \in Nat /\ Walk[1] = <<>> /\ Walk[Len(List) + 1] = <<>>
  BY ListFacts
<1>2. ~WasDir => j = 1 /\ Len(List) = 1
  <2>1. \A n \in Nat : n <= 1 => \A k \in 1..n : k = 1 /\ n = 1
    OBVIOUS
  <2>2. ~WasDir => Len(List) <= 1
    BY DEF Fits
  <2> QED
    BY <1>1, <2>1, <2>2
<1>3. ~WasDir => Walk[j] = <<>> /\ Walk[j + 1] = <<>>
  BY <1>1, <1>2
<1>4. IsExit(j) => WasDir
  BY <1>3, EntryFacts
<1>5. MakesDir(j) => WasDir
  <2>1. ~WasDir /\ MakesDir(j) => ~IsExit(j)
    BY EntryFacts
  <2> QED
    BY <1>3, <2>1, EntryFacts
<1> QED
  BY <1>2, <1>3, <1>4, <1>5

\* The directory that is being filled.
LEMMA HereTarg ==
  ASSUME Nested, TypeOK, stack # <<>>, NEW d \in Dirs \cup {<<>>}, Targeted(d), d # <<>> => WasDir
  PROVE  Here.targ = Spot(d) /\ Len(stack) = Len(d) + 1 /\ Len(d) \in Nat /\ Spot(d) \in Seq(Pieces)
<1>1. d \in Seq(Names) /\ Len(d) \in Nat
  <2>1. <<>> \in Seq(Names)
    OBVIOUS
  <2> QED
    BY <2>1, ListFacts
<1>2. Spot(d) \in Seq(Pieces) /\ Len(Spot(d)) = Len(d)
  <2>1. CASE d = <<>>
    <3>1. Spot(d) = <<>> /\ <<>> \in Seq(Pieces)
      BY <2>1 DEF Spot
    <3> QED
      BY <2>1, <3>1
  <2>2. CASE d # <<>>
    BY <1>1, <2>2, SiteFacts DEF Spot
  <2> QED
    BY <2>1, <2>2
<1>3. Here = stack[Len(stack)] /\ Len(stack) = Len(d) + 1
  BY HereFacts DEF Targeted
<1>4. Here.targ = SubSeq(Spot(d), 1, Len(d) + 1 - 1)
  BY <1>1, <1>3 DEF Targeted
<1>5. Here.targ = SubSeq(Spot(d), 1, Len(Spot(d)))
  <2>1. Len(d) + 1 - 1 = Len(d)
    BY <1>1
  <2> QED
    BY <1>2, <1>4, <2>1
<1> QED
  BY <1>1, <1>2, <1>3, <1>5, SubSeqFull

\* The place the server chooses for a record is the place where the entry belongs.
LEMMA DestinationFacts ==
  ASSUME Nested, TypeOK, Fits, stack # <<>>, NEW j \in 1..Len(List), ~IsExit(j), Levels(Walk[j])
  PROVE  Destination(Control(List[j])) = Site(List[j].path)
<1>1. /\ Walk[j] \in Dirs \cup {<<>>} /\ Walk[j] \in Seq(Names) /\ Len(Walk[j]) \in Nat
      /\ (Walk[j] # <<>> => WasDir) /\ Targeted(Walk[j])
  <2>1. j \in 1..(Len(List) + 1)
    BY ListFacts
  <2> QED
    BY <2>1, ListFacts, FitsFacts DEF Levels
<1>2. Here.targ = Spot(Walk[j]) /\ Len(stack) = Len(Walk[j]) + 1
  BY <1>1, HereTarg
<1>3. PICK n \in Names : List[j] = [path |-> Append(Walk[j], n), user |-> Walk[j] = <<>>]
  BY EntryFacts
<1>4. Here.isdir = (Len(stack) > 1 \/ WasDir)
  BY HereFacts DEF Levels
<1>5. Control(List[j]).name = SentName(List[j])
  BY CellFacts, EntryFacts
<1>6. CASE WasDir
  <2>1. Site(List[j].path) = Spot(Walk[j]) \o SentName(List[j])
    <3>1. Site(Append(Walk[j], n)) = Spot(Walk[j]) \o SentName(List[j])
      BY <1>1, <1>3, <1>6, SiteBelow
    <3>2. List[j].path = Append(Walk[j], n)
      BY <1>3
    <3> QED
      BY <3>1, <3>2
  <2> QED
    BY <1>2, <1>4, <1>5, <1>6, <2>1 DEF Destination
<1>7. CASE ~WasDir
  <2>1. Walk[j] = <<>> /\ Len(stack) = 1
    <3>1. Walk[j] = <<>>
      BY <1>7, FitsFacts
    <3>2. Len(Walk[j]) = 0
      BY <3>1
    <3> QED
      BY <1>2, <3>1, <3>2
  <2>2. ~Here.isdir
    <3>1. ~(Len(stack) > 1)
      BY <2>1
    <3> QED
      BY <1>4, <1>7, <3>1, Zenon
  <2>3. Spot(Walk[j]) = <<>> /\ Site(List[j].path) = <<>>
    BY <1>7, <2>1 DEF Spot, Site
  <2> QED
    BY <1>2, <2>2, <2>3 DEF Destination
<1> QED
  BY <1>6, <1>7

\* A call of _sink for a directory.
LEMMA LevelsPush ==
  ASSUME Nested, TypeOK, Fits, stack # <<>>, NEW j \in 1..Len(List), MakesDir(j), Levels(Walk[j]),
         UNCHANGED given,
         stack' = Append(stack, [targ |-> Site(List[j].path), isdir |-> FALSE, setimes |-> FALSE])
  PROVE  Entering(Walk[j + 1])' /\ WasDir /\ Site(List[j].path) = Spot(Walk[j + 1])
<1>1. ~IsExit(j) /\ WasDir /\ Walk[j + 1] = List[j].path /\ List[j].path # <<>>
  BY EntryFacts, FitsFacts
<1>2. WasDir' = WasDir /\ \A d : Spot(d)' = Spot(d)
  BY GivenFacts
<1>3. PICK n \in Names : List[j] = [path |-> Append(Walk[j], n), user |-> Walk[j] = <<>>]
  BY <1>1, EntryFacts
<1>4. Walk[j] \in Seq(Names) /\ Len(Walk[j]) \in Nat
  <2>1. j \in 1..(Len(List) + 1)
    BY ListFacts
  <2> QED
    BY <2>1, ListFacts
<1> DEFINE d == Walk[j]
           e == Append(d, n)
<1>5. Walk[j + 1] = e /\ List[j].path = e /\ Len(e) = Len(d) + 1 /\ e # <<>>
  BY <1>1, <1>3, <1>4
<1>6. /\ Spot(d) \in Seq(Pieces) /\ Len(Spot(d)) = Len(d)
      /\ \A m \in 0..Len(d) : SubSeq(Site(e), 1, m) = SubSeq(Spot(d), 1, m)
  BY <1>1, <1>3, <1>4, SiteBelow
<1>7. Site(e) \in Seq(Pieces) /\ Len(Site(e)) = Len(e) /\ Spot(e) = Site(e)
  <2>1. e \in Seq(Names) \ {<<>>}
    BY <1>4, <1>5
  <2> QED
    BY <1>1, <2>1, SiteFacts DEF Spot
<1> HIDE DEF d, e
<1>8. PICK c : c = [targ |-> Site(e), isdir |-> FALSE, setimes |-> FALSE]
  OBVIOUS
<1>9. c.targ = Site(e) /\ c \in Calls
  BY <1>7, <1>8 DEF Calls
<1>10. /\ Len(stack) = Len(d) + 1 /\ Len(stack) \in Nat /\ Len(stack') = Len(stack) + 1 /\ Len(d) \in Nat
       /\ stack'[Len(stack) + 1] = c /\ \A m \in 1..Len(stack) : stack'[m] = stack[m]
  <2>1. stack \in Seq(Calls) /\ stack' = Append(stack, c)
    BY <1>5, <1>8 DEF TypeOK
  <2>2. Len(stack) = Len(d) + 1
    BY DEF Levels, Targeted, d
  <2> QED
    BY <1>4, <1>9, <2>1, <2>2, AppendProperties DEF d
<1>11. \A m \in 1..Len(stack') : stack'[m].targ = SubSeq(Spot(e), 1, m - 1)
  <2> TAKE m \in 1..Len(stack')
  <2>1. CASE m = Len(stack) + 1
    <3>1. m - 1 = Len(Site(e))
      BY <1>5, <1>7, <1>10, <2>1
    <3> QED
      BY <1>7, <1>9, <1>10, <2>1, <3>1, SubSeqFull
  <2>2. CASE m # Len(stack) + 1
    <3>1. m \in 1..Len(stack) /\ m - 1 \in 0..Len(d)
      BY <1>10, <2>2
    <3>2. stack[m].targ = SubSeq(Spot(d), 1, m - 1)
      BY <3>1 DEF Levels, Targeted, d
    <3> QED
      BY <1>6, <1>7, <1>10, <3>1, <3>2
  <2> QED
    BY <2>1, <2>2
<1>12. \A m \in 1..(Len(stack') - 1) : stack'[m].isdir = (m > 1 \/ WasDir)
  <2>1. \A m \in 1..(Len(stack') - 1) : m \in 1..Len(stack)
    BY <1>10
  <2> QED
    BY <1>10, <2>1 DEF Levels
<1>13. Len(stack') = Len(e) + 1
  BY <1>5, <1>10
<1>14. Entering(e)'
  BY <1>2, <1>11, <1>12, <1>13 DEF Entering, Targeted
<1>15. e' = e
  BY DEF e, d
<1> QED
  BY <1>1, <1>5, <1>7, <1>14, <1>15

\* The call of _sink for a directory returns.
LEMMA LevelsPop ==
  ASSUME Nested, TypeOK, Fits, stack # <<>>, NEW j \in 1..Len(List), IsExit(j), Levels(Walk[j]),
         UNCHANGED given, NEW a \in Seq({"ok", "err"}), Return(a)
  PROVE  Levels(Walk[j + 1])' /\ spc' = "read" /\ Len(stack) > 1
<1> DEFINE d == Walk[j]
           e == Walk[j + 1]
<1>1. WasDir /\ d # <<>> /\ e = Front(d)
  BY EntryFacts, FitsFacts
<1>2. WasDir' = WasDir /\ \A x : Spot(x)' = Spot(x)
  BY GivenFacts
<1>3. /\ d \in Seq(Names) /\ Len(d) \in Nat /\ Len(d) >= 1 /\ e \in Seq(Names) /\ Len(e) = Len(d) - 1
      /\ \A k \in 1..(Len(d) - 1) : e[k] = d[k]
  <2>1. j \in 1..(Len(List) + 1)
    BY ListFacts
  <2>2. d \in Seq(Names)
    BY <2>1, ListFacts
  <2>3. Len(d) \in Nat /\ Len(d) >= 1
    BY <1>1, <2>2
  <2> HIDE DEF d, e
  <2> QED
    BY <1>1, <2>2, <2>3, FrontOf
<1>4. PICK n \in Names : d = Append(e, n)
  <2>1. d[Len(d)] \in Names
    BY <1>3
  <2>2. PICK n \in Names : n = d[Len(d)]
    BY <2>1
  <2>3. /\ Append(e, n) \in Seq(Names) /\ Len(Append(e, n)) = Len(d) /\ Append(e, n)[Len(d)] = n
        /\ \A k \in 1..(Len(d) - 1) : Append(e, n)[k] = d[k]
    <3> HIDE DEF d, e
    <3> QED
      BY <1>3, AppendProperties
  <2>4. \A k \in 1..Len(d) : Append(e, n)[k] = d[k]
    <3> HIDE DEF d, e
    <3> QED
      BY <1>3, <2>2, <2>3
  <2>5. d = Append(e, n)
    <3> HIDE DEF d, e
    <3> QED
      BY <1>3, <2>3, <2>4, SeqEqual
  <2> QED
    BY <2>5
<1>5. /\ Len(Spot(e)) = Len(e) /\ Spot(d) = Site(d)
      /\ \A m \in 0..Len(e) : SubSeq(Site(d), 1, m) = SubSeq(Spot(e), 1, m)
  <2> HIDE DEF d, e
  <2>1. PICK r : r = [path |-> Append(e, n), user |-> e = <<>>]
    OBVIOUS
  <2>2. /\ Len(Spot(e)) = Len(e)
        /\ \A m \in 0..Len(e) : SubSeq(Site(Append(e, n)), 1, m) = SubSeq(Spot(e), 1, m)
    BY <1>1, <1>3, <2>1, SiteBelow
  <2>3. Spot(d) = Site(d)
    BY <1>1, <1>3 DEF Spot
  <2> QED
    BY <1>4, <2>2, <2>3
<1>6. Levels(d)
  OBVIOUS
<1>7. d' = d /\ e' = e
  BY DEF d, e
<1> HIDE DEF d, e
<1>8. Len(stack) = Len(d) + 1
  BY <1>6 DEF Levels, Targeted
<1>9. /\ Len(stack) > 1 /\ spc' = "read" /\ Len(stack') = Len(stack) - 1
      /\ \A m \in 1..(Len(stack) - 1) :
           stack'[m].targ = stack[m].targ /\ stack'[m].isdir = stack[m].isdir
  <2>1. Len(stack) # 1
    BY <1>3, <1>8
  <2> QED
    BY <2>1, ReturnFacts
<1>10. Len(stack') = Len(e) + 1
  BY <1>3, <1>8, <1>9
<1>11. \A m \in 1..Len(stack') : m \in 1..Len(stack) /\ m \in 1..(Len(stack) - 1) /\ m - 1 \in 0..Len(e)
  BY <1>3, <1>8, <1>9
<1>12. \A m \in 1..Len(stack') : stack'[m].targ = SubSeq(Spot(e), 1, m - 1)
  BY <1>5, <1>6, <1>9, <1>11 DEF Levels, Targeted
<1>13. \A m \in 1..Len(stack') : stack'[m].isdir = (m > 1 \/ WasDir)
  BY <1>6, <1>9, <1>11 DEF Levels
<1>14. Levels(e)'
  BY <1>2, <1>7, <1>10, <1>12, <1>13 DEF Levels, Targeted
<1> QED
  BY <1>7, <1>9, <1>14 DEF e

\* _sink has looked at its target.
LEMMA LevelsEnter ==
  ASSUME Nested, TypeOK, stack # <<>>, NEW d \in Dirs \cup {<<>>}, Entering(d), d # <<>> => WasDir,
         UNCHANGED given, SetHere([Here EXCEPT !.isdir = IsDir(Here.targ)]),
         IsDir(Spot(d)) = (d # <<>> \/ WasDir)
  PROVE  Levels(d)'
<1>1. Here.targ = Spot(d) /\ Len(stack) = Len(d) + 1 /\ Len(d) \in Nat
  BY HereTarg DEF Entering
<1>2. WasDir' = WasDir /\ \A x : Spot(x)' = Spot(x)
  BY GivenFacts
<1>3. Here \in Calls /\ Here = stack[Len(stack)] /\ Len(stack) \in Nat \ {0}
  BY HereFacts
<1>4. PICK b \in BOOLEAN : b = IsDir(Here.targ)
  BY DEF IsDir
<1>5. PICK c \in Calls : /\ c = [Here EXCEPT !.isdir = b] /\ c.targ = Here.targ /\ c.isdir = b
  <2>1. PICK h \in Calls : h = Here
    BY <1>3
  <2>2. PICK c : c = [h EXCEPT !.isdir = b]
    OBVIOUS
  <2>3. c \in Calls
    BY <2>2 DEF Calls
  <2>4. c.targ = h.targ
    BY <2>2 DEF Calls
  <2>5. c.isdir = b
    BY <2>2 DEF Calls
  <2> QED
    BY <2>1, <2>2, <2>3, <2>4, <2>5
<1>6. SetHere(c)
  BY <1>4, <1>5
<1>7. /\ Len(stack') = Len(stack)
      /\ \A m \in 1..Len(stack) : stack'[m] = IF m = Len(stack) THEN c ELSE stack[m]
  BY <1>6, SetHereFacts
<1>8. \A m \in 1..Len(stack) : stack'[m].targ = stack[m].targ
  BY <1>3, <1>5, <1>7
<1>9. d # <<>> => Len(d) > 0
  <2>1. <<>> \in Seq(Names)
    OBVIOUS
  <2>2. d \in Seq(Names)
    BY <2>1, ListFacts
  <2> QED
    BY <2>2
<1>10. b = (Len(stack) > 1 \/ WasDir)
  <2>1. Len(stack) > 1 <=> d # <<>>
    BY <1>1, <1>9
  <2> QED
    BY <1>1, <1>4, <2>1
<1>11. \A m \in 1..Len(stack) : stack'[m].isdir = (m > 1 \/ WasDir)
  <2> TAKE m \in 1..Len(stack)
  <2>1. CASE m = Len(stack)
    BY <1>5, <1>7, <1>10, <2>1
  <2>2. CASE m # Len(stack)
    <3>1. m \in 1..(Len(stack) - 1)
      BY <1>3, <2>2
    <3> QED
      BY <1>7, <2>2, <3>1 DEF Entering
  <2> QED
    BY <2>1, <2>2
<1> QED
  BY <1>2, <1>7, <1>8, <1>11 DEF Entering, Levels, Targeted

-----------------------------------------------------------------------------
(* The situations.                                                         *)

\* The server's part stays.
LEMMA SameServer ==
  ASSUME UNCHANGED <<serverVars, given>>
  PROVE  /\ spc' = spc /\ stack' = stack /\ file' = file /\ dst' = dst /\ dst0' = dst0 /\ mode' = mode
         /\ \A d : (Levels(d) => Levels(d)') /\ (Entering(d) => Entering(d)')
         /\ \A p : IsDir(p)' = IsDir(p) /\ Delivered(p)' = Delivered(p)
         /\ \A j : Receiving(j) => Receiving(j)'
         /\ Late' = Late
<1>1. spc' = spc /\ stack' = stack /\ file' = file /\ dst' = dst /\ dst0' = dst0 /\ mode' = mode
      /\ UNCHANGED given
  BY DEF serverVars, given
<1>2. SameLevels
  BY <1>1 DEF SameLevels
<1>3. \A d : (Levels(d) => Levels(d)') /\ (Entering(d) => Entering(d)')
  BY <1>1, <1>2, LevelsStay
<1>4. \A p : Site(p)' = Site(p)
  BY <1>1, GivenFacts
<1>5. \A p : IsDir(p)' = IsDir(p)
  BY <1>1 DEF IsDir
<1>6. \A p : Delivered(p)' = Delivered(p)
  BY <1>1, <1>4 DEF Delivered
<1>7. \A j : Receiving(j) => Receiving(j)'
  BY <1>1, <1>3, <1>4 DEF Receiving, IsFile
<1>8. Late' = Late
  BY <1>1 DEF Late
<1> QED
  BY <1>1, <1>3, <1>5, <1>6, <1>7, <1>8

\* The server's situation, by what it is about to do.
LEMMA ServerSituation ==
  ASSUME Together
  PROVE  /\ spc = "enter" => Starting \/ (Fits /\ \E j \in 1..(Len(List) + 1) : Making(j))
         /\ spc = "read" => Over \/ (Fits /\ \E j \in 1..(Len(List) + 1) : Idle(j) \/ Requested(j))
         /\ spc = "data" => Fits /\ \E j \in 1..(Len(List) + 1) : Storing(j)
         /\ spc = "response" => Fits /\ \E j \in 1..(Len(List) + 1) : Closing(j)
<1>1. (Starting => spc = "enter") /\ (Over => spc = "read") /\ (Gone => spc = "done")
  BY DEF Starting, Over, Gone
<1>2. \A j : (Idle(j) => spc = "read") /\ (Requested(j) => spc = "read") /\ (Making(j) => spc = "enter")
  BY DEF Idle, Requested, Making
<1>3. \A j : (Storing(j) => spc = "data") /\ (Closing(j) => spc = "response")
  BY DEF Storing, Closing
<1> QED
  BY <1>1, <1>2, <1>3 DEF Together, Fits

\* What the client has sent and awaits, situation by situation.
Behind(j, k) ==   \* it has the error of file j already, and has gone on to k
  /\ Closing(j) /\ file.wrerr = "displayed" /\ k \in (j + 1)..(Len(List) + 1) /\ Walk[k] = Walk[j]
  /\ s2c = <<>> /\ i = k

\* Where the client is when it has sent a request.
LEMMA RequestFacts ==
  ASSUME NEW j, NEW r \in Requests(j), Waits(r)
  PROVE  /\ j \in DOMAIN List /\ (cpc \in {"exit", "times", "control"})
         /\ cpc = "exit" <=> IsExit(j)
<1>1. j \in DOMAIN List
  BY DEF Requests
<1>2. CASE IsExit(j)
  <2>1. r = Plain("E")
    BY <1>1, <1>2 DEF Requests
  <2>2. r.kind = "E"
    BY <2>1 DEF Plain, Record
  <2> QED
    BY <1>1, <1>2, <2>2 DEF Waits
<1>3. CASE ~IsExit(j)
  <2>1. r \in {Plain("T"), Control(List[j])}
    BY <1>1, <1>3 DEF Requests
  <2>2. r.kind \in {"T", "C", "D"}
    BY <2>1 DEF Plain, Record, Control
  <2> QED
    BY <1>1, <1>3, <2>2 DEF Waits
<1> QED
  BY <1>2, <1>3

\* What the client waits for while the end of a file is due.
LEMMA ClosingFacts ==
  ASSUME NEW j, Closing(j), up
  PROVE  \/ c2s = <<>> /\ i = j /\ file.size = 0 /\ cpc = "control" /\ s2c = <<"ok">> \o Late
         \/ c2s = <<>> /\ i = j /\ file.size = 0 /\ cpc = "open" /\ s2c = Late
         \/ c2s = <<Plain("nul")>> /\ i = j /\ cpc = "ack" /\ s2c = Late
         \/ /\ \E k : Behind(j, k)
            /\ \/ c2s = <<Plain("nul")>> /\ cpc = "next"
               \/ c2s = <<Plain("nul")>> /\ cpc = "done" /\ i = Len(List) + 1
               \/ \E r \in Requests(i) : c2s = <<Plain("nul"), r>> /\ Waits(r)
<1>1. CASE c2s = <<>>
  BY <1>1 DEF Closing
<1>2. CASE c2s # <<>>
  <2>1. CASE c2s = <<Plain("nul")>> /\ (up => i = j /\ cpc = "ack" /\ s2c = Late)
    BY <2>1
  <2>2. CASE ~(c2s = <<Plain("nul")>> /\ (up => i = j /\ cpc = "ack" /\ s2c = Late))
    <3>1. /\ file.wrerr = "displayed"
          /\ \E k \in (j + 1)..(Len(List) + 1) :
               /\ Walk[k] = Walk[j]
               /\ \/ /\ c2s = <<Plain("nul")>>
                     /\ up => /\ i = k /\ s2c = <<>> /\ cpc \in {"next", "done"}
                              /\ cpc = "done" => k = Len(List) + 1
                  \/ \E r \in Requests(k) :
                       c2s = <<Plain("nul"), r>> /\ (up => i = k /\ s2c = <<>> /\ Waits(r))
      BY <1>2, <2>2 DEF Closing
    <3>2. PICK k \in (j + 1)..(Len(List) + 1) :
               /\ Walk[k] = Walk[j]
               /\ \/ /\ c2s = <<Plain("nul")>>
                     /\ up => /\ i = k /\ s2c = <<>> /\ cpc \in {"next", "done"}
                              /\ cpc = "done" => k = Len(List) + 1
                  \/ \E r \in Requests(k) :
                       c2s = <<Plain("nul"), r>> /\ (up => i = k /\ s2c = <<>> /\ Waits(r))
      BY <3>1
    <3>3. Behind(j, k)
      BY <3>1, <3>2 DEF Behind
    <3> QED
      BY <3>2, <3>3
  <2> QED
    BY <2>1, <2>2
<1> QED
  BY <1>1, <1>2

\* Over a connection that stands, what the client is about to do tells what it can
\* hear, and where the server is.
LEMMA UpSituation ==
  ASSUME Nested, TypeOK, Placed, Together, up
  PROVE  /\ cpc \in {"expand", "greet"} =>
              Starting \/ (Fits /\ Idle(1) /\ s2c = <<"ok">>) \/ (Gone /\ s2c = <<"err">>)
         /\ cpc \notin {"expand", "greet", "done", "died"} => Fits /\ ~ServerGone
         /\ cpc = "next" => /\ s2c = <<>>
                            /\ Idle(i) \/ (c2s = <<Plain("nul")>> /\ \E j \in 1..Len(List) : Behind(j, i))
         /\ cpc = "exit" => s2c = <<>> \/ (s2c = <<"ok">> /\ Idle(i + 1))
         /\ cpc = "times" => s2c = <<>> \/ (s2c = <<"ok">> /\ Idle(i))
         /\ cpc = "control" =>
              \/ s2c = <<>>
              \/ s2c = <<"err">> /\ Idle(i) /\ IsFile(i)
              \/ s2c = <<"ok">> /\ Idle(i + 1) /\ MakesDir(i)
              \/ s2c = <<"ok">> /\ Storing(i) /\ file.got = 0 /\ c2s = <<>>
              \/ s2c = <<"ok">> \o Late /\ Closing(i) /\ file.size = 0 /\ c2s = <<>>
         /\ cpc = "open" =>
              \/ s2c = <<>> /\ Storing(i) /\ file.got = 0 /\ c2s = <<>>
              \/ s2c = Late /\ Closing(i) /\ file.size = 0 /\ c2s = <<>>
         /\ cpc = "ack" =>
              \/ s2c = <<>>
              \/ s2c = <<"err">> /\ Idle(i)
              \/ s2c = <<"ok">> /\ Idle(i) /\ Delivered(List[i].path)
              \/ s2c = Late /\ Closing(i) /\ c2s = <<Plain("nul")>>
<1>1. Len(List) \in Nat /\ DOMAIN List = 1..Len(List) /\ i \in 0..(Len(List) + 1)
      /\ (cpc \in {"expand", "greet"} => i = 0) /\ (cpc \notin {"expand", "greet", "done", "died"} => i \in 1..(Len(List) + 1))
      /\ (cpc \in {"exit", "times", "control", "open", "ack"} => i \in 1..Len(List))
      /\ cpc \in {"expand", "greet", "next", "exit", "times", "control", "open", "ack", "done", "died"}
  BY ListFacts DEF TypeOK, Placed
<1> DEFINE Goal ==
         /\ cpc \in {"expand", "greet"} =>
              Starting \/ (Fits /\ Idle(1) /\ s2c = <<"ok">>) \/ (Gone /\ s2c = <<"err">>)
         /\ cpc \notin {"expand", "greet", "done", "died"} => Fits /\ spc # "done"
         /\ cpc = "next" => /\ s2c = <<>>
                            /\ Idle(i) \/ (c2s = <<Plain("nul")>> /\ \E j \in 1..Len(List) : Behind(j, i))
         /\ cpc = "exit" => s2c = <<>> \/ (s2c = <<"ok">> /\ Idle(i + 1))
         /\ cpc = "times" => s2c = <<>> \/ (s2c = <<"ok">> /\ Idle(i))
         /\ cpc = "control" =>
              \/ s2c = <<>>
              \/ s2c = <<"err">> /\ Idle(i) /\ IsFile(i)
              \/ s2c = <<"ok">> /\ Idle(i + 1) /\ MakesDir(i)
              \/ s2c = <<"ok">> /\ Storing(i) /\ file.got = 0 /\ c2s = <<>>
              \/ s2c = <<"ok">> \o Late /\ Closing(i) /\ file.size = 0 /\ c2s = <<>>
         /\ cpc = "open" =>
              \/ s2c = <<>> /\ Storing(i) /\ file.got = 0 /\ c2s = <<>>
              \/ s2c = Late /\ Closing(i) /\ file.size = 0 /\ c2s = <<>>
         /\ cpc = "ack" =>
              \/ s2c = <<>>
              \/ s2c = <<"err">> /\ Idle(i)
              \/ s2c = <<"ok">> /\ Idle(i) /\ Delivered(List[i].path)
              \/ s2c = Late /\ Closing(i) /\ c2s = <<Plain("nul")>>
<1>2. ASSUME Starting PROVE Goal
  BY <1>1, <1>2 DEF Starting
<1>3. ASSUME Over PROVE Goal
  BY <1>3 DEF Over, ClientGone
<1>4. ASSUME Gone PROVE Goal
  BY <1>1, <1>4 DEF Gone
<1>5. ASSUME Fits, NEW j \in 1..(Len(List) + 1), Idle(j) PROVE Goal
  <2>1. Awaited(j) /\ spc # "done"
    BY <1>5 DEF Idle
  <2>2. i = j - 1 => j = i + 1
    BY <1>1
  <2> QED
    BY <1>1, <1>5, <2>1, <2>2 DEF Awaited
<1>6. ASSUME Fits, NEW j \in 1..(Len(List) + 1), Requested(j) PROVE Goal
  <2>1. s2c = <<>> /\ spc # "done" /\ cpc \in {"exit", "times", "control"}
    BY <1>6, RequestFacts DEF Requested
  <2> QED
    BY <1>6, <2>1
<1>7. ASSUME Fits, NEW j \in 1..(Len(List) + 1), Making(j) PROVE Goal
  <2>1. s2c = <<>> /\ spc # "done" /\ cpc = "control"
    BY <1>7 DEF Making
  <2> QED
    BY <1>7, <2>1
<1>8. ASSUME Fits, NEW j \in 1..(Len(List) + 1), Storing(j) PROVE Goal
  <2>1. /\ spc # "done" /\ i = j
        /\ \/ file.got = 0 /\ c2s = <<>> /\ cpc = "control" /\ s2c = <<"ok">>
           \/ file.got = 0 /\ c2s = <<>> /\ cpc = "open" /\ s2c = <<>>
           \/ cpc = "ack" /\ s2c = <<>>
    BY <1>8 DEF Storing
  <2> QED
    BY <1>8, <2>1
<1>9. ASSUME Fits, NEW j \in 1..(Len(List) + 1), Closing(j) PROVE Goal
  <2>1. spc # "done"
    BY <1>9 DEF Closing
  <2>2. j \in 1..Len(List)
    BY <1>1, <1>9 DEF Closing, Receiving, IsFile
  <2>3. CASE \E k : Behind(j, k)
    <3>1. Behind(j, i) /\ s2c = <<>>
      BY <2>3 DEF Behind
    <3>2. \/ c2s = <<Plain("nul")>> /\ cpc = "next"
          \/ cpc \in {"done", "exit", "times", "control"}
      <4>1. j # i
        BY <2>2, <3>1 DEF Behind
      <4>2. \/ c2s = <<Plain("nul")>> /\ cpc = "next"
            \/ c2s = <<Plain("nul")>> /\ cpc = "done" /\ i = Len(List) + 1
            \/ \E r \in Requests(i) : c2s = <<Plain("nul"), r>> /\ Waits(r)
        BY <1>9, <4>1, ClosingFacts
      <4> QED
        BY <4>2, RequestFacts
    <3> QED
      BY <1>9, <2>1, <2>2, <3>1, <3>2
  <2>4. CASE ~\E k : Behind(j, k)
    <3>1. \/ c2s = <<>> /\ i = j /\ file.size = 0 /\ cpc = "control" /\ s2c = <<"ok">> \o Late
          \/ c2s = <<>> /\ i = j /\ file.size = 0 /\ cpc = "open" /\ s2c = Late
          \/ c2s = <<Plain("nul")>> /\ i = j /\ cpc = "ack" /\ s2c = Late
      BY <1>9, <2>4, ClosingFacts
    <3> QED
      BY <1>9, <2>1, <3>1
  <2> QED
    BY <2>3, <2>4
<1>10. Goal
  <2> HIDE DEF Goal
  <2>1. CASE Starting \/ Over \/ Gone
    BY <1>2, <1>3, <1>4, <2>1
  <2>2. CASE ~(Starting \/ Over \/ Gone)
    <3>1. Fits /\ \E j \in 1..(Len(List) + 1) : Idle(j) \/ Requested(j) \/ Making(j) \/ Storing(j) \/ Closing(j)
      BY <2>2 DEF Together, Fits
    <3> QED
      BY <1>5, <1>6, <1>7, <1>8, <1>9, <3>1
  <2> QED
    BY <2>1, <2>2
<1> QED
  BY <1>10 DEF ServerGone

\* Short sequences.
LEMMA ShortSequences ==
  ASSUME NEW R, NEW s \in Seq(R)
  PROVE  /\ Len(s) = 0 => s = <<>>
         /\ Len(s) = 1 => s = <<s[1]>>
         /\ Len(s) = 2 => s = <<s[1], s[2]>>
<1>1. CASE Len(s) = 0
  BY <1>1
<1>2. CASE Len(s) = 1
  <2>1. s[1] \in R
    BY <1>2
  <2>2. <<s[1]>> \in Seq(R) /\ Len(<<s[1]>>) = 1 /\ \A k \in 1..1 : <<s[1]>>[k] = s[k]
    BY <2>1
  <2>3. s = <<s[1]>>
    BY <1>2, <2>2, SeqEqual
  <2> QED
    BY <1>2, <2>3
<1>3. CASE Len(s) = 2
  <2>1. s[1] \in R /\ s[2] \in R
    BY <1>3
  <2>2. <<s[1], s[2]>> \in Seq(R) /\ Len(<<s[1], s[2]>>) = 2 /\ \A k \in 1..2 : <<s[1], s[2]>>[k] = s[k]
    BY <2>1
  <2>3. s = <<s[1], s[2]>>
    BY <1>3, <2>2, SeqEqual
  <2> QED
    BY <1>3, <2>3
<1> QED
  BY <1>1, <1>2, <1>3

\* A situation established for the next state.
LEMMA SituationNext ==
  ASSUME Fits, UNCHANGED given, NEW j \in 1..(Len(List) + 1),
         Idle(j)' \/ Requested(j)' \/ Making(j)' \/ Storing(j)' \/ Closing(j)'
  PROVE  Together'
<1>1. WasDir' = WasDir
  BY GivenFacts
<1>2. WasDir' \/ Len(List) <= 1
  BY <1>1 DEF Fits
<1> QED
  BY <1>2 DEF Together

\* Over a broken connection a stream loses its end, and nothing else can surprise.
LEMMA CutStream ==
  ASSUME Nested, TypeOK, Together, ~up', UNCHANGED <<serverVars, given>>,
         NEW m \in 0..Len(c2s), c2s' = SubSeq(c2s, 1, m)
  PROVE  Together'
<1>1. /\ spc' = spc /\ stack' = stack /\ file' = file /\ dst' = dst /\ dst0' = dst0 /\ mode' = mode
      /\ (\A d : (Levels(d) => Levels(d)') /\ (Entering(d) => Entering(d)'))
      /\ (\A p : IsDir(p)' = IsDir(p) /\ Delivered(p)' = Delivered(p))
      /\ (\A j : Receiving(j) => Receiving(j)')
  BY SameServer
<1>2. UNCHANGED given /\ (\A d : Spot(d)' = Spot(d)) /\ (\A j : Requests(j)' = Requests(j))
  BY <1>1, GivenFacts DEF given
<1>3. /\ c2s \in Seq(Cells) /\ c2s' \in Seq(Cells) /\ Len(c2s') = m /\ \A k \in 1..m : c2s'[k] = c2s[k]
  <2>1. c2s \in Seq(Cells)
    BY DEF TypeOK
  <2> QED
    BY <2>1, DropFacts
<1>4. c2s = <<>> => c2s' = <<>>
  BY <1>3
<1>5. /\ m = 0 => c2s' = <<>>
      /\ \A a : c2s = <<a>> => m \in {0, 1} /\ (m = 1 => c2s' = <<a>>)
      /\ \A a, b : c2s = <<a, b>> => m \in {0, 1, 2} /\ (m = 1 => c2s' = <<a>>) /\ (m = 2 => c2s' = <<a, b>>)
  <2>1. PICK t \in Seq(Cells) : t = c2s' /\ Len(t) = m
    BY <1>3
  <2>2. /\ Len(t) = 0 => t = <<>>
        /\ Len(t) = 1 => t = <<t[1]>>
        /\ Len(t) = 2 => t = <<t[1], t[2]>>
    BY ShortSequences
  <2>3. m \in Nat /\ m <= Len(c2s)
    BY <1>3
  <2>4. ASSUME NEW a, c2s = <<a>>
        PROVE  m \in {0, 1} /\ (m = 1 => c2s' = <<a>>)
    <3>1. Len(c2s) = 1 /\ c2s[1] = a
      BY <2>4
    <3>2. m \in {0, 1}
      BY <2>3, <3>1
    <3>3. m = 1 => t[1] = a
      BY <1>3, <2>1, <3>1
    <3> QED
      BY <2>1, <2>2, <3>2, <3>3
  <2>5. ASSUME NEW a, NEW b, c2s = <<a, b>>
        PROVE  m \in {0, 1, 2} /\ (m = 1 => c2s' = <<a>>) /\ (m = 2 => c2s' = <<a, b>>)
    <3>1. Len(c2s) = 2 /\ c2s[1] = a /\ c2s[2] = b
      BY <2>5
    <3>2. m \in {0, 1, 2}
      BY <2>3, <3>1
    <3>3. (m = 1 => t[1] = a) /\ (m = 2 => t[1] = a /\ t[2] = b)
      BY <1>3, <2>1, <3>1
    <3> QED
      BY <2>1, <2>2, <3>2, <3>3
  <2>6. m = 0 => c2s' = <<>>
    BY <2>1, <2>2
  <2> QED
    BY <2>4, <2>5, <2>6
<1>6. ClientGone'
  BY DEF ClientGone
<1>7. CASE Starting
  <2>1. Starting'
    BY <1>1, <1>4, <1>7 DEF Starting
  <2> QED
    BY <2>1 DEF Together
<1>8. CASE Over
  <2>1. Over'
    BY <1>1, <1>4, <1>6, <1>8 DEF Over
  <2> QED
    BY <2>1 DEF Together
<1>9. CASE Gone
  <2>1. Gone'
    BY <1>1, <1>9 DEF Gone
  <2> QED
    BY <2>1 DEF Together
<1>10. ASSUME Fits, NEW j \in 1..(Len(List) + 1), Idle(j) \/ Requested(j) \/ Making(j) \/ Storing(j) \/ Closing(j)
       PROVE  Together'
  <2>1. CASE Idle(j)
    <3>1. Idle(j)'
      BY <1>1, <1>4, <2>1 DEF Idle
    <3> QED
      BY <1>2, <1>10, <3>1, SituationNext
  <2>2. CASE Requested(j)
    <3>1. PICK r \in Requests(j) : c2s = <<r>>
      BY <2>2 DEF Requested
    <3>2. m \in {0, 1}
      BY <1>5, <3>1
    <3>3. CASE m = 0
      <4>1. c2s' = <<>>
        BY <1>3, <3>3
      <4>2. Idle(j)'
        BY <1>1, <2>2, <4>1 DEF Idle, Requested
      <4> QED
        BY <1>2, <1>10, <4>2, SituationNext
    <3>4. CASE m = 1
      <4>1. c2s' = <<r>>
        BY <1>5, <3>1, <3>4
      <4>2. Requested(j)'
        BY <1>1, <1>2, <2>2, <4>1 DEF Requested
      <4> QED
        BY <1>2, <1>10, <4>2, SituationNext
    <3> QED
      BY <3>2, <3>3, <3>4
  <2>3. CASE Making(j)
    <3>1. Making(j)'
      BY <1>1, <1>2, <1>4, <2>3 DEF Making, MakesDir
    <3> QED
      BY <1>2, <1>10, <3>1, SituationNext
  <2>4. CASE Storing(j)
    <3>1. Len(c2s') <= file.size - file.got + 1
      <4>1. Len(c2s) <= file.size - file.got + 1
        BY <2>4 DEF Storing
      <4>2. file.size \in Nat /\ file.got \in Nat
        BY DEF TypeOK
      <4> QED
        BY <1>3, <4>1, <4>2
    <3>2. \A k \in 1..Len(c2s') : c2s'[k] = IF k <= file.size - file.got THEN DataCell(List[j].path, file.got + k)
                                                                    ELSE Plain("nul")
      <4>1. \A k \in 1..Len(c2s) : c2s[k] = IF k <= file.size - file.got THEN DataCell(List[j].path, file.got + k)
                                                                    ELSE Plain("nul")
        BY <2>4 DEF Storing
      <4>2. \A k \in 1..Len(c2s') : k \in 1..Len(c2s) /\ k \in 1..m
        BY <1>3
      <4> QED
        BY <1>3, <4>1, <4>2
    <3>3. Storing(j)'
      BY <1>1, <2>4, <3>1, <3>2 DEF Storing
    <3> QED
      BY <1>2, <1>10, <3>3, SituationNext
  <2>5. CASE Closing(j)
    <3>1. spc = "response" /\ Receiving(j) /\ (file.wrerr = "no" => Delivered(List[j].path))
      BY <2>5 DEF Closing
    <3>2. spc' = "response" /\ Receiving(j)' /\ (file.wrerr = "no" => Delivered(List[j].path))'
      BY <1>1, <3>1
    <3>3. CASE c2s' = <<>>
      <4>1. Closing(j)'
        BY <3>2, <3>3 DEF Closing
      <4> QED
        BY <1>2, <1>10, <4>1, SituationNext
    <3>4. CASE c2s' = <<Plain("nul")>>
      <4>1. Closing(j)'
        BY <3>2, <3>4 DEF Closing
      <4> QED
        BY <1>2, <1>10, <4>1, SituationNext
    <3>5. CASE c2s' # <<>> /\ c2s' # <<Plain("nul")>>
      <4>1. PICK nul : nul = Plain("nul")
        OBVIOUS
      <4>2. c2s # <<>>
        BY <1>4, <3>5
      <4>3. c2s # <<Plain("nul")>>
        <5>1. ASSUME c2s = <<Plain("nul")>> PROVE FALSE
          <6>1. m \in {0, 1}
            BY <1>5, <5>1
          <6>2. m = 0 => c2s' = <<>>
            BY <1>3
          <6>3. m = 1 => c2s' = <<nul>>
            BY <1>5, <4>1, <5>1
          <6> QED
            BY <3>5, <4>1, <6>1, <6>2, <6>3
        <5> QED
          BY <5>1
      <4>4. PICK k \in (j + 1)..(Len(List) + 1) :
             /\ file.wrerr = "displayed" /\ Walk[k] = Walk[j]
             /\ \E r \in Requests(k) : c2s = <<Plain("nul"), r>>
        BY <2>5, <4>2, <4>3 DEF Closing
      <4>5. PICK r \in Requests(k) : c2s = <<Plain("nul"), r>>
        BY <4>4
      <4>6. m \in {0, 1, 2}
        BY <1>5, <4>5
      <4>7. m = 0 => c2s' = <<>>
        BY <1>3
      <4>8. c2s = <<nul, r>>
        BY <4>5, <4>1
      <4>9. m = 1 => c2s' = <<nul>>
        BY <1>5, <4>8
      <4>10. m = 2 => c2s' = <<nul, r>>
        BY <1>5, <4>8
      <4>11. c2s' = <<nul, r>>
        BY <3>5, <4>6, <4>7, <4>9, <4>10, <4>1
      <4>12. c2s' = <<Plain("nul"), r>> /\ file'.wrerr = "displayed" /\ r \in Requests(k)'
        BY <1>1, <1>2, <4>4, <4>1, <4>11
      <4>13. Closing(j)'
        BY <3>2, <4>4, <4>12 DEF Closing
      <4> QED
        BY <1>2, <1>10, <4>13, SituationNext
    <3> QED
      BY <3>3, <3>4, <3>5
  <2> QED
    BY <1>10, <2>1, <2>2, <2>3, <2>4, <2>5
<1> QED
  <2>1. CASE Starting \/ Over \/ Gone
    BY <1>7, <1>8, <1>9, <2>1
  <2>2. CASE ~(Starting \/ Over \/ Gone)
    <3>1. Fits /\ \E j \in 1..(Len(List) + 1) : Idle(j) \/ Requested(j) \/ Making(j) \/ Storing(j) \/ Closing(j)
      BY <2>2 DEF Together, Fits
    <3> QED
      BY <1>10, <3>1
  <2> QED
    BY <2>1, <2>2

-----------------------------------------------------------------------------
(* The steps of the client.                                                *)

\* Two cells.
LEMMA PairFacts ==
  ASSUME NEW R, NEW a \in R, NEW b \in R
  PROVE  <<a>> \o <<b>> = <<a, b>> /\ Append(<<a>>, b) = <<a, b>>
<1>1. <<a>> \in Seq(R) /\ <<b>> \in Seq(R) /\ <<a, b>> \in Seq(R)
  OBVIOUS
<1>2. PICK s : s = <<a>>
  OBVIOUS
<1>3. PICK t : t = <<b>>
  OBVIOUS
<1>4. s \in Seq(R) /\ t \in Seq(R) /\ Len(s) = 1 /\ Len(t) = 1 /\ s[1] = a /\ t[1] = b
  BY <1>1, <1>2, <1>3
<1>5. PICK u : u = <<a, b>>
  OBVIOUS
<1>6. u \in Seq(R) /\ Len(u) = 2 /\ u[1] = a /\ u[2] = b
  BY <1>1, <1>5
<1>7. s \o t \in Seq(R) /\ Len(s \o t) = 2 /\ (s \o t)[1] = a /\ (s \o t)[2] = b
  <2>1. s \o t \in Seq(R) /\ Len(s \o t) = 1 + 1
        /\ \A k \in 1..(1 + 1) : (s \o t)[k] = IF k <= 1 THEN s[k] ELSE t[k - 1]
    BY <1>4, ConcatProperties
  <2>2. 1 \in 1..(1 + 1) /\ 2 \in 1..(1 + 1) /\ 1 <= 1 /\ ~(2 <= 1) /\ 2 - 1 = 1 /\ 1 + 1 = 2
    OBVIOUS
  <2> QED
    BY <1>4, <2>1, <2>2
<1>8. Append(s, b) = s \o t
  BY <1>3, <1>4, AppendIsConcat
<1>9. \A v \in Seq(R) : Len(v) = 2 /\ v[1] = a /\ v[2] = b => v = u
  <2> TAKE v \in Seq(R)
  <2> HAVE Len(v) = 2 /\ v[1] = a /\ v[2] = b
  <2>1. \A k \in 1..2 : k = 1 \/ k = 2
    OBVIOUS
  <2>2. \A k \in 1..2 : v[k] = u[k]
    BY <1>6, <2>1
  <2> QED
    BY <1>6, <2>2, SeqEqual
<1> QED
  BY <1>2, <1>3, <1>5, <1>7, <1>8, <1>9

\* The client goes on while the server waits for the next record.
LEMMA IdleNext ==
  ASSUME Fits, UNCHANGED <<serverVars, given>>, NEW j \in 1..(Len(List) + 1),
         spc = "read", Levels(Walk[j]), c2s' = <<>>, up' => Awaited(j)'
  PROVE  Together'
<1>1. spc' = "read" /\ Levels(Walk[j])' /\ UNCHANGED given
  BY SameServer DEF given
<1>2. Idle(j)'
  BY <1>1 DEF Idle
<1> QED
  BY <1>1, <1>2, SituationNext

\* The same when a request is under way.
LEMMA RequestedNext ==
  ASSUME Fits, UNCHANGED <<serverVars, given>>, NEW j \in 1..(Len(List) + 1),
         spc = "read", Levels(Walk[j]), NEW r \in Requests(j), c2s' = <<r>>,
         i' = j, s2c' = <<>>, Waits(r)'
  PROVE  Together'
<1>1. spc' = "read" /\ Levels(Walk[j])' /\ UNCHANGED given
  BY SameServer DEF given
<1>2. r \in Requests(j)'
  BY <1>1, GivenFacts
<1>3. Requested(j)'
  BY <1>1, <1>2 DEF Requested
<1> QED
  BY <1>1, <1>3, SituationNext

\* ... or for the mark that ends the data of a file.
LEMMA BehindNext ==
  ASSUME Fits, UNCHANGED <<serverVars, given>>, NEW j \in 1..(Len(List) + 1),
         spc = "response", Receiving(j), file.wrerr = "displayed",
         NEW k \in (j + 1)..(Len(List) + 1), Walk[k] = Walk[j], i' = k, s2c' = <<>>,
         \/ c2s' = <<Plain("nul")>> /\ (cpc' = "next" \/ (cpc' = "done" /\ k = Len(List) + 1))
         \/ \E r \in Requests(k) : c2s' = <<Plain("nul"), r>> /\ Waits(r)'
  PROVE  Together'
<1>1. spc' = "response" /\ Receiving(j)' /\ UNCHANGED given /\ file' = file
  BY SameServer DEF given
<1>2. \A r \in Requests(k) : r \in Requests(k)'
  BY <1>1, GivenFacts
<1>3. file'.wrerr = "displayed"
  BY <1>1
<1>4. Closing(j)'
  <2>1. CASE c2s' = <<Plain("nul")>> /\ (cpc' = "next" \/ (cpc' = "done" /\ k = Len(List) + 1))
    <3>1. /\ c2s' = <<Plain("nul")>>
          /\ up' => /\ i' = k /\ s2c' = <<>> /\ cpc' \in {"next", "done"}
                    /\ cpc' = "done" => k = Len(List) + 1
      BY <2>1
    <3> QED
      BY <1>1, <1>3, <3>1 DEF Closing
  <2>2. CASE \E r \in Requests(k) : c2s' = <<Plain("nul"), r>> /\ Waits(r)'
    <3>1. PICK r \in Requests(k) : c2s' = <<Plain("nul"), r>> /\ Waits(r)'
      BY <2>2
    <3>2. r \in Requests(k)'
      BY <1>2
    <3> QED
      BY <1>1, <1>3, <3>1, <3>2 DEF Closing
  <2> QED
    BY <2>1, <2>2
<1> QED
  BY <1>1, <1>4, SituationNext

\* What the client takes from the server's answers.
LEMMA ResponseCases ==
  ASSUME ~ServerGone
  PROVE  /\ s2c = <<>> => ~ResponseOk /\ ~ResponseFails
         /\ s2c = <<"ok">> => ~ResponseFails /\ (ResponseOk => s2c' = <<>> /\ told' = told)
         /\ s2c = <<"err">> => ~ResponseOk /\ (ResponseFails => s2c' = <<>> /\ told' = told \cup {i})
         /\ s2c = <<"ok">> \o Late => ~ResponseFails /\ (ResponseOk => s2c' = Late /\ told' = told)
         /\ s2c = Late => ~ResponseOk /\ (ResponseFails => /\ s2c' = <<>> /\ told' = told \cup {i}
                                                           /\ file.wrerr = "displayed")
<1>1. /\ <<"ok">> # <<>> /\ Head(<<"ok">>) = "ok" /\ Tail(<<"ok">>) = <<>>
      /\ <<"err">> # <<>> /\ Head(<<"err">>) = "err" /\ Tail(<<"err">>) = <<>>
  OBVIOUS
<1>2. /\ <<"ok">> \o <<>> = <<"ok">> /\ <<"ok">> \o <<"err">> = <<"ok", "err">>
      /\ <<"ok", "err">> # <<>> /\ Head(<<"ok", "err">>) = "ok" /\ Tail(<<"ok", "err">>) = <<"err">>
  <2>1. <<"ok">> \o <<>> = <<"ok">>
    OBVIOUS
  <2>2. <<"ok">> \o <<"err">> = <<"ok", "err">>
    <3>1. "ok" \in {"ok", "err"} /\ "err" \in {"ok", "err"}
      OBVIOUS
    <3> QED
      BY <3>1, PairFacts
  <2>3. <<"ok", "err">> # <<>> /\ Head(<<"ok", "err">>) = "ok"
    OBVIOUS
  <2>4. Tail(<<"ok", "err">>) = <<"err">>
    OBVIOUS
  <2> QED
    BY <2>1, <2>2, <2>3, <2>4
<1>3. /\ s2c = <<>> => ~ResponseOk /\ ~ResponseFails
      /\ s2c = <<"ok">> => ~ResponseFails /\ (ResponseOk => s2c' = <<>> /\ told' = told)
      /\ s2c = <<"err">> => ~ResponseOk /\ (ResponseFails => s2c' = <<>> /\ told' = told \cup {i})
  BY <1>1 DEF ResponseOk, ResponseFails
<1>4. s2c = <<"ok", "err">> => ~ResponseFails /\ (ResponseOk => s2c' = <<"err">> /\ told' = told)
  BY <1>2 DEF ResponseOk, ResponseFails
<1> QED
  BY <1>2, <1>3, <1>4 DEF Late

\* The client's account goes on.
LEMMA AccountedNext ==
  ASSUME Nested, TypeOK, Accounted, up, UNCHANGED <<up, dst, given>>, told \subseteq told',
         \/ i' = i
         \/ i' = i + 1 /\ (IsFile(i) => Delivered(List[i].path) \/ i \in told'),
         cpc' \in {"done", "died"} => i' = Len(List) + 1 \/ 0 \in told'
  PROVE  Accounted'
<1>1. \A p : Site(p)' = Site(p)
  BY GivenFacts DEF given
<1>2. \A p : Delivered(p) => Delivered(p)'
  BY <1>1 DEF Delivered
<1>3. i \in Nat
  BY DEF TypeOK
<1>4. ASSUME NEW k \in FileEntries, k < i' PROVE Delivered(List[k].path)' \/ told' \cap {0, k} # {}
  <2>1. k \in Nat /\ IsFile(k)
    BY ListFacts DEF FileEntries, IsFile
  <2>2. CASE k < i
    <3>1. Delivered(List[k].path) \/ told \cap {0, k} # {}
      BY <2>2 DEF Accounted
    <3> QED
      BY <1>2, <3>1
  <2>3. CASE ~(k < i)
    <3>1. i' = i + 1 /\ k = i
      BY <1>3, <1>4, <2>1, <2>3
    <3> QED
      BY <1>2, <2>1, <3>1
  <2> QED
    BY <2>2, <2>3
<1>5. FileEntries' = FileEntries
  BY DEF FileEntries
<1> QED
  BY <1>4, <1>5 DEF Accounted

\* Sound leaves these failures out.
LEMMA SoundFacts ==
  ASSUME Sound
  PROVE  /\ Unreadable \subseteq Checked
         /\ \A f \in {"statdir", "unlink", "read", "shrink", "grow", "alloc", "mkdir", "dirtimes"} : ~May(f)
BY DEF Sound, May, Independent

\* Over a broken connection the client sends nothing more.
LEMMA ClientDown ==
  ASSUME Nested, TypeOK, Together, Accounted, Client, ~up
  PROVE  Together' /\ Accounted'
<1>1. UNCHANGED <<up, serverVars, given>>
  BY DEF Client, Expand, Greeted, Finish, SendExit, Exited, SendFile, TimesAnswered,
         ControlAnswered, SendData, Acknowledged
<1>2. ServerGone
  BY DEF ServerGone
<1>3. UNCHANGED c2s
  BY <1>2 DEF Client, Expand, Greeted, Finish, SendExit, Exited, SendFile, TimesAnswered,
         ControlAnswered, SendData, Acknowledged, Send, SendControl
<1>4. c2s \in Seq(Cells) /\ Len(c2s) \in Nat /\ Len(c2s) \in 0..Len(c2s) /\ SubSeq(c2s, 1, Len(c2s)) = c2s
  <2>1. c2s \in Seq(Cells)
    BY DEF TypeOK
  <2>2. Len(c2s) \in Nat
    BY <2>1
  <2> QED
    BY <2>1, <2>2, SubSeqFull
<1>5. Together'
  BY <1>1, <1>3, <1>4, CutStream
<1>6. Accounted'
  BY <1>1 DEF Accounted
<1> QED
  BY <1>5, <1>6

\* The steps of the client while the connection stands, from the greeting on.
LEMMA ClientGreets ==
  ASSUME Nested, TypeOK, Placed, Together, Accounted, up, Expand \/ Greeted
  PROVE  Together' /\ Accounted'
<1>1. UNCHANGED <<up, serverVars, given>> /\ c2s' = c2s /\ i = 0 /\ 1 \in 1..(Len(List) + 1)
      /\ cpc \in {"expand", "greet"}
  <2>1. 1 \in 1..(Len(List) + 1)
    BY ListFacts
  <2> QED
    BY <2>1 DEF Expand, Greeted, Placed
<1>2. Starting \/ (Fits /\ Idle(1) /\ s2c = <<"ok">>) \/ (Gone /\ s2c = <<"err">>)
  BY <1>1, UpSituation
<1>3. spc' = spc /\ stack' = stack /\ file' = file /\ dst' = dst /\ dst0' = dst0 /\ mode' = mode /\ UNCHANGED given
      /\ (\A d : (Levels(d) => Levels(d)') /\ (Entering(d) => Entering(d)'))
  BY <1>1, SameServer DEF given
<1>4. CASE Expand
  <2>1. cpc' \in {"greet", "died"} /\ i' = i /\ s2c' = s2c /\ (cpc' = "died" => 0 \in told')
    BY <1>1, <1>4 DEF Expand
  <2>2. Accounted'
    <3>1. \A k \in FileEntries : ~(k < 0)
      BY ListFacts DEF FileEntries
    <3> QED
      BY <1>1, <2>1, <3>1 DEF Accounted, FileEntries
  <2>3. CASE Starting
    <3>1. Starting'
      BY <1>1, <1>3, <2>1, <2>3 DEF Starting
    <3> QED
      BY <2>2, <3>1 DEF Together
  <2>4. CASE Fits /\ Idle(1) /\ s2c = <<"ok">>
    <3>1. spc = "read" /\ Levels(Walk[1]) /\ c2s = <<>>
      BY <2>4 DEF Idle
    <3>2. CASE cpc' = "greet"
      <4>1. Awaited(1)'
        BY <1>1, <2>1, <2>4, <3>2 DEF Awaited
      <4> QED
        BY <1>1, <2>2, <2>4, <3>1, <4>1, IdleNext
    <3>3. CASE cpc' = "died"
      <4>1. Over'
        BY <1>1, <1>3, <3>1, <3>3 DEF Over, ClientGone
      <4> QED
        BY <2>2, <4>1 DEF Together
    <3> QED
      BY <2>1, <3>2, <3>3
  <2>5. CASE Gone /\ s2c = <<"err">>
    <3>1. Gone'
      BY <1>1, <1>3, <2>1, <2>5 DEF Gone
    <3> QED
      BY <2>2, <3>1 DEF Together
  <2> QED
    BY <1>2, <2>3, <2>4, <2>5
<1>5. CASE Greeted
  <2>1. cpc = "greet" /\ ((ResponseOk /\ cpc' = "next" /\ i' = 1) \/ (ResponseFails /\ cpc' = "done" /\ i' = i))
    BY <1>5 DEF Greeted
  <2>2. CASE Starting
    <3>1. ~ServerGone /\ s2c = <<>>
      BY <1>1, <2>2 DEF Starting, ServerGone
    <3> QED
      BY <2>1, <3>1, ResponseCases
  <2>3. CASE Fits /\ Idle(1) /\ s2c = <<"ok">>
    <3>1. spc = "read" /\ Levels(Walk[1]) /\ c2s = <<>> /\ ~ServerGone
      BY <2>3 DEF Idle, ServerGone
    <3>2. cpc' = "next" /\ i' = 1 /\ s2c' = <<>> /\ told' = told
      BY <2>1, <2>3, <3>1, ResponseCases
    <3>3. Awaited(1)'
      BY <3>2 DEF Awaited
    <3>4. Together'
      BY <1>1, <2>3, <3>1, <3>3, IdleNext
    <3>5. Accounted'
      <4>1. ~IsFile(i)
        BY <1>1, ListFacts DEF IsFile
      <4> QED
        BY <1>1, <1>3, <3>2, <4>1, AccountedNext
    <3> QED
      BY <3>4, <3>5
  <2>4. CASE Gone /\ s2c = <<"err">>
    <3>1. cpc' = "done" /\ i' = i /\ 0 \in told' /\ told \subseteq told'
      <4>1. Head(<<"err">>) = "err" /\ <<"err">> # <<>>
        OBVIOUS
      <4> QED
        BY <1>1, <2>1, <2>4, <4>1 DEF ResponseOk, ResponseFails
    <3>2. Gone'
      BY <1>3, <2>4, <3>1 DEF Gone
    <3>3. Accounted'
      BY <1>1, <1>3, <3>1, AccountedNext
    <3> QED
      BY <3>2, <3>3 DEF Together
  <2> QED
    BY <1>2, <2>2, <2>3, <2>4
<1> QED
  BY <1>4, <1>5

\* Requests are what the actions of the client send.
LEMMA SendsRequests ==
  ASSUME Nested, i \in 1..Len(List)
  PROVE  /\ IsExit(i) => \E r \in Requests(i) : r = Plain("E") /\ (cpc' = "exit" => Waits(r)')
         /\ ~IsExit(i) =>
              /\ \E r \in Requests(i) : r = Plain("T") /\ (cpc' = "times" => Waits(r)')
              /\ \E r \in Requests(i) : r = Control(List[i]) /\ (cpc' = "control" => Waits(r)')
<1>1. i \in DOMAIN List
  BY ListFacts
<1>2. ASSUME NEW r, r = Plain("E"), cpc' = "exit" PROVE Waits(r)'
  <2>1. r.kind = "E"
    BY <1>2 DEF Plain, Record
  <2> QED
    BY <1>2, <2>1 DEF Waits
<1>3. ASSUME NEW r, r = Plain("T"), cpc' = "times" PROVE Waits(r)'
  <2>1. r.kind = "T"
    BY <1>3 DEF Plain, Record
  <2> QED
    BY <1>3, <2>1 DEF Waits
<1>4. ASSUME NEW r, r = Control(List[i]), cpc' = "control" PROVE Waits(r)'
  <2>1. r.kind \in {"C", "D"}
    BY <1>4 DEF Control, Record
  <2> QED
    BY <1>4, <2>1 DEF Waits
<1>5. (IsExit(i) => Plain("E") \in Requests(i)) /\ (~IsExit(i) => Plain("T") \in Requests(i) /\ Control(List[i]) \in Requests(i))
  BY <1>1 DEF Requests
<1> QED
  BY <1>2, <1>3, <1>4, <1>5

\* From the next entry of the list on.
LEMMA ClientNext ==
  ASSUME Nested, TypeOK, Placed, Together, Accounted, up, Finish \/ SendExit \/ SendFile,
         ~May("statdir") \/ told' = {}
  PROVE  Together' /\ Accounted'
<1>1. UNCHANGED <<up, serverVars, given>> /\ cpc = "next" /\ s2c' = s2c
  BY DEF Finish, SendExit, SendFile
<1>2. /\ Fits /\ ~ServerGone /\ s2c = <<>>
      /\ Idle(i) \/ (c2s = <<Plain("nul")>> /\ \E j \in 1..Len(List) : Behind(j, i))
  BY <1>1, UpSituation
<1>3. Len(List) \in Nat /\ DOMAIN List = 1..Len(List) /\ i \in 1..(Len(List) + 1) /\ i \in Nat
  BY <1>1, ListFacts DEF TypeOK, Placed
<1>4. dst' = dst /\ UNCHANGED given /\ spc' = spc
  BY <1>1 DEF serverVars, given
<1>5. ASSUME Idle(i) PROVE spc = "read" /\ Levels(Walk[i]) /\ c2s = <<>>
  BY <1>5 DEF Idle
<1>6. ASSUME NEW j \in 1..Len(List), Behind(j, i)
      PROVE  /\ spc = "response" /\ Receiving(j) /\ file.wrerr = "displayed" /\ j \in 1..(Len(List) + 1)
             /\ i \in (j + 1)..(Len(List) + 1) /\ Walk[i] = Walk[j]
  BY <1>3, <1>6 DEF Behind, Closing
<1>7. Plain("nul") \in Cells /\ Plain("E") \in Cells /\ Plain("T") \in Cells
  BY CellFacts DEF Controls
\* A request is sent.
<1>8. ASSUME NEW r \in Requests(i), r \in Cells, c2s' = Append(c2s, r), Waits(r)', i' = i
      PROVE  Together'
  <2>1. CASE Idle(i)
    <3>1. c2s' = <<r>>
      BY <1>5, <1>8, <2>1
    <3> QED
      BY <1>1, <1>2, <1>3, <1>5, <1>8, <2>1, <3>1, RequestedNext
  <2>2. CASE c2s = <<Plain("nul")>> /\ \E j \in 1..Len(List) : Behind(j, i)
    <3>1. PICK j \in 1..Len(List) : Behind(j, i)
      BY <2>2
    <3>2. c2s' = <<Plain("nul"), r>>
      BY <1>7, <1>8, <2>2, PairFacts
    <3> QED
      BY <1>1, <1>2, <1>3, <1>6, <1>8, <3>1, <3>2, BehindNext
  <2> QED
    BY <1>2, <2>1, <2>2
<1>9. CASE Finish
  <2>1. i = Len(List) + 1 /\ cpc' = "done" /\ i' = i /\ told' = told /\ c2s' = c2s
    BY <1>3, <1>9 DEF Finish
  <2>2. Accounted'
    BY <1>1, <1>4, <2>1, AccountedNext
  <2>3. CASE Idle(i)
    <3>1. Over'
      BY <1>4, <1>5, <2>1, <2>3 DEF Over, ClientGone
    <3> QED
      BY <2>2, <3>1 DEF Together
  <2>4. CASE c2s = <<Plain("nul")>> /\ \E j \in 1..Len(List) : Behind(j, i)
    <3>1. PICK j \in 1..Len(List) : Behind(j, i)
      BY <2>4
    <3>2. Together'
      BY <1>1, <1>2, <1>3, <1>6, <2>1, <2>4, <3>1, BehindNext
    <3> QED
      BY <2>2, <3>2
  <2> QED
    BY <1>2, <2>3, <2>4
<1>10. CASE SendExit
  <2>1. IsExit(i) /\ i \in 1..Len(List) /\ i' = i /\ cpc' = "exit" /\ c2s' = Append(c2s, Plain("E")) /\ told' = told
    BY <1>2, <1>3, <1>10 DEF SendExit, IsExit
  <2>2. PICK r \in Requests(i) : r = Plain("E") /\ Waits(r)'
    BY <2>1, SendsRequests
  <2>3. Together'
    BY <1>7, <1>8, <2>1, <2>2
  <2>4. Accounted'
    BY <1>1, <1>4, <2>1, AccountedNext
  <2> QED
    BY <2>3, <2>4
<1>11. CASE SendFile
  <2>1. i \in 1..Len(List) /\ ~IsExit(i) /\ i \in DOMAIN List /\ Control(List[i]) \in Cells
    <3>1. i \in 1..Len(List) /\ List[i] # ExitMark
      BY <1>3, <1>11 DEF SendFile
    <3> QED
      BY <1>3, <3>1, CellFacts DEF IsExit
  <2>2. CASE cpc' = "next"
    <3>0. told' = told \cup {i} /\ i' = i + 1 /\ c2s' = c2s
          /\ May(IF List[i].path \in Files THEN "vanish" ELSE "statdir")
      BY <1>2, <1>11, <2>1, <2>2 DEF SendFile, Send, SendControl, Advance
    <3>1. IsFile(i) /\ i' = i + 1 /\ told' = told \cup {i} /\ c2s' = c2s
      BY <2>1, <3>0 DEF IsFile
    <3>2. Walk[i + 1] = Walk[i] /\ i + 1 \in 1..(Len(List) + 1)
      BY <1>3, <2>1, <3>1, EntryFacts
    <3>3. Accounted'
      BY <1>1, <1>4, <2>2, <3>1, AccountedNext
    <3>4. CASE Idle(i)
      <4>1. spc = "read" /\ Levels(Walk[i + 1]) /\ c2s' = <<>>
        BY <1>5, <3>1, <3>2, <3>4
      <4>2. PICK k \in 1..(Len(List) + 1) : k = i + 1
        BY <3>2
      <4>3. Awaited(k)'
        BY <1>1, <1>2, <2>2, <3>1, <4>2 DEF Awaited
      <4>4. Together'
        BY <1>1, <1>2, <4>1, <4>2, <4>3, IdleNext
      <4> QED
        BY <3>3, <4>4
    <3>5. CASE c2s = <<Plain("nul")>> /\ \E j \in 1..Len(List) : Behind(j, i)
      <4>1. PICK j \in 1..Len(List) : Behind(j, i)
        BY <3>5
      <4>2. PICK k \in (j + 1)..(Len(List) + 1) : k = i + 1
        BY <1>3, <1>6, <3>2, <4>1
      <4>3. Walk[k] = Walk[j] /\ i' = k
        BY <1>6, <3>1, <3>2, <4>1, <4>2
      <4>4. Together'
        BY <1>1, <1>2, <1>6, <2>2, <3>1, <3>5, <4>1, <4>2, <4>3, BehindNext
      <4> QED
        BY <3>3, <4>4
    <3> QED
      BY <1>2, <3>4, <3>5
  <2>3. CASE cpc' # "next"
    <3>1. /\ i' = i /\ told' = told
          /\ \/ cpc' = "times" /\ c2s' = Append(c2s, Plain("T"))
             \/ cpc' = "control" /\ c2s' = Append(c2s, Control(List[i]))
      BY <1>2, <1>11, <2>3 DEF SendFile, Send, SendControl, Advance
    <3>2. PICK r \in Requests(i) : r \in Cells /\ Waits(r)' /\ c2s' = Append(c2s, r)
      <4>1. CASE cpc' = "times" /\ c2s' = Append(c2s, Plain("T"))
        <5>1. PICK r \in Requests(i) : r = Plain("T") /\ Waits(r)'
          BY <2>1, <4>1, SendsRequests
        <5> QED
          BY <1>7, <4>1, <5>1
      <4>2. CASE cpc' = "control" /\ c2s' = Append(c2s, Control(List[i]))
        <5>1. PICK r \in Requests(i) : r = Control(List[i]) /\ Waits(r)'
          BY <2>1, <4>2, SendsRequests
        <5> QED
          BY <2>1, <4>2, <5>1
      <4> QED
        BY <3>1, <4>1, <4>2
    <3>3. Together'
      BY <1>8, <3>1, <3>2
    <3>4. Accounted'
      <4>1. cpc' \in {"times", "control"}
        BY <3>1
      <4> QED
        BY <1>1, <1>4, <3>1, <4>1, AccountedNext
    <3> QED
      BY <3>3, <3>4
  <2> QED
    BY <2>2, <2>3
<1> QED
  BY <1>9, <1>10, <1>11

\* The client goes on to the next entry while the server is idle.
LEMMA IdleAdvance ==
  ASSUME Nested, Fits, UNCHANGED <<serverVars, given>>, i \in 1..Len(List),
         spc = "read", Levels(Walk[i + 1]), c2s' = <<>>, s2c' = <<>>, Advance
  PROVE  Together'
<1>1. PICK k \in 1..(Len(List) + 1) : k = i + 1
  BY ListFacts
<1>2. Awaited(k)'
  BY <1>1 DEF Awaited, Advance
<1> QED
  BY <1>1, <1>2, IdleNext

\* Answers to an exit mark and to times.
LEMMA ClientHearsFirst ==
  ASSUME Nested, TypeOK, Placed, Together, Accounted, up, Exited \/ TimesAnswered
  PROVE  Together' /\ Accounted'
<1>1. UNCHANGED <<up, serverVars, given>> /\ cpc \in {"exit", "times"}
  BY DEF Exited, TimesAnswered
<1>2. Fits /\ ~ServerGone
  BY <1>1, UpSituation
<1>3. Len(List) \in Nat /\ DOMAIN List = 1..Len(List) /\ i \in 1..Len(List) /\ i \in Nat
  BY <1>1, ListFacts DEF Placed
<1>4. dst' = dst /\ UNCHANGED given /\ spc' = spc
  BY <1>1 DEF serverVars, given
<1>5. CASE Exited
  <2>1. s2c # <<>> /\ c2s' = c2s /\ cpc = "exit"
    BY <1>2, <1>5 DEF Exited, ResponseOk
  <2>2. s2c = <<"ok">> /\ Idle(i + 1)
    BY <2>1, UpSituation
  <2>3. ResponseOk /\ Advance
    <3>1. Head(<<"ok">>) = "ok"
      OBVIOUS
    <3> QED
      BY <1>5, <2>1, <2>2, <3>1 DEF Exited
  <2>4. s2c' = <<>> /\ told' = told
    BY <1>2, <2>2, <2>3, ResponseCases
  <2>5. spc = "read" /\ Levels(Walk[i + 1]) /\ c2s' = <<>>
    BY <2>1, <2>2 DEF Idle
  <2>6. Together'
    BY <1>1, <1>2, <1>3, <2>3, <2>4, <2>5, IdleAdvance
  <2>7. Accounted'
    <3>1. ~IsFile(i) /\ cpc' = "next" /\ i' = i + 1
      <4>1. IsExit(i)
        <5>1. PICK j : j = i + 1
          OBVIOUS
        <5>2. Awaited(j)
          BY <2>2, <5>1 DEF Idle
        <5> QED
          BY <2>1, <5>2 DEF Awaited
      <4> QED
        BY <1>3, <2>3, <4>1, EntryFacts DEF Advance
    <3> QED
      BY <1>1, <1>4, <2>4, <3>1, AccountedNext
  <2> QED
    BY <2>6, <2>7
<1>6. CASE TimesAnswered
  <2>1. cpc = "times" /\ (ResponseOk \/ ResponseFails)
    BY <1>6 DEF TimesAnswered
  <2>2. s2c = <<"ok">> /\ Idle(i)
    BY <1>2, <2>1, UpSituation, ResponseCases
  <2>3. ~ResponseFails /\ s2c' = <<>> /\ told' = told
    BY <1>2, <2>1, <2>2, ResponseCases
  <2>4. cpc' = "control" /\ c2s' = Append(c2s, Control(List[i])) /\ i' = i
    BY <1>2, <1>6, <2>3 DEF TimesAnswered, SendControl, Send
  <2>5. spc = "read" /\ Levels(Walk[i]) /\ c2s = <<>> /\ ~IsExit(i)
    BY <1>3, <2>1, <2>2 DEF Idle, Placed, IsExit
  <2>6. PICK r \in Requests(i) : r = Control(List[i]) /\ Waits(r)'
    BY <1>3, <2>4, <2>5, SendsRequests
  <2>7. c2s' = <<r>>
    BY <2>4, <2>5, <2>6
  <2>8. Together'
    <3>1. i \in 1..(Len(List) + 1)
      BY <1>3
    <3> QED
      BY <1>1, <1>2, <2>3, <2>4, <2>5, <2>6, <2>7, <3>1, RequestedNext
  <2>9. Accounted'
    BY <1>1, <1>4, <2>3, <2>4, AccountedNext
  <2> QED
    BY <2>8, <2>9
<1> QED
  BY <1>5, <1>6

\* The answer to the mode, the size and the name of an entry.
LEMMA ClientHearsControl ==
  ASSUME Nested, TypeOK, Placed, Together, Accounted, up, ControlAnswered
  PROVE  Together' /\ Accounted'
<1>1. UNCHANGED <<up, serverVars, given>> /\ cpc = "control" /\ c2s' = c2s /\ (ResponseOk \/ ResponseFails)
  BY DEF ControlAnswered
<1>2. Fits /\ ~ServerGone
  BY <1>1, UpSituation
<1>3. Len(List) \in Nat /\ DOMAIN List = 1..Len(List) /\ i \in 1..Len(List) /\ i \in Nat /\ ~IsExit(i)
  BY <1>1, ListFacts DEF Placed, IsExit
<1>4. dst' = dst /\ UNCHANGED given /\ spc' = spc /\ file' = file
  BY <1>1 DEF serverVars, given
<1>5. s2c # <<>>
  BY <1>1, <1>2, ResponseCases
<1>6. CASE s2c = <<"err">> /\ Idle(i) /\ IsFile(i)
  <2>1. Advance /\ s2c' = <<>> /\ told' = told \cup {i}
    BY <1>2, <1>6, ResponseCases DEF ControlAnswered
  <2>2. spc = "read" /\ Levels(Walk[i + 1]) /\ c2s' = <<>>
    BY <1>1, <1>3, <1>6, EntryFacts DEF Idle
  <2>3. Together'
    BY <1>1, <1>2, <1>3, <2>1, <2>2, IdleAdvance
  <2>4. Accounted'
    BY <1>1, <1>4, <2>1, AccountedNext DEF Advance
  <2> QED
    BY <2>3, <2>4
<1>7. CASE s2c = <<"ok">> /\ Idle(i + 1) /\ MakesDir(i)
  <2>1. ~ResponseFails /\ s2c' = <<>> /\ told' = told
    BY <1>1, <1>2, <1>7, ResponseCases
  <2>2. Advance
    BY <1>3, <1>7, <2>1, EntryFacts DEF ControlAnswered
  <2>3. spc = "read" /\ Levels(Walk[i + 1]) /\ c2s' = <<>>
    BY <1>1, <1>7 DEF Idle
  <2>4. Together'
    BY <1>1, <1>2, <1>3, <2>1, <2>2, <2>3, IdleAdvance
  <2>5. Accounted'
    <3>1. ~IsFile(i)
      BY <1>3, <1>7, EntryFacts
    <3> QED
      BY <1>1, <1>4, <2>1, <2>2, <3>1, AccountedNext DEF Advance
  <2> QED
    BY <2>4, <2>5
<1>8. CASE s2c = <<"ok">> /\ Storing(i) /\ file.got = 0 /\ c2s = <<>>
  <2>1. ~ResponseFails /\ s2c' = <<>> /\ told' = told
    BY <1>1, <1>2, <1>8, ResponseCases
  <2>2. Receiving(i) /\ IsFile(i)
    BY <1>8 DEF Storing, Receiving
  <2>3. cpc' = "open" /\ i' = i
    BY <1>3, <2>1, <2>2, EntryFacts DEF ControlAnswered
  <2>4. PICK j \in 1..(Len(List) + 1) : j = i
    BY <1>3
  <2>5. Storing(j)
    BY <1>8, <2>4
  <2>6. Receiving(j)'
    BY <1>1, <2>2, <2>4, SameServer
  <2>7. i' = j /\ file'.got = 0 /\ c2s' = c2s /\ c2s' = <<>> /\ s2c' = <<>> /\ cpc' = "open"
    BY <1>1, <1>4, <1>8, <2>1, <2>3, <2>4
  <2>8. Storing(j)'
    BY <1>4, <2>5, <2>6, <2>7, dst' = dst DEF Storing
  <2>9. Together'
    BY <1>2, <1>4, <2>8, SituationNext
  <2>10. Accounted'
    BY <1>1, <1>4, <2>1, <2>3, AccountedNext
  <2> QED
    BY <2>9, <2>10
<1>9. CASE s2c = <<"ok">> \o Late /\ Closing(i) /\ file.size = 0 /\ c2s = <<>>
  <2>1. ~ResponseFails /\ s2c' = Late /\ told' = told
    BY <1>1, <1>2, <1>9, ResponseCases
  <2>2. Receiving(i) /\ IsFile(i)
    BY <1>9 DEF Closing, Receiving
  <2>3. cpc' = "open" /\ i' = i
    BY <1>3, <2>1, <2>2, EntryFacts DEF ControlAnswered
  <2>4. PICK j \in 1..(Len(List) + 1) : j = i
    BY <1>3
  <2>5. Closing(j)
    BY <1>9, <2>4
  <2>6. Receiving(j)' /\ Late' = Late /\ \A p : Delivered(p)' = Delivered(p)
    BY <1>1, <2>2, <2>4, SameServer
  <2>7. spc' = "response" /\ (file'.wrerr = "no" => Delivered(List[j].path)')
    BY <1>4, <2>5, <2>6 DEF Closing
  <2>8. c2s' = <<>> /\ i' = j /\ file'.size = 0 /\ cpc' = "open" /\ s2c' = Late'
    BY <1>1, <1>4, <1>9, <2>1, <2>3, <2>4, <2>6
  <2>9. Closing(j)'
    BY <2>6, <2>7, <2>8 DEF Closing
  <2>10. Together'
    BY <1>2, <1>4, <2>9, SituationNext
  <2>11. Accounted'
    BY <1>1, <1>4, <2>1, <2>3, AccountedNext
  <2> QED
    BY <2>10, <2>11
<1> QED
  BY <1>1, <1>5, <1>6, <1>7, <1>8, <1>9, UpSituation

\* The answer to the data of a file.
LEMMA ClientHearsData ==
  ASSUME Nested, TypeOK, Placed, Together, Accounted, up, Acknowledged
  PROVE  Together' /\ Accounted'
<1>1. UNCHANGED <<up, serverVars, given>> /\ cpc = "ack" /\ c2s' = c2s /\ (ResponseOk \/ ResponseFails) /\ Advance
  BY DEF Acknowledged
<1>2. Fits /\ ~ServerGone
  BY <1>1, UpSituation
<1>3. Len(List) \in Nat /\ DOMAIN List = 1..Len(List) /\ i \in 1..Len(List) /\ i \in Nat /\ ~IsExit(i) /\ IsFile(i)
  BY <1>1, ListFacts DEF Placed, IsExit
<1>4. dst' = dst /\ UNCHANGED given /\ spc' = spc /\ file' = file /\ cpc' = "next" /\ i' = i + 1
  BY <1>1 DEF serverVars, given, Advance
<1>5. s2c # <<>>
  BY <1>1, <1>2, ResponseCases
<1>6. Walk[i + 1] = Walk[i]
  BY <1>3, EntryFacts
<1>7. CASE s2c = <<"err">> /\ Idle(i)
  <2>1. s2c' = <<>> /\ told' = told \cup {i}
    BY <1>1, <1>2, <1>7, ResponseCases
  <2>2. spc = "read" /\ Levels(Walk[i + 1]) /\ c2s' = <<>>
    BY <1>1, <1>6, <1>7 DEF Idle
  <2>3. Together'
    BY <1>1, <1>2, <1>3, <2>1, <2>2, IdleAdvance
  <2>4. Accounted'
    BY <1>1, <1>4, <2>1, AccountedNext
  <2> QED
    BY <2>3, <2>4
<1>8. CASE s2c = <<"ok">> /\ Idle(i) /\ Delivered(List[i].path)
  <2>1. s2c' = <<>> /\ told' = told
    BY <1>1, <1>2, <1>8, ResponseCases
  <2>2. spc = "read" /\ Levels(Walk[i + 1]) /\ c2s' = <<>>
    BY <1>1, <1>6, <1>8 DEF Idle
  <2>3. Together'
    BY <1>1, <1>2, <1>3, <2>1, <2>2, IdleAdvance
  <2>4. Accounted'
    BY <1>1, <1>4, <1>8, <2>1, AccountedNext
  <2> QED
    BY <2>3, <2>4
<1>9. CASE s2c = Late /\ Closing(i) /\ c2s = <<Plain("nul")>>
  <2>1. s2c' = <<>> /\ told' = told \cup {i} /\ file.wrerr = "displayed"
    BY <1>1, <1>2, <1>9, ResponseCases
  <2>2. spc = "response" /\ Receiving(i)
    BY <1>9 DEF Closing
  <2>3. PICK j \in 1..Len(List) : j = i
    BY <1>3
  <2>4. PICK k \in (j + 1)..(Len(List) + 1) : k = i + 1
    BY <1>3, <2>3
  <2>5. Together'
    <3>1. j \in 1..(Len(List) + 1) /\ Walk[k] = Walk[j] /\ i' = k /\ Receiving(j)
      BY <1>3, <1>4, <1>6, <2>2, <2>3, <2>4
    <3>2. c2s' = <<Plain("nul")>>
      BY <1>1, <1>9
    <3> QED
      BY <1>1, <1>2, <1>4, <2>1, <2>2, <2>4, <3>1, <3>2, BehindNext
  <2>6. Accounted'
    BY <1>1, <1>4, <2>1, AccountedNext
  <2> QED
    BY <2>5, <2>6
<1> QED
  BY <1>1, <1>5, <1>7, <1>8, <1>9, UpSituation

\* A file is sent as long as it was announced.
SendsWhole ==
  /\ i' = i /\ told' = told /\ cpc' = "ack"
  /\ c2s' = c2s \o [k \in 1..Size[List[i].path] |-> DataCell(List[i].path, k)] \o <<Plain("nul")>>

\* With independent failures it always is.
LEMMA SoundSendsWhole ==
  ASSUME Nested, TypeOK, Placed, Sound, Together, up, SendData
  PROVE  SendsWhole
<1>1. cpc = "open" /\ s2c' = s2c
  BY DEF SendData
<1>2. ~ServerGone
  BY <1>1, UpSituation
<1>3. i \in 1..Len(List) /\ ~IsExit(i) /\ IsFile(i)
  BY <1>1, ListFacts DEF Placed, IsExit
<1>4. PICK p : p = List[i].path
  OBVIOUS
<1>5. p \in Paths /\ Size[p] \in Nat /\ p \notin Unreadable
  <2>1. p \in Files /\ p \in Paths
    BY <1>3, <1>4, EntryFacts
  <2>2. Checked \cap Unreadable = {} /\ Unreadable \subseteq Checked
    BY <1>1, SoundFacts DEF Placed
  <2> QED
    BY <2>1, <2>2, PcpAssumption
<1>6. ~May("unlink") /\ ~May("read") /\ ~May("shrink") /\ ~May("grow")
  BY SoundFacts
<1>7. /\ i' = i /\ told' = told /\ cpc' = "ack"
      /\ \E m \in Lengths(Size[p]) :
           c2s' = c2s \o [k \in 1..m |-> DataCell(p, k)] \o <<Plain("nul")>>
  BY <1>2, <1>4, <1>5, <1>6 DEF SendData, Data
<1>8. Lengths(Size[p]) = {Size[p]}
  BY <1>6 DEF Lengths
<1> QED
  BY <1>4, <1>7, <1>8 DEF SendsWhole

\* The data of a file, and the mark that ends it.
LEMMA ClientSendsData ==
  ASSUME Nested, TypeOK, Placed, Together, Accounted, up, SendData, SendsWhole
  PROVE  Together' /\ Accounted'
<1>1. UNCHANGED <<up, serverVars, given>> /\ cpc = "open" /\ s2c' = s2c
  BY DEF SendData
<1>2. Fits /\ ~ServerGone
  BY <1>1, UpSituation
<1>3. Len(List) \in Nat /\ DOMAIN List = 1..Len(List) /\ i \in 1..Len(List) /\ i \in Nat /\ ~IsExit(i) /\ IsFile(i)
  BY <1>1, ListFacts DEF Placed, IsExit
<1>4. dst' = dst /\ UNCHANGED given /\ spc' = spc /\ file' = file
  BY <1>1 DEF serverVars, given
<1>5. PICK j \in 1..(Len(List) + 1) : j = i
  BY <1>3
<1> DEFINE p == List[j].path
           n == Size[p]
           cells == [k \in 1..n |-> DataCell(p, k)]
<1>6. p \in Paths /\ n \in Nat
  <2>1. p \in Files /\ p \in Paths
    BY <1>3, <1>5, EntryFacts
  <2> QED
    BY <2>1, PcpAssumption
<1>7. i' = j /\ told' = told /\ cpc' = "ack" /\ c2s' = c2s \o cells \o <<Plain("nul")>>
  BY <1>5 DEF SendsWhole
<1>8. cells \in Seq(Cells) /\ Len(cells) = n /\ \A k \in 1..n : cells[k] = DataCell(p, k)
  BY <1>6, CellFacts
<1>9. Plain("nul") \in Cells
  BY CellFacts
<1>10. c2s = <<>> => /\ c2s' \in Seq(Cells) /\ Len(c2s') = n + 1
                     /\ \A k \in 1..(n + 1) : c2s'[k] = IF k <= n THEN DataCell(p, k) ELSE Plain("nul")
  <2> HIDE DEF cells, n, p
  <2>1. PICK t : t = <<Plain("nul")>>
    OBVIOUS
  <2>2. t \in Seq(Cells) /\ Len(t) = 1 /\ t[1] = Plain("nul")
    BY <1>9, <2>1
  <2>3. <<>> \o cells = cells
    BY <1>8, ConcatEmptySeq
  <2>4. c2s = <<>> => c2s' = cells \o t
    BY <1>7, <2>1, <2>3
  <2>5. /\ cells \o t \in Seq(Cells) /\ Len(cells \o t) = n + 1
        /\ \A k \in 1..(n + 1) : (cells \o t)[k] = IF k <= n THEN cells[k] ELSE t[k - n]
    <3>1. /\ cells \o t \in Seq(Cells) /\ Len(cells \o t) = Len(cells) + Len(t)
          /\ \A k \in 1..(Len(cells) + Len(t)) :
               (cells \o t)[k] = IF k <= Len(cells) THEN cells[k] ELSE t[k - Len(cells)]
      BY <1>8, <2>2, ConcatProperties
    <3> QED
      BY <1>8, <2>2, <3>1
  <2>6. \A k \in 1..(n + 1) : (k <= n => k \in 1..n) /\ (~(k <= n) => k - n = 1)
    BY <1>6
  <2> QED
    BY <1>8, <2>2, <2>4, <2>5, <2>6
<1>11. Accounted'
  BY <1>1, <1>4, <1>5, <1>7, AccountedNext
<1>12. CASE s2c = <<>> /\ Storing(i) /\ file.got = 0 /\ c2s = <<>>
  <2>1. Storing(j) /\ Receiving(j) /\ file.size = n
    BY <1>5, <1>12 DEF Storing, Receiving
  <2>2. Receiving(j)'
    BY <1>1, <2>1, SameServer
  <2>3. file'.size - file'.got = n /\ \A k \in 1..(n + 1) : file'.got + k = k
    BY <1>4, <1>6, <1>12, <2>1
  <2>4. Len(c2s') = n + 1 /\ \A k \in 1..Len(c2s') : c2s'[k] = IF k <= n THEN DataCell(p, file'.got + k) ELSE Plain("nul")
    <3> HIDE DEF n, p, cells
    <3> QED
      BY <1>10, <1>12, <2>3
  <2>5. Storing(j)'
    <3>1. \A k \in 1..Len(c2s') : c2s'[k] = IF k <= file'.size - file'.got THEN DataCell(List[j].path, file'.got + k)
                                            ELSE Plain("nul")
      BY <2>3, <2>4
    <3>2. Len(c2s') = file'.size - file'.got + 1 /\ Len(c2s') <= file'.size - file'.got + 1
      BY <1>6, <2>3, <2>4
    <3>3. /\ spc' = "data" /\ file'.wrerr # "displayed" /\ file'.got = 0
          /\ file'.wrerr = "no" => /\ file'.got <= Len(dst'[file'.path].data)
                                   /\ \A k \in 1..file'.got : dst'[file'.path].data[k] = DataCell(List[j].path, k)
      BY <1>4, <1>12, <2>1 DEF Storing
    <3>4. i' = j /\ cpc' = "ack" /\ s2c' = <<>>
      BY <1>1, <1>7, <1>12
    <3> HIDE DEF n, p, cells
    <3> QED
      BY <2>2, <3>1, <3>2, <3>3, <3>4 DEF Storing
  <2>6. Together'
    BY <1>2, <1>4, <2>5, SituationNext
  <2> QED
    BY <1>11, <2>6
<1>13. CASE s2c = Late /\ Closing(i) /\ file.size = 0 /\ c2s = <<>>
  <2>1. Closing(j) /\ Receiving(j) /\ n = 0
    BY <1>5, <1>13 DEF Closing, Receiving
  <2>2. Receiving(j)' /\ Late' = Late /\ \A q : Delivered(q)' = Delivered(q)
    BY <1>1, <2>1, SameServer
  <2>3. c2s' = <<Plain("nul")>>
    <3> HIDE DEF n, p, cells
    <3>1. c2s' \in Seq(Cells) /\ Len(c2s') = 1 /\ c2s'[1] = Plain("nul")
      BY <1>10, <1>13, <2>1
    <3> QED
      BY <3>1, ShortSequences
  <2>4. spc' = "response" /\ (file'.wrerr = "no" => Delivered(List[j].path)')
    BY <1>4, <2>1, <2>2 DEF Closing
  <2>5. i' = j /\ cpc' = "ack" /\ s2c' = Late'
    BY <1>1, <1>7, <1>13, <2>2
  <2>6. Closing(j)'
    <3> HIDE DEF n, p, cells
    <3> QED
      BY <2>2, <2>3, <2>4, <2>5 DEF Closing
  <2>7. Together'
    BY <1>2, <1>4, <2>6, SituationNext
  <2> QED
    BY <1>11, <2>7
<1> QED
  BY <1>1, <1>12, <1>13, UpSituation

\* Every step of the client keeps the two sides together.
LEMMA ClientStep ==
  ASSUME Nested, TypeOK, Placed, Sound, Together, Accounted, Client
  PROVE  Together' /\ Accounted'
<1>1. CASE ~up
  BY <1>1, ClientDown
<1>2. CASE up
  BY <1>2, ClientGreets, ClientNext, ClientHearsFirst, ClientHearsControl, ClientHearsData,
     ClientSendsData, SoundSendsWhole, SoundFacts DEF Client
<1> QED
  BY <1>1, <1>2

-----------------------------------------------------------------------------
(* The steps of the server.                                                *)

\* What the server answers.
LEMMA AnswerCases ==
  ASSUME TypeOK, up
  PROVE  /\ s2c = <<>> => \A a \in {"ok", "err"} : Respond(a) => s2c' = <<a>>
         /\ \A a \in Seq({"ok", "err"}) : s2c = <<>> /\ Answer(a) => s2c' = a
         /\ Answer(<<>>) => s2c' = s2c
         /\ s2c = <<"ok">> /\ Respond("err") => s2c' = <<"ok">> \o <<"err">>
<1>1. s2c \in Seq({"ok", "err"})
  BY DEF TypeOK
<1>2. \A a \in Seq({"ok", "err"}) : <<>> \o a = a
  BY ConcatEmptySeq
<1>3. \A a \in {"ok", "err"} : <<a>> \in Seq({"ok", "err"})
  OBVIOUS
<1>4. s2c \o <<>> = s2c
  BY <1>1, ConcatEmptySeq
<1>5. \A a \in Seq({"ok", "err"}) : s2c = <<>> /\ Answer(a) => s2c' = a
  BY <1>2 DEF Answer
<1>6. \A a : Respond(a) => Answer(<<a>>)
  BY DEF Respond
<1>7. s2c = <<>> => \A a \in {"ok", "err"} : Respond(a) => s2c' = <<a>>
  BY <1>3, <1>5, <1>6
<1>8. Answer(<<>>) => s2c' = s2c
  BY <1>4 DEF Answer
<1>9. s2c = <<"ok">> /\ Respond("err") => s2c' = <<"ok">> \o <<"err">>
  BY <1>6 DEF Answer
<1> QED
  BY <1>5, <1>7, <1>8, <1>9

\* A return answers what it is given, and an error more if the times of a directory
\* that is left cannot be set.
LEMMA ReturnAnswers ==
  ASSUME NEW a, Return(a)
  PROVE  \/ Answer(a)
         \/ Answer(a \o <<"err">>) /\ May("dirtimes") /\ Len(stack) > 1
BY DEF Return

\* A return with an error is answered with one.
LEMMA ReturnsError ==
  ASSUME TypeOK, up, s2c = <<>>, Return(<<"err">>)
  PROVE  s2c' # <<>> /\ Head(s2c') = "err"
<1>1. "err" \in {"ok", "err"} /\ <<"err">> \in Seq({"ok", "err"}) /\ <<"err", "err">> \in Seq({"ok", "err"})
  OBVIOUS
<1>2. <<"err">> \o <<"err">> = <<"err", "err">>
  BY <1>1, PairFacts
<1>3. PICK one : one = <<"err">>
  OBVIOUS
<1>4. PICK two : two = <<"err", "err">>
  OBVIOUS
<1>5. one # <<>> /\ Head(one) = "err" /\ two # <<>> /\ Head(two) = "err"
  BY <1>3, <1>4
<1>6. Answer(one) \/ Answer(two)
  BY <1>2, <1>3, <1>4, ReturnAnswers
<1>7. s2c' = one \/ s2c' = two
  BY <1>1, <1>3, <1>4, <1>6, AnswerCases
<1> QED
  BY <1>5, <1>7

\* A step of the server after which the two sides are no longer together.
Strays == /\ ~Sound \/ ~DirsClear
          /\ up => Doomed' \/ (Extra' /\ UNCHANGED dst)

\* Whether times are to be set makes no difference to the levels.
LEMMA SetTimesFacts ==
  ASSUME TypeOK, stack # <<>>, NEW b \in BOOLEAN, SetHere([Here EXCEPT !.setimes = b])
  PROVE  SameLevels
<1>1. Here \in Calls /\ Here = stack[Len(stack)] /\ Len(stack) \in Nat \ {0}
  BY HereFacts
<1>2. PICK h \in Calls : h = Here
  BY <1>1
<1>3. PICK c : c = [h EXCEPT !.setimes = b]
  OBVIOUS
<1>4. c \in Calls
  BY <1>3 DEF Calls
<1>5. c.targ = h.targ
  BY <1>3 DEF Calls
<1>6. c.isdir = h.isdir
  BY <1>3 DEF Calls
<1>7. SetHere(c)
  BY <1>2, <1>3
<1>8. /\ Len(stack') = Len(stack)
      /\ \A m \in 1..Len(stack) : stack'[m] = IF m = Len(stack) THEN c ELSE stack[m]
  BY <1>4, <1>7, SetHereFacts
<1>9. ASSUME NEW m \in 1..Len(stack)
      PROVE  stack'[m].targ = stack[m].targ /\ stack'[m].isdir = stack[m].isdir
  <2>1. CASE m = Len(stack)
    BY <1>1, <1>2, <1>5, <1>6, <1>8, <2>1
  <2>2. CASE m # Len(stack)
    BY <1>8, <2>2
  <2> QED
    BY <2>1, <2>2
<1> QED
  BY <1>8, <1>9 DEF SameLevels

\* A call of _sink ends because the client is gone.
LEMMA ReturnOver ==
  ASSUME TypeOK, stack # <<>>, NEW a \in Seq({"ok", "err"}), Return(a), ClientGone,
         UNCHANGED <<clientVars, up>>, c2s' = <<>>
  PROVE  Together'
<1>1. ClientGone' /\ (up' => cpc' \in {"done", "died"})
  BY DEF ClientGone, clientVars
<1>2. CASE Len(stack) = 1
  <2>1. spc' = "done"
    BY <1>2, ReturnFacts
  <2>2. Gone'
    BY <1>1, <2>1 DEF Gone
  <2> QED
    BY <2>2 DEF Together
<1>3. CASE Len(stack) # 1
  <2>1. spc' = "read"
    BY <1>3, ReturnFacts
  <2>2. Over'
    BY <1>1, <2>1 DEF Over
  <2> QED
    BY <2>2 DEF Together
<1> QED
  BY <1>2, <1>3

\* The beginning of _sink.
LEMMA EnterStep ==
  ASSUME Nested, TypeOK, Placed, Together, Enter
  PROVE  (Together' /\ UNCHANGED dst) \/ Strays
<1>1. /\ spc = "enter" /\ UNCHANGED <<clientVars, c2s, up, file, dst, given>> /\ stack # <<>>
      /\ i' = i /\ cpc' = cpc /\ up' = up /\ c2s' = c2s /\ dst' = dst /\ UNCHANGED given
  BY DEF Enter, TypeOK, clientVars, given
<1>2. Starting \/ (Fits /\ \E j \in 1..(Len(List) + 1) : Making(j))
  BY <1>1, ServerSituation
<1>3. May("alloc") => ~Sound
  BY SoundFacts
<1>4. "ok" \in {"ok", "err"} /\ "err" \in {"ok", "err"} /\ <<"err">> \in Seq({"ok", "err"})
  OBVIOUS
<1>5. Walk[1] = <<>> /\ 1 \in 1..(Len(List) + 1) /\ Len(List) \in Nat
  BY ListFacts
<1>6. CASE Starting
  <2>1. Entering(<<>>) /\ c2s = <<>> /\ dst = dst0 /\ Len(stack) = 1
        /\ (up => i = 0 /\ cpc \in {"expand", "greet", "died"} /\ s2c = <<>>)
    <3>1. Len(<<>>) + 1 = 1
      OBVIOUS
    <3> QED
      BY <1>6, <3>1 DEF Starting, Entering, Targeted
  <2>2. IsDir(<<>>) = WasDir
    BY <2>1 DEF IsDir, WasDir
  <2>3. CASE Return(<<"err">>)
    <3>1. spc' = "done" /\ Answer(<<"err">>)
      <4>1. ~(Len(stack) > 1)
        BY <2>1
      <4> QED
        BY <1>1, <1>4, <2>1, <2>3, <4>1, ReturnFacts, ReturnAnswers
    <3>2. up => s2c' = <<"err">>
      BY <1>4, <2>1, <3>1, AnswerCases
    <3>3. Gone'
      BY <1>1, <2>1, <3>1, <3>2 DEF Gone
    <3> QED
      BY <1>1, <3>3 DEF Together
  <2>4. CASE ~Return(<<"err">>)
    <3>1. /\ TargetIsDir => IsDir(<<>>)
          /\ SetHere([Here EXCEPT !.isdir = IsDir(Here.targ)]) /\ spc' = "read" /\ Respond("ok")
      BY <2>4 DEF Enter
    <3>2. Fits
      <4>1. CASE mode.reverse
        BY <4>1 DEF Placed, Fits
      <4>2. CASE ~mode.reverse
        <5>1. Len(List) > 1 => WasDir
          BY <2>2, <3>1, <4>2 DEF TargetIsDir
        <5> QED
          BY <1>5, <5>1 DEF Fits
      <4> QED
        BY <4>1, <4>2
    <3>3. Levels(<<>>)'
      <4>1. Spot(<<>>) = <<>>
        BY DEF Spot
      <4>2. IsDir(Spot(<<>>)) = (<<>> # <<>> \/ WasDir)
        <5>1. WasDir \in BOOLEAN
          BY DEF WasDir
        <5> QED
          BY <2>2, <4>1, <5>1
      <4>3. <<>> \in Dirs \cup {<<>>} /\ (<<>> # <<>> => WasDir)
        OBVIOUS
      <4> QED
        BY <1>1, <2>1, <3>1, <4>2, <4>3, LevelsEnter
    <3>4. up => s2c' = <<"ok">>
      BY <1>4, <2>1, <3>1, AnswerCases
    <3>5. CASE up /\ cpc = "died"
      <4>1. Over'
        BY <1>1, <2>1, <3>1, <3>5 DEF Over, ClientGone
      <4> QED
        BY <1>1, <4>1 DEF Together
    <3>6. CASE ~(up /\ cpc = "died")
      <4>1. up' => Awaited(1)'
        BY <1>1, <2>1, <3>4, <3>6 DEF Awaited
      <4>2. Idle(1)'
        BY <1>1, <1>5, <2>1, <3>1, <3>3, <4>1 DEF Idle
      <4> QED
        BY <1>1, <1>5, <3>2, <4>2, SituationNext
    <3> QED
      BY <3>5, <3>6
  <2> QED
    BY <2>3, <2>4
<1>7. CASE Fits /\ \E j \in 1..(Len(List) + 1) : Making(j)
  <2>1. PICK j \in 1..(Len(List) + 1) : Making(j)
    BY <1>7
  <2>2. PICK m : m = j - 1
    OBVIOUS
  <2>3. m \in 1..Len(List) /\ MakesDir(m) /\ j = m + 1
    BY <1>5, <2>1, <2>2, ListFacts DEF Making, MakesDir
  <2>4. WasDir /\ Walk[j] \in Dirs /\ Walk[j] # <<>>
    BY <1>7, <2>3, FitsFacts, EntryFacts
  <2>5. Entering(Walk[j]) /\ c2s = <<>> /\ IsDir(Spot(Walk[j])) /\ (up => i = m /\ cpc = "control" /\ s2c = <<>>)
    BY <2>1, <2>2 DEF Making
  <2>6. CASE Return(<<"err">>) /\ (May("alloc") \/ (TargetIsDir /\ ~IsDir(<<>>)))
    <3>1. ~Sound \/ ~DirsClear
      BY <1>3, <2>4, <2>6 DEF DirsClear
    <3>2. up => Doomed'
      BY <1>1, <2>5, <2>6, ReturnsError DEF Doomed, Waiting
    <3> QED
      BY <3>1, <3>2 DEF Strays
  <2>7. CASE SetHere([Here EXCEPT !.isdir = IsDir(Here.targ)]) /\ spc' = "read" /\ Respond("ok")
    <3>1. Levels(Walk[j])'
      <4>1. IsDir(Spot(Walk[j])) = (Walk[j] # <<>> \/ WasDir)
        BY <2>4, <2>5 DEF IsDir
      <4> QED
        BY <1>1, <2>4, <2>5, <2>7, <4>1, LevelsEnter
    <3>2. up' => Awaited(j)'
      <4>1. up => s2c' = <<"ok">>
        BY <1>4, <2>5, <2>7, AnswerCases
      <4>2. up => i' = m /\ MakesDir(i')
        BY <1>1, <2>3, <2>5
      <4> QED
        BY <1>1, <2>2, <2>5, <4>1, <4>2 DEF Awaited, MakesDir
    <3>3. Idle(j)'
      BY <1>1, <2>5, <2>7, <3>1, <3>2 DEF Idle
    <3> QED
      BY <1>1, <1>7, <3>3, SituationNext
  <2> QED
    BY <2>6, <2>7 DEF Enter
<1> QED
  BY <1>2, <1>6, <1>7

\* Where the server looks for a record, there is a request or nothing.
LEMMA ReadSituation ==
  ASSUME Nested, TypeOK, Together, spc = "read", c2s # <<>>
  PROVE  /\ Fits /\ Head(c2s).kind \in Controls /\ Tail(c2s) = <<>>
         /\ \E j \in 1..Len(List) :
              /\ Levels(Walk[j])
              /\ up => i = j /\ s2c = <<>>
              /\ Head(c2s).kind = "E" => IsExit(j) /\ (up => cpc = "exit")
              /\ Head(c2s).kind = "T" => ~IsExit(j) /\ (up => cpc = "times")
              /\ Head(c2s).kind = "D" => /\ MakesDir(j) /\ ~IsExit(j) /\ (up => cpc = "control")
                                         /\ Head(c2s) = Control(List[j])
              /\ Head(c2s).kind = "C" => /\ IsFile(j) /\ ~IsExit(j) /\ (up => cpc = "control")
                                         /\ Head(c2s) = Control(List[j])
<1>1. Fits /\ \E j \in 1..(Len(List) + 1) : Requested(j)
  <2>1. ~Over /\ \A j : ~Idle(j)
    BY DEF Over, Idle
  <2> QED
    BY <2>1, ServerSituation
<1>2. PICK j \in 1..(Len(List) + 1) : Requested(j)
  BY <1>1
<1>3. PICK r \in Requests(j) : c2s = <<r>> /\ (up => i = j /\ s2c = <<>> /\ Waits(r))
  BY <1>2 DEF Requested
<1>4. Head(c2s) = r /\ Tail(c2s) = <<>>
  BY <1>3
<1>5. j \in DOMAIN List /\ j \in 1..Len(List)
  <2>1. j \in DOMAIN List
    BY <1>3 DEF Requests
  <2> QED
    BY <2>1, ListFacts
<1>6. Levels(Walk[j])
  BY <1>2 DEF Requested
<1>7. CASE IsExit(j)
  <2>1. r = Plain("E")
    BY <1>3, <1>5, <1>7 DEF Requests
  <2>2. r.kind = "E"
    BY <2>1 DEF Plain, Record
  <2>3. up => cpc = "exit"
    BY <1>3, <2>2 DEF Waits
  <2> QED
    BY <1>1, <1>3, <1>4, <1>5, <1>6, <1>7, <2>2, <2>3 DEF Controls
<1>8. CASE ~IsExit(j) /\ r = Plain("T")
  <2>1. r.kind = "T"
    BY <1>8 DEF Plain, Record
  <2>2. up => cpc = "times"
    BY <1>3, <2>1 DEF Waits
  <2> QED
    BY <1>1, <1>3, <1>4, <1>5, <1>6, <1>8, <2>1, <2>2 DEF Controls
<1>9. CASE ~IsExit(j) /\ r # Plain("T")
  <2>1. r = Control(List[j])
    BY <1>3, <1>5, <1>9 DEF Requests
  <2>2. r.kind = IF List[j].path \in Dirs THEN "D" ELSE "C"
    BY <2>1 DEF Control, Record
  <2>3. up => cpc = "control"
    BY <1>3, <2>2 DEF Waits
  <2>4. (List[j].path \in Dirs <=> MakesDir(j)) /\ (List[j].path \notin Dirs <=> IsFile(j))
    BY <1>5, <1>9, EntryFacts
  <2> QED
    BY <1>1, <1>3, <1>4, <1>5, <1>6, <1>9, <2>1, <2>2, <2>3, <2>4 DEF Controls
<1> QED
  BY <1>7, <1>8, <1>9

\* A record is read: what it is, and that the stream is empty then.
LEMMA ReadEndStep ==
  ASSUME Nested, TypeOK, Together, ReadEnd
  PROVE  Together' /\ UNCHANGED dst
<1>1. stack # <<>> /\ Return(<<>>) /\ ClientGone /\ UNCHANGED <<clientVars, up>> /\ c2s' = <<>> /\ UNCHANGED dst
  BY DEF ReadEnd, TypeOK
<1>2. <<>> \in Seq({"ok", "err"})
  OBVIOUS
<1> QED
  BY <1>1, <1>2, ReturnOver

\* The server never reads a line that is no control record.
LEMMA ReadGarbageStep ==
  ASSUME Nested, TypeOK, Together, ReadGarbage
  PROVE  FALSE
BY ReadSituation DEF ReadGarbage

\* An E ends the level of the directory that the client leaves.
LEMMA ReadExitStep ==
  ASSUME Nested, TypeOK, Together, ReadExit
  PROVE  (Together' /\ UNCHANGED dst) \/ Strays
<1>1. /\ spc = "read" /\ c2s # <<>> /\ Head(c2s).kind = "E" /\ c2s' = Tail(c2s) /\ Return(<<"ok">>)
      /\ UNCHANGED <<clientVars, up, dst, given>> /\ stack # <<>>
      /\ i' = i /\ cpc' = cpc /\ up' = up /\ UNCHANGED given
  BY DEF ReadExit, Reads, TypeOK, clientVars, given
<1>2. PICK j \in 1..Len(List) : Levels(Walk[j]) /\ IsExit(j) /\ (up => i = j /\ s2c = <<>> /\ cpc = "exit")
  BY <1>1, ReadSituation
<1>3. /\ Fits /\ c2s' = <<>> /\ <<"ok">> \in Seq({"ok", "err"}) /\ <<"ok", "err">> \in Seq({"ok", "err"})
      /\ "ok" \in {"ok", "err"} /\ "err" \in {"ok", "err"}
  BY <1>1, ReadSituation
<1>4. Levels(Walk[j + 1])' /\ spc' = "read"
  BY <1>1, <1>2, <1>3, LevelsPop
<1>5. PICK k \in 1..(Len(List) + 1) : k = j + 1 /\ j = k - 1
  BY ListFacts
<1>6. Levels(Walk[k])'
  BY <1>4, <1>5
<1>7. CASE Answer(<<"ok">>)
  <2>1. up' => Awaited(k)'
    <3>1. up => s2c' = <<"ok">>
      BY <1>2, <1>3, <1>7, AnswerCases
    <3>2. up' => i' = k - 1 /\ cpc' = "exit" /\ s2c' = <<"ok">> /\ IsExit(i')
      BY <1>1, <1>2, <1>5, <3>1
    <3> QED
      BY <3>2 DEF Awaited, IsExit
  <2>2. Idle(k)'
    BY <1>3, <1>4, <1>6, <2>1 DEF Idle
  <2> QED
    BY <1>1, <1>3, <2>2, SituationNext
<1>8. CASE Answer(<<"ok">> \o <<"err">>) /\ May("dirtimes")
  <2>1. ~Sound
    BY <1>8, SoundFacts
  <2>2. ASSUME up PROVE Extra'
    <3>1. <<"ok">> \o <<"err">> = <<"ok", "err">>
      BY <1>3, PairFacts
    <3>2. PICK two : two = <<"ok", "err">>
      OBVIOUS
    <3>3. s2c' = two
      BY <1>2, <1>3, <1>8, <2>2, <3>1, <3>2, AnswerCases
    <3>4. i' = k - 1 /\ cpc' = "exit" /\ s2c' = <<"ok", "err">> /\ IsExit(i)'
      <4>1. IsExit(j)
        BY <1>2
      <4>2. i' = j
        BY <1>1, <1>2, <2>2
      <4> QED
        BY <1>1, <1>2, <1>5, <2>2, <3>2, <3>3, <4>1, <4>2 DEF IsExit
    <3>5. (WasDir \/ Len(List) <= 1)'
      BY <1>1, <1>3, GivenFacts DEF Fits
    <3> QED
      BY <1>3, <1>4, <1>6, <3>4, <3>5 DEF Extra
  <2> QED
    BY <1>1, <2>1, <2>2 DEF Strays
<1> QED
  BY <1>1, <1>7, <1>8, ReturnAnswers

\* A T is noted and answered.
LEMMA ReadTimesStep ==
  ASSUME Nested, TypeOK, Together, ReadTimes
  PROVE  Together' /\ UNCHANGED dst
<1>1. /\ spc = "read" /\ c2s # <<>> /\ Head(c2s).kind = "T" /\ c2s' = Tail(c2s) /\ Respond("ok")
      /\ SetHere([Here EXCEPT !.setimes = TRUE])
      /\ UNCHANGED <<clientVars, up, dst, given>> /\ stack # <<>> /\ spc' = spc
      /\ i' = i /\ cpc' = cpc /\ up' = up /\ UNCHANGED given
  BY DEF ReadTimes, Reads, TypeOK, clientVars, given
<1>2. PICK j \in 1..Len(List) : Levels(Walk[j]) /\ ~IsExit(j) /\ (up => i = j /\ s2c = <<>> /\ cpc = "times")
  BY <1>1, ReadSituation
<1>3. Fits /\ c2s' = <<>> /\ "ok" \in {"ok", "err"} /\ j \in 1..(Len(List) + 1) /\ j \in DOMAIN List
  BY <1>1, ReadSituation, ListFacts
<1>4. SameLevels
  BY <1>1, SetTimesFacts
<1>5. Levels(Walk[j])'
  BY <1>1, <1>2, <1>4, LevelsStay
<1>6. up => s2c' = <<"ok">>
  BY <1>1, <1>2, <1>3, AnswerCases
<1>7. up' => Awaited(j)'
  BY <1>1, <1>2, <1>3, <1>6 DEF Awaited
<1>8. Idle(j)'
  BY <1>1, <1>3, <1>5, <1>7 DEF Idle
<1> QED
  BY <1>1, <1>3, <1>8, SituationNext

\* A directory is made where it belongs, and the next level entered.
LEMMA ReadDirectoryStep ==
  ASSUME Nested, TypeOK, Together, ReadDirectory
  PROVE  \/ /\ Together'
            /\ WasDir /\ \E d \in Dirs : Place(Site(d), Directory)
         \/ Strays
<1>1. /\ spc = "read" /\ c2s # <<>> /\ Head(c2s).kind = "D" /\ c2s' = Tail(c2s)
      /\ UNCHANGED <<clientVars, up, given>> /\ stack # <<>>
      /\ i' = i /\ cpc' = cpc /\ up' = up /\ UNCHANGED given
  BY DEF ReadDirectory, Reads, TypeOK, clientVars, given
<1>2. PICK j \in 1..Len(List) : /\ Levels(Walk[j]) /\ MakesDir(j) /\ ~IsExit(j) /\ Head(c2s) = Control(List[j])
                                /\ (up => i = j /\ s2c = <<>> /\ cpc = "control")
  BY <1>1, ReadSituation
<1>3. Fits /\ c2s' = <<>>
  BY <1>1, ReadSituation
<1>4. WasDir /\ List[j].path \in Dirs /\ List[j].path \in Paths
  BY <1>2, <1>3, FitsFacts, EntryFacts
<1>5. PICK np : np = Site(List[j].path)
  OBVIOUS
<1>6. np = Destination(Head(c2s)) /\ np # <<>>
  <2>1. List[j].path \in Seq(Names) \ {<<>>}
    BY <1>4, ListFacts
  <2> QED
    BY <1>1, <1>2, <1>3, <1>4, <1>5, <2>1, DestinationFacts, SiteFacts
<1>7. CASE /\ \/ May("alloc") /\ Here.isdir
              \/ np \in DOMAIN dst /\ ~IsDir(np)
              \/ np \notin DOMAIN dst /\ May("mkdir")
           /\ Refuse
  <2>1. ~Sound \/ ~DirsClear
    BY <1>4, <1>5, <1>6, <1>7, SoundFacts DEF DirsClear
  <2>2. up => s2c' = <<"err">>
    <3>1. Respond("err") /\ "err" \in {"ok", "err"}
      BY <1>7 DEF Refuse
    <3> QED
      BY <1>2, <3>1, AnswerCases
  <2>3. up => Doomed'
    <3>1. PICK one : one = <<"err">>
      OBVIOUS
    <3>2. one # <<>> /\ Head(one) = "err"
      BY <3>1
    <3>3. up => cpc' = "control" /\ s2c' = one
      BY <1>1, <1>2, <2>2, <3>1
    <3> QED
      BY <3>2, <3>3 DEF Doomed, Waiting
  <2> QED
    BY <2>1, <2>3 DEF Strays
<1>8. CASE /\ Place(np, Directory)
           /\ stack' = Append(stack, [targ |-> np, isdir |-> FALSE, setimes |-> FALSE])
           /\ spc' = "enter" /\ UNCHANGED <<s2c, file>>
  <2>1. Entering(Walk[j + 1])' /\ np = Spot(Walk[j + 1])
    BY <1>1, <1>2, <1>3, <1>5, <1>8, LevelsPush
  <2>2. PICK k \in 1..(Len(List) + 1) : k = j + 1 /\ j = k - 1
    BY ListFacts
  <2>3. IsDir(Spot(Walk[k]))'
    <3>1. Spot(Walk[k])' = np
      BY <1>1, <2>1, <2>2, GivenFacts
    <3>2. np \in DOMAIN dst' /\ dst'[np].kind = "dir"
      <4>1. PICK node : node = Directory
        OBVIOUS
      <4>2. node.kind = "dir"
        BY <4>1 DEF Directory
      <4>3. Place(np, node)
        BY <1>8, <4>1
      <4> QED
        BY <4>2, <4>3, PlaceFacts
    <3> QED
      BY <3>1, <3>2 DEF IsDir
  <2>4. Making(k)'
    <3>1. Entering(Walk[k])' /\ MakesDir(k - 1)
      BY <1>2, <2>1, <2>2
    <3>2. MakesDir(k - 1)'
      BY <3>1 DEF MakesDir
    <3>3. up' => i' = k - 1 /\ cpc' = "control" /\ s2c' = <<>>
      BY <1>1, <1>2, <1>8, <2>2
    <3> QED
      BY <1>3, <1>8, <2>3, <3>1, <3>2, <3>3 DEF Making
  <2> QED
    BY <1>1, <1>3, <1>4, <1>5, <1>8, <2>4, SituationNext
<1> QED
  BY <1>6, <1>7, <1>8 DEF ReadDirectory

\* A whole file.
Whole(p) == [k \in 1..Size[p] |-> DataCell(p, k)]

\* What makes a file delivered.
LEMMA WholeFacts ==
  ASSUME Nested, NEW p \in Files
  PROVE  /\ Size[p] \in Nat /\ p \in Paths
         /\ Whole(p) \in Seq(Cells) /\ Len(Whole(p)) = Size[p]
         /\ \A k \in 1..Size[p] : Whole(p)[k] = DataCell(p, k)
         /\ \A s \in Seq(Cells) : Len(s) = Size[p] /\ (\A k \in 1..Size[p] : s[k] = DataCell(p, k)) => s = Whole(p)
         /\ Delivered(p) <=> Site(p) \in DOMAIN dst /\ dst[Site(p)] = Regular(Whole(p))
<1>1. Size[p] \in Nat /\ p \in Paths
  BY PcpAssumption, ListFacts
<1>2. \A k \in 1..Size[p] : DataCell(p, k) \in Cells
  BY <1>1, CellFacts
<1>3. Whole(p) \in Seq(Cells) /\ Len(Whole(p)) = Size[p] /\ \A k \in 1..Size[p] : Whole(p)[k] = DataCell(p, k)
  BY <1>1, <1>2 DEF Whole
<1>4. ASSUME NEW s \in Seq(Cells), Len(s) = Size[p], \A k \in 1..Size[p] : s[k] = DataCell(p, k)
      PROVE  s = Whole(p)
  BY <1>3, <1>4, SeqEqual
<1>5. Delivered(p) <=> Site(p) \in DOMAIN dst /\ dst[Site(p)] = Regular(Whole(p))
  BY DEF Delivered, Whole
<1> QED
  BY <1>1, <1>3, <1>4, <1>5

\* The file of entry j is written: only its own data, and never away from what was sent.
Stores(j, node) ==
  LET p == List[j].path IN
  /\ IsFile(j) /\ Place(Site(p), node) /\ node.kind = "file"
  /\ \A k \in DOMAIN node.data :
       \/ node.data[k] = Hole
       \/ node.data[k] = DataCell(p, k)
       \/ Site(p) \in DOMAIN dst /\ k \in DOMAIN dst[Site(p)].data /\ node.data[k] = dst[Site(p)].data[k]
  /\ Delivered(p) => node = Regular(Whole(p))

\* The fields of a regular file.
LEMMA RegularFacts ==
  \A s : Regular(s).kind = "file" /\ Regular(s).data = s
BY DEF Regular

\* The file at hand.
LEMMA ReceivingFacts ==
  ASSUME Nested, TypeOK, NEW j \in 1..(Len(List) + 1), Receiving(j)
  PROVE  /\ j \in 1..Len(List) /\ IsFile(j) /\ ~IsExit(j) /\ Levels(Walk[j]) /\ Walk[j + 1] = Walk[j]
         /\ List[j].path \in Files /\ file.path = Site(List[j].path) /\ file.size = Size[List[j].path]
         /\ file.path \in DOMAIN dst /\ dst[file.path].kind = "file" /\ dst[file.path].data \in Seq(Cells)
         /\ dst[file.path] = Regular(dst[file.path].data)
         /\ file.size \in Nat /\ file.got \in Nat /\ file.got <= file.size
         /\ file \in [path : Seq(Pieces), size : Nat, got : Nat, wrerr : Wrerr]
<1>1. j \in DOMAIN List /\ IsFile(j) /\ List[j].path \in Files /\ j \in 1..Len(List)
  BY ListFacts DEF Receiving, IsFile
<1>2. ~IsExit(j) /\ Walk[j + 1] = Walk[j]
  BY <1>1, EntryFacts
<1>3. file.path \in DOMAIN dst /\ dst[file.path].kind = "file" /\ dst[file.path] \in Nodes
  BY DEF Receiving, TypeOK
<1>4. dst[file.path].data \in Seq(Cells) /\ dst[file.path] = Regular(dst[file.path].data)
  BY <1>3 DEF Nodes, Regular
<1>5. /\ file \in [path : Seq(Pieces), size : Nat, got : Nat, wrerr : Wrerr] /\ file.got <= file.size
      /\ file.size \in Nat /\ file.got \in Nat
  BY DEF TypeOK
<1> QED
  BY <1>1, <1>2, <1>3, <1>4, <1>5 DEF Receiving

\* A file is opened where it belongs, or refused.
LEMMA ReadFileStep ==
  ASSUME Nested, TypeOK, TypeOK', Together, ReadFile
  PROVE  \/ /\ Together'
            /\ UNCHANGED dst \/ (Fits /\ \E j \in 1..Len(List), node \in Nodes : Stores(j, node))
         \/ Strays
<1>1. /\ spc = "read" /\ c2s # <<>> /\ Head(c2s).kind = "C" /\ c2s' = Tail(c2s)
      /\ UNCHANGED <<clientVars, up, given>> /\ stack # <<>>
      /\ i' = i /\ cpc' = cpc /\ up' = up /\ UNCHANGED given
  BY DEF ReadFile, Reads, TypeOK, clientVars, given
<1>2. PICK j \in 1..Len(List) : /\ Levels(Walk[j]) /\ IsFile(j) /\ ~IsExit(j) /\ Head(c2s) = Control(List[j])
                                /\ (up => i = j /\ s2c = <<>> /\ cpc = "control")
  BY <1>1, ReadSituation
<1>3. Fits /\ c2s' = <<>> /\ j \in 1..(Len(List) + 1) /\ "ok" \in {"ok", "err"} /\ "err" \in {"ok", "err"}
  BY <1>1, ReadSituation, ListFacts
<1>4. PICK np : np = Site(List[j].path)
  OBVIOUS
<1>5. np = Destination(Head(c2s))
  BY <1>1, <1>2, <1>3, <1>4, DestinationFacts
<1>6. CASE Refuse
  <2>1. spc' = "read" /\ Respond("err") /\ UNCHANGED <<stack, file, dst>>
    BY <1>6 DEF Refuse
  <2>2. Levels(Walk[j])'
    <3>1. SameLevels
      BY <2>1 DEF SameLevels
    <3> QED
      BY <1>1, <1>2, <3>1, LevelsStay
  <2>3. up' => Awaited(j)'
    <3>1. up => s2c' = <<"err">>
      BY <1>2, <1>3, <2>1, AnswerCases
    <3>2. IsFile(j)'
      BY <1>2 DEF IsFile
    <3> QED
      BY <1>1, <1>2, <3>1, <3>2 DEF Awaited
  <2>4. Idle(j)'
    BY <1>3, <2>1, <2>2, <2>3 DEF Idle
  <2> QED
    BY <1>1, <1>3, <2>1, <2>4, SituationNext
<1>7. CASE May("alloc") /\ Answer(<<"ok", "err">>)
  <2>1. ~Sound
    BY <1>7, SoundFacts
  <2>2. ASSUME up PROVE Doomed'
    <3>1. PICK two : two = <<"ok", "err">>
      OBVIOUS
    <3>2. two \in Seq({"ok", "err"}) /\ Len(two) >= 2 /\ two[1] = "ok" /\ two[2] = "err"
      BY <3>1
    <3>3. s2c' = two
      BY <1>2, <1>7, <2>2, <3>1, <3>2, AnswerCases
    <3>4. cpc' = "control" /\ IsFile(i)'
      BY <1>1, <1>2, <2>2 DEF IsFile
    <3> QED
      BY <3>2, <3>3, <3>4 DEF Doomed
  <2> QED
    BY <2>1, <2>2 DEF Strays
<1>8. CASE ~Refuse /\ ~(May("alloc") /\ Answer(<<"ok", "err">>))
  <2> DEFINE n == IF np \in DOMAIN dst THEN dst[np] ELSE Regular(<<>>)
  <2>1. /\ ~IsDir(np) /\ Place(np, n) /\ UNCHANGED stack
        /\ spc' = "data" /\ Respond("ok")
        /\ file' = [path |-> np, size |-> Head(c2s).size, got |-> 0, wrerr |-> "no"]
    BY <1>5, <1>8 DEF ReadFile
  <2>2. PICK node \in Nodes : node = n
    <3>1. <<>> \in Seq(Cells)
      OBVIOUS
    <3>2. Regular(<<>>) \in Nodes
      BY <3>1, NodeFacts
    <3>3. np \in DOMAIN dst => dst[np] \in Nodes
      BY DEF TypeOK
    <3> QED
      BY <3>2, <3>3
  <2>3. /\ np \in DOMAIN dst => node = dst[np] /\ node.kind = "file"
        /\ np \notin DOMAIN dst => node = Regular(<<>>)
    <3>1. np \in DOMAIN dst => dst[np].kind # "dir"
      BY <2>1 DEF IsDir
    <3>2. node.kind \in {"dir", "file"}
      BY DEF Nodes
    <3> QED
      BY <2>2, <3>1, <3>2
  <2> HIDE DEF n
  <2>4. Stores(j, node)
    <3>1. node.kind = "file"
      BY <2>3, RegularFacts
    <3>2. ASSUME np \notin DOMAIN dst, NEW k \in DOMAIN node.data PROVE FALSE
      <4>1. node.data = <<>>
        BY <2>3, <3>2, RegularFacts
      <4> QED
        BY <3>2, <4>1
    <3>3. Delivered(List[j].path) => node = Regular(Whole(List[j].path))
      <4>1. List[j].path \in Files
        BY <1>2 DEF IsFile
      <4> QED
        BY <1>4, <2>3, <4>1, WholeFacts
    <3> QED
      BY <1>2, <1>4, <2>1, <2>2, <2>3, <3>1, <3>2, <3>3 DEF Stores
  <2>5. /\ file'.path = np /\ file'.size = Size[List[j].path] /\ file'.got = 0 /\ file'.wrerr = "no"
    <3>1. Head(c2s).size = Size[List[j].path]
      <4>1. List[j].path \notin Dirs
        BY <1>2, EntryFacts
      <4> QED
        BY <1>2, <4>1 DEF Control, Record
    <3> QED
      BY <2>1, <3>1
  <2>6. np \in DOMAIN dst' /\ dst'[np] = node
    BY <2>1, <2>2, PlaceFacts
  <2>7. Levels(Walk[j])'
    <3>1. SameLevels
      BY <2>1 DEF SameLevels
    <3> QED
      BY <1>1, <1>2, <3>1, LevelsStay
  <2>8. Receiving(j)'
    <3>1. Site(List[j].path)' = np
      BY <1>1, <1>4, GivenFacts
    <3>2. IsFile(j)'
      BY <1>2 DEF IsFile
    <3>3. node.kind = "file"
      BY <2>4 DEF Stores
    <3> QED
      BY <2>5, <2>6, <2>7, <3>1, <3>2, <3>3 DEF Receiving
  <2>9. Storing(j)'
    <3>1. 0 <= Len(dst'[file'.path].data)
      <4>1. node.data \in Seq(Cells)
        BY DEF Nodes
      <4> QED
        BY <2>5, <2>6, <4>1
    <3>2. \A k \in 1..file'.got : FALSE
      BY <2>5
    <3>3. Len(c2s') = 0 /\ \A k \in 1..Len(c2s') : FALSE
      BY <1>3
    <3>4. Len(c2s') <= file'.size - file'.got + 1
      <4>1. file'.size \in Nat
        BY DEF TypeOK
      <4> QED
        BY <2>5, <3>3, <4>1
    <3>5. up' => i' = j /\ file'.got = 0 /\ c2s' = <<>> /\ cpc' = "control" /\ s2c' = <<"ok">>
      BY <1>1, <1>2, <1>3, <2>1, <2>5, AnswerCases
    <3>6. spc' = "data" /\ file'.wrerr = "no" /\ file'.got = 0
      BY <2>1, <2>5
    <3> QED
      BY <2>8, <3>1, <3>2, <3>3, <3>4, <3>5, <3>6 DEF Storing
  <2> QED
    BY <1>1, <1>3, <2>4, <2>9, SituationNext
<1> QED
  BY <1>6, <1>7, <1>8

\* A full buffer of data arrives, or the client is gone.
LEMMA ReadDataStep ==
  ASSUME Nested, TypeOK, TypeOK', Together, ReadData
  PROVE  /\ Together'
         /\ UNCHANGED dst \/ (Fits /\ \E j \in 1..Len(List), node \in Nodes : Stores(j, node))
<1>1. /\ spc = "data" /\ UNCHANGED <<clientVars, up, given>> /\ stack # <<>> /\ file.got < file.size
      /\ i' = i /\ cpc' = cpc /\ up' = up /\ UNCHANGED given
  BY DEF ReadData, TypeOK, clientVars, given
<1>2. PICK j \in 1..(Len(List) + 1) : Storing(j) /\ Fits
  BY <1>1, ServerSituation
<1>3. CASE c2s = <<>>
  <2>1. ClientGone /\ Return(<<"err">>) /\ UNCHANGED <<c2s, file, dst>>
    BY <1>3 DEF ReadData
  <2>2. <<"err">> \in Seq({"ok", "err"})
    OBVIOUS
  <2>3. c2s' = <<>>
    BY <1>3, <2>1
  <2> QED
    BY <1>1, <2>1, <2>2, <2>3, ReturnOver
<1>4. CASE c2s # <<>>
  <2> DEFINE p == List[j].path
             left == file.size - file.got
             data == dst[file.path].data
             cell == DataCell(p, file.got + 1)
  <2>1. /\ j \in 1..Len(List) /\ IsFile(j) /\ Levels(Walk[j])
        /\ p \in Files /\ file.path = Site(p) /\ file.size = Size[p]
        /\ file.path \in DOMAIN dst /\ dst[file.path].kind = "file" /\ data \in Seq(Cells)
        /\ dst[file.path] = Regular(data)
        /\ file.size \in Nat /\ file.got \in Nat /\ file.got <= file.size
        /\ file \in [path : Seq(Pieces), size : Nat, got : Nat, wrerr : Wrerr]
    <3>1. Receiving(j)
      BY <1>2 DEF Storing
    <3> QED
      BY <3>1, ReceivingFacts
  <2>2. /\ file.wrerr # "displayed"
        /\ file.wrerr = "no" => file.got <= Len(data) /\ \A k \in 1..file.got : data[k] = DataCell(p, k)
        /\ Len(c2s) <= left + 1
        /\ \A k \in 1..Len(c2s) : c2s[k] = IF k <= left THEN DataCell(p, file.got + k) ELSE Plain("nul")
        /\ up => i = j /\ Len(c2s) = left + 1 /\ cpc = "ack" /\ s2c = <<>>
    BY <1>2, <1>4 DEF Storing
  <2>3. left \in Nat /\ left >= 1 /\ file.got + 1 \in Nat \ {0} /\ file.got + 1 <= file.size /\ file.got + 1 \in 1..file.size
    BY <1>1, <2>1
  <2>4. cell \in Cells /\ Size[p] \in Nat
    BY <2>1, <2>3, CellFacts, WholeFacts
  <2> HIDE DEF p, left, data, cell
  <2>5. /\ c2s' = Tail(c2s) /\ Head(c2s) = cell
        /\ c2s \in Seq(Cells) /\ Len(c2s) \in Nat /\ Len(c2s) >= 1
        /\ c2s' \in Seq(Cells) /\ Len(c2s') = Len(c2s) - 1 /\ \A k \in 1..Len(c2s') : c2s'[k] = c2s[k + 1]
    <3>1. c2s \in Seq(Cells)
      BY DEF TypeOK
    <3>2. c2s' = Tail(c2s)
      BY <1>4 DEF ReadData
    <3>3. Len(c2s) \in Nat /\ Len(c2s) >= 1 /\ Head(c2s) = c2s[1]
      BY <1>4, <3>1
    <3>4. c2s[1] = cell
      BY <2>2, <2>3, <3>3 DEF cell
    <3> QED
      BY <1>4, <3>1, <3>2, <3>3, <3>4, HeadTailProperties
  <2>6. UNCHANGED <<s2c, spc, stack>>
    BY <1>4 DEF ReadData
  \* What goes for the next buffer, whether this one was written or not.
  <2>7. ASSUME NEW w \in {"no", "yes"}, file' = [path |-> file.path, size |-> file.size, got |-> file.got + 1, wrerr |-> w],
               file.path \in DOMAIN dst', dst'[file.path].kind = "file",
               w = "no" => /\ file.got + 1 <= Len(dst'[file.path].data)
                           /\ \A k \in 1..(file.got + 1) : dst'[file.path].data[k] = DataCell(p, k)
        PROVE  Together'
    <3>1. file'.path = file.path /\ file'.size = file.size /\ file'.got = file.got + 1 /\ file'.wrerr = w
      BY <2>7
    <3>2. Levels(Walk[j])'
      <4>1. SameLevels
        BY <2>6 DEF SameLevels
      <4> QED
        BY <1>1, <2>1, <4>1, LevelsStay
    <3>3. Receiving(j)'
      <4>1. Site(p)' = Site(p) /\ p' = p
        BY <1>1, GivenFacts DEF p
      <4>2. IsFile(j)'
        BY <2>1 DEF IsFile
      <4> QED
        BY <2>1, <2>7, <3>1, <3>2, <4>1, <4>2 DEF Receiving, p
    <3>4. file'.size - file'.got = left - 1
      BY <2>1, <3>1 DEF left
    <3>5. Len(c2s') <= left - 1 + 1
      <4>1. Len(c2s) <= left + 1
        BY <2>2
      <4>2. Len(c2s') = Len(c2s) - 1 /\ Len(c2s) \in Nat
        BY <2>5
      <4> QED
        BY <2>3, <4>1, <4>2
    <3>6. \A k \in 1..Len(c2s') : c2s'[k] = IF k <= left - 1 THEN DataCell(p, file.got + 1 + k) ELSE Plain("nul")
      <4> TAKE k \in 1..Len(c2s')
      <4>1. k + 1 \in 1..Len(c2s) /\ (k + 1 <= left <=> k <= left - 1) /\ file.got + (k + 1) = file.got + 1 + k
        BY <2>1, <2>3, <2>5
      <4>2. c2s'[k] = c2s[k + 1]
        BY <2>5
      <4> QED
        BY <2>2, <4>1, <4>2
    <3>7. up' => i' = j /\ Len(c2s') = left - 1 + 1 /\ cpc' = "ack" /\ s2c' = <<>>
      BY <1>1, <2>2, <2>3, <2>5, <2>6
    <3>8. spc' = "data" /\ w # "displayed"
      BY <1>1, <2>6, <2>7
    <3>9. Storing(j)'
      BY <2>7, <3>1, <3>3, <3>4, <3>5, <3>6, <3>7, <3>8 DEF Storing, p
    <3> QED
      BY <1>1, <1>2, <3>9, SituationNext
  <2>8. PICK fp \in Seq(Pieces), s \in Nat, g \in Nat, w \in Wrerr :
          file = [path |-> fp, size |-> s, got |-> g, wrerr |-> w]
    BY <2>1
  <2>9. CASE /\ file.wrerr = "no"
             /\ Place(file.path, Regular(Overwrite(dst[file.path].data, file.got + 1, Head(c2s))))
             /\ file' = [file EXCEPT !.got = @ + 1]
    <3>1. PICK o : o = Overwrite(data, file.got + 1, cell)
      OBVIOUS
    <3>2. /\ o \in Seq(Cells) /\ file.got + 1 <= Len(o) /\ o[file.got + 1] = cell
          /\ \A m \in 1..file.got : m \in 1..Len(data) /\ o[m] = data[m]
          /\ \A m \in DOMAIN o : (m \in DOMAIN data /\ o[m] = data[m]) \/ (m = file.got + 1 /\ o[m] = cell)
      <4>1. PICK k \in Nat \ {0} : k = file.got + 1
        BY <2>3
      <4>2. k <= Len(data) + 1 /\ ~(k > Len(data) + 1) /\ k - 1 = file.got
        <5>1. Len(data) \in Nat /\ file.got \in Nat
          BY <2>1
        <5>2. file.got <= Len(data)
          BY <2>2, <2>9
        <5> QED
          BY <4>1, <5>1, <5>2
      <4>3. o = Overwrite(data, k, cell)
        BY <3>1, <4>1
      <4>4. /\ o \in Seq(Cells) /\ k <= Len(o) /\ o[k] = cell
            /\ \A m \in 1..(k - 1) : m \in 1..Len(data) /\ o[m] = data[m]
            /\ \A m \in DOMAIN o : (m \in DOMAIN data /\ o[m] = data[m]) \/ (m = k /\ o[m] = cell)
        BY <2>1, <2>4, <4>2, <4>3, OverwriteFacts
      <4> QED
        BY <4>1, <4>2, <4>4
    <3>3. PICK node \in Nodes : node = Regular(o) /\ node.kind = "file" /\ node.data = o
      BY <3>2, NodeFacts
    <3>4. Place(file.path, node)
      BY <2>5, <2>9, <3>1, <3>3 DEF data
    <3>5. file.path \in DOMAIN dst' /\ dst'[file.path] = node
      <4>1. PICK q : q = file.path
        OBVIOUS
      <4>2. Place(q, node)
        BY <3>4, <4>1
      <4>3. q \in DOMAIN dst' /\ dst'[q] = node
        BY <4>2 DEF Place
      <4> QED
        BY <4>1, <4>3
    <3>6. file' = [path |-> file.path, size |-> file.size, got |-> file.got + 1, wrerr |-> "no"]
      BY <2>8, <2>9
    <3>7. \A k \in 1..(file.got + 1) : o[k] = DataCell(p, k)
      <4> TAKE k \in 1..(file.got + 1)
      <4>1. CASE k = file.got + 1
        BY <3>2, <4>1 DEF cell
      <4>2. CASE k # file.got + 1
        <5>1. k \in 1..file.got
          BY <2>1, <4>2
        <5> QED
          BY <2>2, <2>9, <3>2, <5>1
      <4> QED
        BY <4>1, <4>2
    <3>8. Together'
      BY <2>7, <3>2, <3>3, <3>5, <3>6, <3>7
    <3>9. Delivered(p) => node = Regular(Whole(p))
      <4>1. SUFFICES ASSUME Delivered(p) PROVE o = Whole(p)
        BY <3>3
      <4>2. dst[Site(p)] = Regular(Whole(p)) /\ data = Whole(p)
        BY <2>1, <4>1, WholeFacts, RegularFacts DEF data
      <4>3. Len(data) = Size[p] /\ \A k \in 1..Size[p] : data[k] = DataCell(p, k)
        BY <2>1, <4>2, WholeFacts
      <4>4. Len(o) = Size[p]
        <5>1. DOMAIN o \subseteq 1..Size[p]
          BY <2>1, <2>3, <3>2, <4>3
        <5>2. \A m \in 1..Size[p] : m \in DOMAIN o
          <6>1. file.got + 1 \in DOMAIN data
            BY <2>1, <2>3, <4>3
          <6>2. o = [data EXCEPT ![file.got + 1] = cell]
            BY <3>1, <6>1 DEF Overwrite
          <6>3. DOMAIN o = DOMAIN data
            BY <6>2
          <6> QED
            BY <2>1, <4>3, <6>3
        <5>3. Len(o) \in Nat /\ DOMAIN o = 1..Len(o)
          BY <3>2
        <5>4. 1..Len(o) = 1..Size[p]
          BY <5>1, <5>2, <5>3
        <5> QED
          BY <2>4, <5>3, <5>4
      <4>5. \A k \in 1..Size[p] : o[k] = DataCell(p, k)
        <5> TAKE k \in 1..Size[p]
        <5>1. k \in DOMAIN o
          BY <3>2, <4>4
        <5> QED
          BY <3>2, <4>3, <5>1 DEF cell
      <4> QED
        BY <2>1, <3>2, <4>4, <4>5, WholeFacts
    <3>10. Stores(j, node)
      <4>1. \A k \in DOMAIN node.data :
              \/ node.data[k] = Hole
              \/ node.data[k] = DataCell(p, k)
              \/ Site(p) \in DOMAIN dst /\ k \in DOMAIN dst[Site(p)].data /\ node.data[k] = dst[Site(p)].data[k]
        BY <2>1, <3>2, <3>3 DEF cell, data
      <4>2. Place(Site(p), node)
        BY <2>1, <3>4
      <4> QED
        BY <2>1, <3>3, <3>9, <4>1, <4>2 DEF Stores, p
    <3> QED
      BY <1>2, <2>1, <3>8, <3>10
  <2>10. CASE file' = [file EXCEPT !.got = @ + 1, !.wrerr = "yes"] /\ UNCHANGED dst
    <3>1. file' = [path |-> file.path, size |-> file.size, got |-> file.got + 1, wrerr |-> "yes"]
      BY <2>8, <2>10
    <3>2. Together'
      BY <2>1, <2>7, <2>10, <3>1
    <3> QED
      BY <2>10, <3>2
  <2> QED
    BY <1>4, <2>9, <2>10 DEF ReadData
<1> QED
  BY <1>3, <1>4

\* What is left of the stream when all data was read.
LEMMA AllRead ==
  ASSUME Nested, TypeOK, NEW j \in 1..(Len(List) + 1), Storing(j), file.got = file.size
  PROVE  /\ \/ c2s = <<>> /\ (up => file.size = 0)
            \/ c2s = <<Plain("nul")>>
         /\ up => /\ i = j
                  /\ \/ c2s = <<>> /\ cpc = "control" /\ s2c = <<"ok">>
                     \/ c2s = <<>> /\ cpc = "open" /\ s2c = <<>>
                     \/ c2s = <<Plain("nul")>> /\ cpc = "ack" /\ s2c = <<>>
<1> DEFINE left == file.size - file.got
<1>1. file.size \in Nat /\ left = 0 /\ c2s \in Seq(Cells) /\ Len(c2s) \in Nat
  <2>1. Receiving(j)
    BY DEF Storing
  <2>2. file.size \in Nat /\ file.got \in Nat
    BY <2>1, ReceivingFacts
  <2>3. c2s \in Seq(Cells)
    BY DEF TypeOK
  <2> QED
    BY <2>2, <2>3
<1>2. /\ Len(c2s) <= left + 1
      /\ \A k \in 1..Len(c2s) : ~(k <= left) => c2s[k] = Plain("nul")
      /\ up => /\ i = j
               /\ \/ file.got = 0 /\ c2s = <<>> /\ cpc = "control" /\ s2c = <<"ok">>
                  \/ file.got = 0 /\ c2s = <<>> /\ cpc = "open" /\ s2c = <<>>
                  \/ Len(c2s) = left + 1 /\ cpc = "ack" /\ s2c = <<>>
  BY DEF Storing
<1> HIDE DEF left
<1>3. Len(c2s) <= 1 /\ (Len(c2s) = left + 1 => Len(c2s) = 1)
  BY <1>1, <1>2
<1>4. CASE Len(c2s) = 0
  <2>1. c2s = <<>>
    BY <1>1, <1>4, ShortSequences
  <2>2. Len(c2s) # left + 1
    BY <1>3, <1>4
  <2> QED
    BY <1>2, <2>1, <2>2
<1>5. CASE Len(c2s) = 1
  <2>1. c2s = <<c2s[1]>>
    BY <1>1, <1>5, ShortSequences
  <2>2. 1 \in 1..Len(c2s) /\ ~(1 <= left)
    BY <1>1, <1>5
  <2>3. c2s = <<Plain("nul")>>
    BY <1>2, <2>1, <2>2
  <2>4. c2s # <<>>
    BY <2>3
  <2> QED
    BY <1>2, <2>3, <2>4
<1>6. Len(c2s) = 0 \/ Len(c2s) = 1
  <2>1. PICK n \in Nat : n = Len(c2s)
    BY <1>1
  <2>2. n <= 1
    BY <1>3, <2>1
  <2>3. n = 0 \/ n = 1
    BY <2>2
  <2> QED
    BY <2>1, <2>3
<1> QED
  BY <1>4, <1>5, <1>6

\* A file is cut to its size when it was read, or the failure to do so is answered.
LEMMA TruncateStep ==
  ASSUME Nested, TypeOK, TypeOK', Together, Truncate
  PROVE  /\ Together'
         /\ UNCHANGED dst \/ (Fits /\ \E j \in 1..Len(List), node \in Nodes : Stores(j, node))
<1>1. /\ spc = "data" /\ UNCHANGED <<clientVars, c2s, up, stack, given>> /\ file.got = file.size /\ spc' = "response"
      /\ i' = i /\ cpc' = cpc /\ up' = up /\ c2s' = c2s /\ stack' = stack /\ UNCHANGED given
  BY DEF Truncate, clientVars, given
<1>2. PICK j \in 1..(Len(List) + 1) : Storing(j) /\ Fits
  BY <1>1, ServerSituation
<1>3. Receiving(j) /\ file.wrerr # "displayed"
  BY <1>2 DEF Storing
<1>4. PICK p : p = List[j].path
  OBVIOUS
<1>5. PICK data \in Seq(Cells) : data = dst[file.path].data
  BY <1>3, ReceivingFacts
<1>6. /\ j \in 1..Len(List) /\ IsFile(j) /\ Levels(Walk[j]) /\ p \in Files
      /\ file.path = Site(p) /\ file.size = Size[p] /\ Size[p] \in Nat
      /\ file.path \in DOMAIN dst /\ dst[file.path].kind = "file" /\ dst[file.path] = Regular(data)
      /\ file \in [path : Seq(Pieces), size : Nat, got : Nat, wrerr : Wrerr]
  BY <1>3, <1>4, <1>5, ReceivingFacts
<1>7. file.wrerr = "no" => Size[p] <= Len(data) /\ \A k \in 1..Size[p] : data[k] = DataCell(p, k)
  <2>1. file.wrerr = "no" => /\ file.got <= Len(dst[file.path].data)
                             /\ \A k \in 1..file.got : dst[file.path].data[k] = DataCell(List[j].path, k)
    BY <1>2 DEF Storing
  <2> QED
    BY <1>1, <1>4, <1>5, <1>6, <2>1
<1>8. Levels(Walk[j])' /\ IsFile(j)' /\ Site(p)' = Site(p)
  <2>1. SameLevels
    BY <1>1 DEF SameLevels
  <2>2. Levels(Walk[j])'
    BY <1>1, <1>6, <2>1, LevelsStay
  <2>3. IsFile(j)'
    BY <1>6 DEF IsFile
  <2>4. Site(p)' = Site(p)
    BY <1>1, GivenFacts
  <2> QED
    BY <2>2, <2>3, <2>4
<1>9. /\ \/ c2s = <<>> /\ (up => file.size = 0)
         \/ c2s = <<Plain("nul")>>
      /\ up => /\ i = j
               /\ \/ c2s = <<>> /\ cpc = "control" /\ s2c = <<"ok">>
                  \/ c2s = <<>> /\ cpc = "open" /\ s2c = <<>>
                  \/ c2s = <<Plain("nul")>> /\ cpc = "ack" /\ s2c = <<>>
  BY <1>1, <1>2, AllRead
\* What both outcomes come to.
<1>10. ASSUME Receiving(j)', file'.size = file.size,
              file'.wrerr = "no" => Delivered(p)',
              up => s2c' = IF s2c = <<"ok">> THEN <<"ok">> \o Late' ELSE Late'
       PROVE  Together'
  <2>1. (List[j].path)' = p
    BY <1>4
  <2>2. up => \/ c2s' = <<>> /\ cpc' = "control" /\ s2c' = <<"ok">> \o Late'
              \/ c2s' = <<>> /\ cpc' = "open" /\ s2c' = Late'
              \/ c2s' = <<Plain("nul")>> /\ cpc' = "ack" /\ s2c' = Late'
    <3>1. <<"ok">> # <<>>
      OBVIOUS
    <3> QED
      BY <1>1, <1>9, <1>10, <3>1
  <2>3. \/ c2s' = <<>> /\ (up' => i' = j /\ file'.size = 0 /\ ((cpc' = "control" /\ s2c' = <<"ok">> \o Late')
                                                           \/ (cpc' = "open" /\ s2c' = Late')))
        \/ c2s' = <<Plain("nul")>> /\ (up' => i' = j /\ cpc' = "ack" /\ s2c' = Late')
    <3>1. <<Plain("nul")>> # <<>>
      OBVIOUS
    <3>2. CASE c2s = <<>>
      <4>1. c2s' = <<>> /\ c2s' # <<Plain("nul")>>
        BY <1>1, <3>1, <3>2
      <4>2. up' => i' = j
        BY <1>1, <1>9
      <4>3. up' => file'.size = 0
        <5>1. up => file.size = 0
          BY <1>9, <3>1, <3>2
        <5> QED
          BY <1>1, <1>10, <5>1
      <4>4. up' => (cpc' = "control" /\ s2c' = <<"ok">> \o Late') \/ (cpc' = "open" /\ s2c' = Late')
        BY <1>1, <2>2, <4>1
      <4> QED
        BY <4>1, <4>2, <4>3, <4>4
    <3>3. CASE c2s = <<Plain("nul")>>
      BY <1>1, <1>9, <2>2, <3>1, <3>3
    <3> QED
      BY <1>9, <3>2, <3>3
  <2>4. Closing(j)'
    <3>1. spc' = "response" /\ Receiving(j)' /\ (file'.wrerr = "no" => Delivered(List[j].path)')
      <4>1. Delivered(p)' => Delivered(List[j].path)'
        BY <2>1 DEF Delivered, Site, SentFor, WasDir, Regular, DataCell, Record
      <4> QED
        BY <1>1, <1>10, <4>1
    <3>2. CASE c2s' = <<>> /\ (up' => i' = j /\ file'.size = 0 /\ ((cpc' = "control" /\ s2c' = <<"ok">> \o Late')
                                                           \/ (cpc' = "open" /\ s2c' = Late')))
      BY <3>1, <3>2, Zenon DEF Closing
    <3>3. CASE c2s' = <<Plain("nul")>> /\ (up' => i' = j /\ cpc' = "ack" /\ s2c' = Late')
      <4>1. Plain("nul")' = Plain("nul")
        BY DEF Plain, Record
      <4> QED
        BY <3>1, <3>3, <4>1, Zenon DEF Closing
    <3> QED
      BY <2>3, <3>2, <3>3
  <2> QED
    BY <1>1, <1>2, <2>4, SituationNext
<1>11. PICK r \in Seq(Cells) : r = Resized(data, file.size)
  BY <1>5, <1>6, ResizedFacts
<1>12. /\ Len(r) = Size[p] /\ \A m \in 1..Size[p] : r[m] = IF m \in DOMAIN data THEN data[m] ELSE Hole
       /\ DOMAIN r = 1..Size[p]
  <2>1. PICK n \in Nat : n = Size[p]
    BY <1>6
  <2>2. r = Resized(data, n)
    BY <1>6, <1>11, <2>1
  <2>3. Len(r) = n /\ \A m \in 1..n : r[m] = IF m \in DOMAIN data THEN data[m] ELSE Hole
    BY <1>5, <2>2, ResizedFacts
  <2>4. DOMAIN r = 1..Len(r)
    BY <1>11
  <2> QED
    BY <2>1, <2>3, <2>4
<1>13. CASE Place(file.path, Regular(r)) /\ UNCHANGED <<s2c, file>>
  <2>1. PICK node \in Nodes : node = Regular(r) /\ node.kind = "file" /\ node.data = r
    BY <1>11, NodeFacts
  <2>2. Place(Site(p), node)
    BY <1>6, <1>13, <2>1
  <2>3. PICK q : q = Site(p)
    OBVIOUS
  <2>4. q \in DOMAIN dst' /\ dst'[q] = node
    <3>1. Place(q, node)
      BY <2>2, <2>3
    <3> QED
      BY <3>1 DEF Place
  <2>5. file' = file /\ s2c' = s2c
    BY <1>13
  <2>6. Receiving(j)'
    <3>1. (List[j].path)' = p
      BY <1>4
    <3> QED
      BY <1>4, <1>6, <1>8, <2>1, <2>3, <2>4, <2>5, <3>1 DEF Receiving
  <2>7. Late' = <<>>
    BY <1>3, <2>5 DEF Late
  <2>8. <<"ok">> \o <<>> = <<"ok">>
    OBVIOUS
  <2>9. (\A k \in 1..Size[p] : k \in DOMAIN data /\ data[k] = DataCell(p, k)) => r = Whole(p)
    BY <1>6, <1>11, <1>12, WholeFacts
  <2>10. file'.wrerr = "no" => Delivered(p)'
    <3>1. SUFFICES ASSUME file.wrerr = "no" PROVE Delivered(p)'
      BY <2>5
    <3>2. \A k \in 1..Size[p] : k \in DOMAIN data /\ data[k] = DataCell(p, k)
      <4>1. Len(data) \in Nat /\ DOMAIN data = 1..Len(data) /\ Size[p] <= Len(data)
        BY <1>5, <1>7, <3>1
      <4> QED
        BY <1>6, <1>7, <3>1, <4>1
    <3>3. node = Regular(Whole(p))
      BY <2>1, <2>9, <3>2
    <3>4. Site(p)' \in DOMAIN dst' /\ dst'[Site(p)'] = Regular(Whole(p))
      BY <1>8, <2>3, <2>4, <3>3
    <3>5. Delivered(p)' <=> Site(p)' \in DOMAIN dst' /\ dst'[Site(p)'] = Regular(Whole(p))
      BY DEF Delivered, Whole, Regular, DataCell, Record
    <3> QED
      BY <3>4, <3>5
  <2>11. up => s2c' = IF s2c = <<"ok">> THEN <<"ok">> \o Late' ELSE Late'
    BY <1>9, <2>5, <2>7, <2>8
  <2>12. Together'
    BY <1>10, <2>5, <2>6, <2>10, <2>11
  <2>13. Delivered(p) => node = Regular(Whole(p))
    <3>1. SUFFICES ASSUME Delivered(p) PROVE \A k \in 1..Size[p] : k \in DOMAIN data /\ data[k] = DataCell(p, k)
      BY <2>1, <2>9
    <3>2. Regular(data) = Regular(Whole(p))
      BY <1>6, <3>1, WholeFacts
    <3>3. data = Whole(p)
      BY <3>2, RegularFacts
    <3>4. DOMAIN data = 1..Size[p]
      BY <3>3 DEF Whole
    <3> QED
      BY <1>6, <3>3, <3>4, WholeFacts
  <2>14. Stores(j, node)
    <3>1. \A k \in DOMAIN node.data :
            \/ node.data[k] = Hole
            \/ Site(p) \in DOMAIN dst /\ k \in DOMAIN dst[Site(p)].data /\ node.data[k] = dst[Site(p)].data[k]
      BY <1>5, <1>6, <1>12, <2>1
    <3> QED
      BY <1>4, <1>6, <2>1, <2>2, <2>13, <3>1 DEF Stores
  <2> QED
    BY <1>2, <1>6, <2>12, <2>14
<1>14. CASE Respond("err") /\ file' = [file EXCEPT !.wrerr = "displayed"] /\ UNCHANGED dst
  <2>1. PICK fp \in Seq(Pieces), s \in Nat, g \in Nat, w \in Wrerr :
          file = [path |-> fp, size |-> s, got |-> g, wrerr |-> w]
    BY <1>6
  <2>2. file' = [path |-> fp, size |-> s, got |-> g, wrerr |-> "displayed"]
    BY <1>14, <2>1
  <2>3. file'.path = file.path /\ file'.size = file.size /\ file'.wrerr = "displayed"
    BY <2>1, <2>2
  <2>4. Receiving(j)'
    <3>1. (List[j].path)' = p /\ dst' = dst
      BY <1>4, <1>14
    <3> QED
      BY <1>4, <1>6, <1>8, <2>3, <3>1 DEF Receiving
  <2>5. Late' = <<"err">>
    BY <2>3 DEF Late
  <2>6. up => s2c' = IF s2c = <<"ok">> THEN <<"ok">> \o Late' ELSE Late'
    <3>1. <<"ok">> # <<>> /\ "err" \in {"ok", "err"}
      OBVIOUS
    <3>2. up /\ s2c = <<>> => s2c' = <<"err">>
      BY <1>14, <3>1, AnswerCases
    <3>3. up /\ s2c = <<"ok">> => s2c' = <<"ok">> \o <<"err">>
      BY <1>14, AnswerCases
    <3> QED
      BY <1>9, <2>5, <3>1, <3>2, <3>3
  <2>7. Together'
    BY <1>10, <2>3, <2>4, <2>6
  <2> QED
    BY <1>14, <2>7
<1> QED
  BY <1>5, <1>11, <1>13, <1>14 DEF Truncate

\* How many cells the server still has to read after the data of a file.
LEMMA ClosingStream ==
  ASSUME Nested, TypeOK, NEW j \in 1..(Len(List) + 1), Closing(j), c2s # <<>>
  PROVE  /\ Head(c2s) = Plain("nul")
         /\ \/ /\ c2s = <<Plain("nul")>> /\ Tail(c2s) = <<>>
               /\ up => i = j /\ cpc = "ack" /\ s2c = Late
            \/ /\ file.wrerr = "displayed"
               /\ \E k \in (j + 1)..(Len(List) + 1) :
                    /\ Walk[k] = Walk[j]
                    /\ \/ /\ Tail(c2s) = <<>>
                          /\ up => i = k /\ s2c = <<>> /\ (cpc = "next" \/ cpc = "done")
                       \/ \E r \in Requests(k) :
                            Tail(c2s) = <<r>> /\ (up => i = k /\ s2c = <<>> /\ Waits(r))
<1>1. \A r : Head(<<Plain("nul"), r>>) = Plain("nul") /\ Tail(<<Plain("nul"), r>>) = <<r>>
  OBVIOUS
<1>2. Head(<<Plain("nul")>>) = Plain("nul") /\ Tail(<<Plain("nul")>>) = <<>>
  OBVIOUS
<1>3. \/ c2s = <<Plain("nul")>> /\ (up => i = j /\ cpc = "ack" /\ s2c = Late)
      \/ /\ file.wrerr = "displayed"
         /\ \E k \in (j + 1)..(Len(List) + 1) :
              /\ Walk[k] = Walk[j]
              /\ \/ /\ c2s = <<Plain("nul")>>
                    /\ up => i = k /\ s2c = <<>> /\ (cpc = "next" \/ cpc = "done")
                 \/ \E r \in Requests(k) :
                      c2s = <<Plain("nul"), r>> /\ (up => i = k /\ s2c = <<>> /\ Waits(r))
  BY DEF Closing
<1>4. CASE c2s = <<Plain("nul")>> /\ (up => i = j /\ cpc = "ack" /\ s2c = Late)
  BY <1>2, <1>4
<1>5. CASE /\ file.wrerr = "displayed"
           /\ \E k \in (j + 1)..(Len(List) + 1) :
                /\ Walk[k] = Walk[j]
                /\ \/ /\ c2s = <<Plain("nul")>>
                      /\ up => i = k /\ s2c = <<>> /\ (cpc = "next" \/ cpc = "done")
                   \/ \E r \in Requests(k) :
                        c2s = <<Plain("nul"), r>> /\ (up => i = k /\ s2c = <<>> /\ Waits(r))
  <2>1. PICK k \in (j + 1)..(Len(List) + 1) :
              /\ Walk[k] = Walk[j]
              /\ \/ /\ c2s = <<Plain("nul")>>
                    /\ up => i = k /\ s2c = <<>> /\ (cpc = "next" \/ cpc = "done")
                 \/ \E r \in Requests(k) :
                      c2s = <<Plain("nul"), r>> /\ (up => i = k /\ s2c = <<>> /\ Waits(r))
    BY <1>5
  <2>2. CASE /\ c2s = <<Plain("nul")>>
             /\ up => i = k /\ s2c = <<>> /\ (cpc = "next" \/ cpc = "done")
    <3>1. Tail(c2s) = <<>> /\ Head(c2s) = Plain("nul")
      BY <1>2, <2>2
    <3> QED
      BY <1>5, <2>1, <2>2, <3>1
  <2>3. CASE \E r \in Requests(k) :
               c2s = <<Plain("nul"), r>> /\ (up => i = k /\ s2c = <<>> /\ Waits(r))
    <3>1. PICK r \in Requests(k) :
               c2s = <<Plain("nul"), r>> /\ (up => i = k /\ s2c = <<>> /\ Waits(r))
      BY <2>3
    <3>2. Tail(c2s) = <<r>> /\ Head(c2s) = Plain("nul")
      BY <1>1, <3>1
    <3> QED
      BY <1>5, <2>1, <3>1, <3>2
  <2> QED
    BY <2>1, <2>2, <2>3
<1> QED
  BY <1>3, <1>4, <1>5

\* The mark is read, and the file answered unless its error was.
LEMMA EndMarkStep ==
  ASSUME Nested, TypeOK, TypeOK', Together, EndMark
  PROVE  Together' /\ UNCHANGED dst
<1>1. /\ spc = "response" /\ UNCHANGED <<clientVars, up, file, dst, given>> /\ c2s # <<>> /\ c2s' = Tail(c2s)
      /\ i' = i /\ cpc' = cpc /\ up' = up /\ dst' = dst /\ spc' = "read" /\ UNCHANGED given /\ stack # <<>>
  BY DEF EndMark, clientVars, given, TypeOK
<1>2. PICK j \in 1..(Len(List) + 1) : Closing(j) /\ Fits
  BY <1>1, ServerSituation
<1>3. /\ Receiving(j) /\ (file.wrerr = "no" => Delivered(List[j].path))
      /\ Levels(Walk[j]) /\ IsFile(j) /\ j \in 1..Len(List) /\ Len(List) \in Nat
      /\ file.wrerr \in {"no", "yes", "displayed"}
  BY <1>2, ReceivingFacts, ListFacts DEF Closing, Wrerr
<1>4. "ok" \in {"ok", "err"} /\ "err" \in {"ok", "err"}
      /\ <<"ok">> \in Seq({"ok", "err"}) /\ <<"err">> \in Seq({"ok", "err"})
  OBVIOUS
<1>5. Late = IF file.wrerr = "displayed" THEN <<"err">> ELSE <<>>
  BY DEF Late
<1>6. SameLevels
  <2>1. CASE UNCHANGED stack
    BY <2>1 DEF SameLevels
  <2>2. CASE SetHere([Here EXCEPT !.setimes = FALSE])
    BY <1>1, <2>2, SetTimesFacts
  <2> QED
    BY <2>1, <2>2 DEF EndMark
<1>7. Levels(Walk[j])'
  BY <1>1, <1>3, <1>6, LevelsStay
<1>8. /\ file.wrerr = "no" => Respond("ok") \/ Respond("err")
      /\ file.wrerr = "yes" => Answer(<<"err">>)
      /\ file.wrerr = "displayed" => Answer(<<>>)
  BY DEF EndMark, Respond
<1>9. CASE Tail(c2s) = <<>> /\ (up => i = j /\ cpc = "ack" /\ s2c = Late)
  <2>1. (up /\ file.wrerr = "no") => s2c' = <<"ok">> \/ s2c' = <<"err">>
    BY <1>4, <1>5, <1>8, <1>9, AnswerCases
  <2>2. (up /\ file.wrerr = "yes") => s2c' = <<"err">>
    BY <1>4, <1>5, <1>8, <1>9, AnswerCases
  <2>3. (up /\ file.wrerr = "displayed") => s2c' = <<"err">>
    BY <1>5, <1>8, <1>9, AnswerCases
  <2>4. Delivered(List[j].path) => Delivered(List[j].path)'
    <3>1. PICK p : p = List[j].path
      OBVIOUS
    <3>2. Site(p)' = Site(p)
      BY <1>1, GivenFacts
    <3>3. Delivered(p) => Delivered(p)'
      BY <1>1, <3>2 DEF Delivered, Regular, DataCell, Record
    <3>4. (List[j].path)' = p
      BY <3>1
    <3>5. Delivered(p)' => Delivered(List[j].path)'
      BY <3>1, <3>4 DEF Delivered, Site, SentFor, WasDir, Regular, DataCell, Record
    <3> QED
      BY <3>1, <3>3, <3>5
  <2>5. IsFile(j)'
    BY <1>3 DEF IsFile
  <2>6. up' => Awaited(j)'
    <3>1. SUFFICES ASSUME up' PROVE Awaited(j)'
      OBVIOUS
    <3>2. i' = j /\ cpc' = "ack"
      BY <1>1, <1>9, <3>1
    <3>3. s2c' = <<"err">> \/ (s2c' = <<"ok">> /\ Delivered(List[j].path)')
      BY <1>1, <1>3, <2>1, <2>2, <2>3, <2>4, <3>1
    <3> QED
      BY <2>5, <3>2, <3>3, Zenon DEF Awaited
  <2>7. Idle(j)'
    BY <1>1, <1>7, <1>9, <2>6 DEF Idle
  <2> QED
    BY <1>1, <1>2, <2>7, SituationNext
<1>10. CASE /\ file.wrerr = "displayed"
            /\ \E k \in (j + 1)..(Len(List) + 1) :
                 /\ Walk[k] = Walk[j]
                 /\ \/ /\ Tail(c2s) = <<>>
                       /\ up => i = k /\ s2c = <<>> /\ (cpc = "next" \/ cpc = "done")
                    \/ \E r \in Requests(k) :
                         Tail(c2s) = <<r>> /\ (up => i = k /\ s2c = <<>> /\ Waits(r))
  <2>1. PICK k \in (j + 1)..(Len(List) + 1) :
                 /\ Walk[k] = Walk[j]
                 /\ \/ /\ Tail(c2s) = <<>>
                       /\ up => i = k /\ s2c = <<>> /\ (cpc = "next" \/ cpc = "done")
                    \/ \E r \in Requests(k) :
                         Tail(c2s) = <<r>> /\ (up => i = k /\ s2c = <<>> /\ Waits(r))
    BY <1>10
  <2>2. up => s2c' = s2c
    BY <1>8, <1>10, AnswerCases
  <2>3. Levels(Walk[k])' /\ k \in 1..(Len(List) + 1)
    <3>1. Levels(Walk[k])
      BY <1>3, <2>1
    <3> QED
      BY <1>1, <1>3, <1>6, <3>1, LevelsStay
  <2>4. CASE Tail(c2s) = <<>> /\ (up => i = k /\ s2c = <<>> /\ (cpc = "next" \/ cpc = "done"))
    <3>1. CASE up /\ cpc = "done"
      <4>1. Over'
        BY <1>1, <2>4, <3>1 DEF Over, ClientGone
      <4> QED
        BY <1>1, <4>1 DEF Together
    <3>2. CASE ~(up /\ cpc = "done")
      <4>1. up' => Awaited(k)'
        BY <1>1, <2>2, <2>4, <3>2 DEF Awaited
      <4>2. Idle(k)'
        BY <1>1, <2>3, <2>4, <4>1 DEF Idle
      <4> QED
        BY <1>1, <1>2, <2>3, <4>2, SituationNext
    <3> QED
      BY <3>1, <3>2
  <2>5. CASE \E r \in Requests(k) : Tail(c2s) = <<r>> /\ (up => i = k /\ s2c = <<>> /\ Waits(r))
    <3>1. PICK r \in Requests(k) : Tail(c2s) = <<r>> /\ (up => i = k /\ s2c = <<>> /\ Waits(r))
      BY <2>5
    <3>2. Requests(k)' = Requests(k)
      BY <1>1, GivenFacts
    <3>3. Waits(r) => Waits(r)'
      BY <1>1 DEF Waits
    <3>4. Requested(k)'
      <4>1. r \in Requests(k)' /\ c2s' = <<r>> /\ (up' => i' = k /\ s2c' = <<>> /\ Waits(r)')
        BY <1>1, <2>2, <3>1, <3>2, <3>3
      <4> QED
        BY <1>1, <2>3, <4>1 DEF Requested
    <3> QED
      BY <1>1, <1>2, <2>3, <3>4, SituationNext
  <2> QED
    BY <2>1, <2>4, <2>5
<1>11. Together'
  BY <1>1, <1>2, <1>9, <1>10, ClosingStream
<1> QED
  BY <1>1, <1>11

\* Without the mark the client is gone.
LEMMA NoEndMarkStep ==
  ASSUME Nested, TypeOK, Together, NoEndMark
  PROVE  Together' /\ UNCHANGED dst
<1>1. /\ spc = "response" /\ UNCHANGED <<clientVars, up>> /\ UNCHANGED dst /\ stack # <<>>
      /\ Return(<<"err">>) /\ <<"err">> \in Seq({"ok", "err"})
  BY DEF NoEndMark, TypeOK
<1>2. PICK j \in 1..(Len(List) + 1) : Closing(j) /\ Fits
  BY <1>1, ServerSituation
<1>3. c2s # <<>> => Head(c2s).kind = "nul"
  <2>1. Plain("nul").kind = "nul"
    BY DEF Plain, Record
  <2> QED
    BY <1>2, <2>1, ClosingStream
<1>4. c2s = <<>> /\ ClientGone /\ c2s' = <<>>
  BY <1>3 DEF NoEndMark
<1> QED
  BY <1>1, <1>4, ReturnOver

-----------------------------------------------------------------------------
(* The tree at the destination.                                            *)

\* What a path may hold: holes, what it held before, and what was sent for it.
Owned(q, k, cell) ==
  \/ cell = Hole
  \/ q \in DOMAIN dst0 /\ k \in DOMAIN dst0[q].data /\ cell = dst0[q].data[k]
  \/ \E p \in Files : Site(p) = q /\ cell = DataCell(p, k)

AllOwned == \A q \in DOMAIN dst : \A k \in DOMAIN dst[q].data : Owned(q, k, dst[q].data[k])

\* OwnContent in these terms.
LEMMA OwnedFacts ==
  ASSUME Sound, Sound'
  PROVE  (OwnContent <=> AllOwned) /\ (OwnContent' <=> AllOwned')
<1>1. OwnContent <=> AllOwned
  BY DEF OwnContent, Owned, AllOwned
<1>2. OwnContent' <=> AllOwned'
  BY DEF OwnContent, Owned, AllOwned
<1> QED
  BY <1>1, <1>2

\* It depends on nothing that changes.
LEMMA OwnedStays ==
  ASSUME UNCHANGED given, NEW q, NEW k, NEW cell, Owned(q, k, cell)
  PROVE  Owned(q, k, cell)'
<1>1. dst0' = dst0 /\ \A p : Site(p)' = Site(p)
  BY GivenFacts DEF given
<1>2. Hole' = Hole /\ \A p : DataCell(p, k)' = DataCell(p, k)
  BY DEF Hole, Plain, DataCell, Record
<1> QED
  BY <1>1, <1>2 DEF Owned

\* One path of the tree changes: no file gets into the place of a directory, what is
\* stored there belongs there, and a file that is delivered stays.
Fitting(at, node) ==
  /\ Place(at, node) /\ (WasDir => at # <<>>)
  /\ \A d \in Dirs : Site(d) = at /\ at # <<>> => node.kind = "dir"
  /\ \A k \in DOMAIN node.data :
       \/ Owned(at, k, node.data[k])
       \/ at \in DOMAIN dst /\ k \in DOMAIN dst[at].data /\ node.data[k] = dst[at].data[k]
  /\ \A k \in FileEntries : Delivered(List[k].path) /\ Site(List[k].path) = at => node = Regular(Whole(List[k].path))

\* The tree stays in order.
LEMMA PlacedNext ==
  ASSUME Nested, Sound, DirsClear, OwnContent, UNCHANGED given, NEW at, NEW node, Fitting(at, node)
  PROVE  DirsClear' /\ OwnContent'
<1>1. /\ WasDir => at # <<>>
      /\ \A d \in Dirs : Site(d) = at /\ at # <<>> => node.kind = "dir"
      /\ \A k \in DOMAIN node.data :
           \/ Owned(at, k, node.data[k])
           \/ at \in DOMAIN dst /\ k \in DOMAIN dst[at].data /\ node.data[k] = dst[at].data[k]
  BY DEF Fitting
<1>2. /\ DOMAIN dst' = DOMAIN dst \cup {at} /\ dst'[at] = node
      /\ \A q \in DOMAIN dst : q # at => dst'[q] = dst[q]
  BY DEF Place, Fitting
<1>3. /\ WasDir' = WasDir /\ Sound' = Sound /\ dst0' = dst0
      /\ \A p : Site(p)' = Site(p)
  BY GivenFacts DEF given
<1>4. \A q, k, cell : Owned(q, k, cell) => Owned(q, k, cell)'
  BY OwnedStays
<1>5. DirsClear'
  <2>1. WasDir' => IsDir(<<>>)'
    BY <1>2, <1>3, <1>1 DEF DirsClear, IsDir
  <2>2. ASSUME NEW d \in Dirs, Site(d)' \in DOMAIN dst' \ {<<>>}
        PROVE  Site(d)' \in DOMAIN dst' /\ dst'[Site(d)'].kind = "dir"
    <3>1. PICK q : q = Site(d) /\ q = Site(d)' /\ q # <<>> /\ q \in DOMAIN dst'
      BY <1>3, <2>2
    <3>2. CASE q = at
      BY <1>2, <1>1, <3>1, <3>2
    <3>3. CASE q # at
      <4>1. q \in DOMAIN dst /\ dst'[q] = dst[q]
        BY <1>2, <3>1, <3>3
      <4>2. dst[q].kind = "dir"
        BY <3>1, <4>1 DEF DirsClear, IsDir
      <4> QED
        BY <3>1, <4>1, <4>2
    <3> QED
      BY <3>2, <3>3
  <2> QED
    BY <2>1, <2>2 DEF DirsClear, IsDir
<1>6. AllOwned
  BY <1>3, OwnedFacts
<1>7. OwnContent'
  <2>1. ASSUME NEW q \in DOMAIN dst', NEW k \in DOMAIN dst'[q].data
        PROVE  \E c : c = dst'[q].data[k] /\ Owned(q, k, c)'
    <3>1. CASE q \in DOMAIN dst /\ k \in DOMAIN dst[q].data /\ dst'[q].data[k] = dst[q].data[k]
      <4>1. PICK c : c = dst[q].data[k]
        OBVIOUS
      <4>2. Owned(q, k, c)
        BY <1>6, <3>1, <4>1 DEF AllOwned
      <4>3. Owned(q, k, c)' /\ c = dst'[q].data[k]
        BY <1>4, <3>1, <4>1, <4>2
      <4> QED
        BY <4>3
    <3>2. CASE ~(q \in DOMAIN dst /\ k \in DOMAIN dst[q].data /\ dst'[q].data[k] = dst[q].data[k])
      <4>1. q = at /\ dst'[q] = node
        BY <1>2, <3>2
      <4>2. PICK c : c = node.data[k]
        OBVIOUS
      <4>3. Owned(q, k, c)
        BY <1>1, <3>2, <4>1, <4>2
      <4>4. Owned(q, k, c)' /\ c = dst'[q].data[k]
        BY <1>4, <4>1, <4>2, <4>3
      <4> QED
        BY <4>4
    <3> QED
      BY <3>1, <3>2
  <2>2. AllOwned'
    <3>1. \A q \in DOMAIN dst' : \A k \in DOMAIN dst'[q].data : \E c : c = dst'[q].data[k] /\ Owned(q, k, c)'
      BY <2>1
    <3> QED
      BY <3>1 DEF AllOwned, Owned
  <2> QED
    BY <1>3, <2>2, OwnedFacts
<1> QED
  BY <1>5, <1>7

\* The files that are delivered stay.
LEMMA DeliveredNext ==
  ASSUME Nested, UNCHANGED given, NEW at, NEW node, Fitting(at, node)
  PROVE  \A k \in FileEntries : Delivered(List[k].path) => Delivered(List[k].path)'
<1>1. /\ DOMAIN dst' = DOMAIN dst \cup {at} /\ dst'[at] = node
      /\ \A q \in DOMAIN dst : q # at => dst'[q] = dst[q]
  BY DEF Place, Fitting
<1>2. \A p : Site(p)' = Site(p)
  BY GivenFacts DEF given
<1>3. \A k \in FileEntries : Delivered(List[k].path) /\ Site(List[k].path) = at => node = Regular(Whole(List[k].path))
  BY DEF Fitting
<1>5. ASSUME NEW k \in FileEntries, Delivered(List[k].path)
      PROVE  Delivered(List[k].path)'
  <2>1. PICK p \in Files : p = List[k].path
    BY DEF FileEntries
  <2>2. PICK q : q = Site(p) /\ q = Site(p)'
    BY <1>2
  <2>3. q \in DOMAIN dst /\ dst[q] = Regular(Whole(p))
    <3>1. Delivered(p)
      BY <1>5, <2>1
    <3>2. Site(p) \in DOMAIN dst /\ dst[Site(p)] = Regular(Whole(p))
      BY <3>1, WholeFacts
    <3> QED
      BY <2>2, <3>2
  <2>4. q \in DOMAIN dst' /\ dst'[q] = Regular(Whole(p))
    <3>1. CASE q = at
      BY <1>1, <1>3, <1>5, <2>1, <2>2, <3>1
    <3>2. CASE q # at
      BY <1>1, <2>3, <3>2
    <3> QED
      BY <3>1, <3>2
  <2>5. Delivered(p)'
    <3>1. Site(p)' \in DOMAIN dst' /\ dst'[Site(p)'] = Regular([m \in 1..Size[p] |-> DataCell(p, m)])
      BY <2>2, <2>4 DEF Whole
    <3> QED
      BY <3>1 DEF Delivered, Regular, DataCell, Record
  <2>6. Delivered(p)' => Delivered(List[k].path)'
    BY <2>1 DEF Delivered, Site, SentFor, WasDir, Regular, DataCell, Record
  <2> QED
    BY <2>5, <2>6
<1> QED
  BY <1>5

\* What the server does to the tree.
Changes ==
  \/ UNCHANGED dst
  \/ WasDir /\ \E d \in Dirs : Place(Site(d), Directory)
  \/ Fits /\ \E j \in 1..Len(List), node \in Nodes : Stores(j, node)

\* A step that leaves the tree alone.
LEMMA KeptNext ==
  ASSUME UNCHANGED given, UNCHANGED dst
  PROVE  /\ Sound /\ DirsClear /\ OwnContent => DirsClear' /\ OwnContent'
         /\ \A k \in FileEntries : Delivered(List[k].path) => Delivered(List[k].path)'
<1>1. dst' = dst /\ dst0' = dst0 /\ mode' = mode /\ Sound' = Sound
  BY GivenFacts DEF given
<1>2. DirsClear => DirsClear'
  BY <1>1 DEF DirsClear, IsDir, Site, SentFor, WasDir
<1>3. ASSUME Sound, OwnContent PROVE OwnContent'
  <2>1. Sound /\ Sound' /\ OwnContent
    BY <1>1, <1>3
  <2>2. AllOwned => AllOwned'
    <3>1. SUFFICES ASSUME AllOwned, NEW q \in DOMAIN dst', NEW k \in DOMAIN dst'[q].data
                   PROVE  \E c : c = dst'[q].data[k] /\ Owned(q, k, c)'
      BY DEF AllOwned, Owned
    <3>2. PICK c : c = dst[q].data[k] /\ c = dst'[q].data[k]
      BY <1>1
    <3>3. Owned(q, k, c)
      BY <1>1, <3>1, <3>2 DEF AllOwned
    <3> QED
      BY <3>2, <3>3, OwnedStays
  <2> QED
    BY <2>1, <2>2, OwnedFacts
<1>4. \A k \in FileEntries : Delivered(List[k].path) => Delivered(List[k].path)'
  BY <1>1 DEF Delivered, Site, SentFor, WasDir, Regular, DataCell, Record
<1> QED
  BY <1>2, <1>3, <1>4

\* A step of the server changes the tree only so.
LEMMA ChangesFit ==
  ASSUME Nested, Changes
  PROVE  UNCHANGED dst \/ \E at, n : Fitting(at, n)
<1>1. Dirs \cap Files = {} /\ Dirs \cup Files \subseteq Seq(Names) \ {<<>>}
  BY ListFacts
<1>2. ASSUME WasDir, NEW d \in Dirs, NEW p \in Files
      PROVE  Site(d) # Site(p)
  BY <1>1, <1>2, SiteInjective DEF Paths
<1>3. ASSUME WasDir, NEW p \in Paths
      PROVE  Site(p) # <<>>
  BY <1>1, <1>3, SiteFacts, ListFacts
<1>4. ASSUME WasDir, NEW d \in Dirs, Place(Site(d), Directory)
      PROVE  \E at, n : Fitting(at, n)
  <2>1. PICK at : at = Site(d)
    OBVIOUS
  <2>2. at # <<>> /\ Place(at, Directory)
    BY <1>3, <1>4, <2>1, ListFacts
  <2>3. Directory.kind = "dir" /\ DOMAIN Directory.data = {}
    <3>1. Directory.kind = "dir" /\ Directory.data = <<>>
      BY DEF Directory
    <3>2. DOMAIN <<>> = {}
      OBVIOUS
    <3> QED
      BY <3>1, <3>2
  <2>4. \A k \in FileEntries : Site(List[k].path) # at
    BY <1>2, <1>4, <2>1 DEF FileEntries
  <2>5. \A k \in DOMAIN Directory.data : FALSE
    BY <2>3
  <2> QED
    BY <2>2, <2>3, <2>4, <2>5 DEF Fitting
<1>5. ASSUME Fits, NEW j \in 1..Len(List), NEW node \in Nodes, Stores(j, node)
      PROVE  \E at, n : Fitting(at, n)
  <2>1. PICK p : p = List[j].path
    OBVIOUS
  <2>2. PICK at : at = Site(p)
    OBVIOUS
  <2>3. /\ p \in Files /\ Place(at, node) /\ (Delivered(p) => node = Regular(Whole(p)))
        /\ \A k \in DOMAIN node.data :
             \/ node.data[k] = Hole
             \/ node.data[k] = DataCell(p, k)
             \/ at \in DOMAIN dst /\ k \in DOMAIN dst[at].data /\ node.data[k] = dst[at].data[k]
    BY <1>5, <2>1, <2>2 DEF Stores, IsFile
  <2>4. \A k \in DOMAIN node.data :
          \/ Owned(at, k, node.data[k])
          \/ at \in DOMAIN dst /\ k \in DOMAIN dst[at].data /\ node.data[k] = dst[at].data[k]
    BY <2>2, <2>3 DEF Owned
  <2>5. WasDir => at # <<>>
    BY <1>3, <2>2, <2>3, ListFacts
  <2>6. ASSUME NEW d \in Dirs, Site(d) = at, at # <<>>
        PROVE  node.kind = "dir"
    <3>1. CASE WasDir
      BY <1>2, <2>2, <2>3, <2>6, <3>1
    <3>2. CASE ~WasDir
      BY <2>6, <3>2 DEF Site
    <3> QED
      BY <3>1, <3>2
  <2>7. ASSUME NEW k \in FileEntries, Delivered(List[k].path), Site(List[k].path) = at
        PROVE  node = Regular(Whole(List[k].path))
    <3>1. PICK r \in Files : r = List[k].path
      BY DEF FileEntries
    <3>2. CASE WasDir
      <4>1. r = p
        BY <1>1, <2>2, <2>3, <2>7, <3>1, <3>2, SiteInjective DEF Paths
      <4> QED
        BY <2>3, <2>7, <3>1, <4>1
    <3>3. CASE ~WasDir
      <4>1. k \in 1..Len(List)
        BY ListFacts DEF FileEntries
      <4>2. k = j
        BY <1>5, <3>3, <4>1, FitsFacts
      <4> QED
        BY <2>1, <2>3, <2>7, <4>2
    <3> QED
      BY <3>2, <3>3
  <2> QED
    BY <2>3, <2>4, <2>5, <2>6, <2>7 DEF Fitting
<1> QED
  BY <1>4, <1>5 DEF Changes

\* It keeps the tree in order, and the files that are delivered.
LEMMA ChangesNext ==
  ASSUME Nested, UNCHANGED given, Changes
  PROVE  /\ Sound /\ DirsClear /\ OwnContent => DirsClear' /\ OwnContent'
         /\ \A k \in FileEntries : Delivered(List[k].path) => Delivered(List[k].path)'
<1>1. CASE UNCHANGED dst
  BY <1>1, KeptNext
<1>2. ASSUME NEW at, NEW n, Fitting(at, n)
      PROVE  /\ Sound /\ DirsClear /\ OwnContent => DirsClear' /\ OwnContent'
             /\ \A k \in FileEntries : Delivered(List[k].path) => Delivered(List[k].path)'
  BY <1>2, PlacedNext, DeliveredNext
<1> QED
  BY <1>1, <1>2, ChangesFit

\* A step of the server keeps the two sides together, or they stray.
LEMMA ServerMoves ==
  ASSUME Nested, TypeOK, TypeOK', Placed, Together, Server
  PROVE  (Together' /\ Changes) \/ Strays
<1>1. CASE Enter
  BY <1>1, EnterStep DEF Changes
<1>2. CASE ReadEnd
  BY <1>2, ReadEndStep DEF Changes
<1>3. CASE ReadExit
  BY <1>3, ReadExitStep DEF Changes
<1>4. CASE ReadTimes
  BY <1>4, ReadTimesStep DEF Changes
<1>5. CASE ReadGarbage
  BY <1>5, ReadGarbageStep
<1>6. CASE ReadDirectory
  BY <1>6, ReadDirectoryStep DEF Changes
<1>7. CASE ReadFile
  BY <1>7, ReadFileStep DEF Changes
<1>8. CASE ReadData
  BY <1>8, ReadDataStep DEF Changes
<1>9. CASE Truncate
  BY <1>9, TruncateStep DEF Changes
<1>10. CASE EndMark
  BY <1>10, EndMarkStep DEF Changes
<1>11. CASE NoEndMark
  BY <1>11, NoEndMarkStep DEF Changes
<1> QED
  BY <1>1, <1>2, <1>3, <1>4, <1>5, <1>6, <1>7, <1>8, <1>9, <1>10, <1>11 DEF Server

\* Every step of the server keeps the invariant.
LEMMA ServerStep ==
  ASSUME Nested, TypeOK, TypeOK', Placed, Sound, Together, DirsClear, OwnContent, Accounted, Server
  PROVE  Together' /\ DirsClear' /\ OwnContent' /\ Accounted'
<1>1. UNCHANGED <<clientVars, up, given>> /\ UNCHANGED given
      /\ i' = i /\ told' = told /\ cpc' = cpc /\ up' = up
  BY DEF Server, Enter, ReadEnd, ReadExit, ReadTimes, ReadGarbage, ReadDirectory, ReadFile,
         ReadData, Truncate, EndMark, NoEndMark, clientVars, given
<1>2. Together' /\ Changes
  BY ServerMoves DEF Strays
<1>3. /\ DirsClear' /\ OwnContent'
      /\ \A k \in FileEntries : Delivered(List[k].path) => Delivered(List[k].path)'
  BY <1>1, <1>2, ChangesNext
<1>4. Accounted'
  BY <1>1, <1>3 DEF Accounted, FileEntries
<1> QED
  BY <1>2, <1>3, <1>4

-----------------------------------------------------------------------------
(* The depth.                                                              *)

\* One more position is counted.
LEMMA CountNext ==
  ASSUME NEW T, NEW m \in Nat \ {0}
  PROVE  /\ Cardinality((1..(m - 1)) \cap T) \in Nat
         /\ m \in T => Cardinality((1..m) \cap T) = Cardinality((1..(m - 1)) \cap T) + 1
         /\ m \notin T => Cardinality((1..m) \cap T) = Cardinality((1..(m - 1)) \cap T)
<1> DEFINE S == (1..(m - 1)) \cap T
<1>1. IsFiniteSet(S) /\ Cardinality(S) \in Nat
  <2>1. IsFiniteSet(1..(m - 1))
    BY FS_Interval
  <2>2. S \in SUBSET (1..(m - 1))
    OBVIOUS
  <2>3. IsFiniteSet(S)
    BY <2>1, <2>2, FS_Subset
  <2> QED
    BY <2>3, FS_CardinalityType
<1>2. ASSUME m \in T PROVE Cardinality((1..m) \cap T) = Cardinality(S) + 1
  <2>1. (1..m) \cap T = S \cup {m}
    BY <1>2
  <2>2. m \notin S
    OBVIOUS
  <2> QED
    BY <1>1, <2>1, <2>2, FS_AddElement
<1>3. ASSUME m \notin T PROVE Cardinality((1..m) \cap T) = Cardinality(S)
  <2>1. (1..m) \cap T = S
    BY <1>3
  <2> QED
    BY <2>1
<1> QED
  BY <1>1, <1>2, <1>3

\* The directories entered and left before position n.
Entered(n) == Cardinality((1..(n - 1)) \cap {k \in 1..Len(List) : MakesDir(k)})
Left(n) == Cardinality((1..(n - 1)) \cap {k \in 1..Len(List) : IsExit(k)})

\* The depth in these terms.
LEMMA DepthFacts ==
  ASSUME Nested, i \in 1..(Len(List) + 1)
  PROVE  Depth = Entered(i) - Left(i)
<1>1. Len(List) \in Nat /\ DOMAIN List = 1..Len(List)
  BY ListFacts
<1>2. {k \in 1..(i - 1) : List[k].path \in Dirs} = (1..(i - 1)) \cap {k \in 1..Len(List) : MakesDir(k)}
  BY <1>1 DEF MakesDir
<1>3. {k \in 1..(i - 1) : List[k] = ExitMark} = (1..(i - 1)) \cap {k \in 1..Len(List) : IsExit(k)}
  BY <1>1 DEF IsExit
<1> QED
  BY <1>2, <1>3 DEF Depth, Entered, Left

\* What one entry adds to the depth.
LEMMA DepthStep ==
  ASSUME Nested, NEW m \in 1..Len(List), Entered(m) - Left(m) = Len(Walk[m])
  PROVE  Entered(m + 1) - Left(m + 1) = Len(Walk[m + 1])
<1>1. PICK D : D = {k \in 1..Len(List) : MakesDir(k)}
  OBVIOUS
<1>2. PICK E : E = {k \in 1..Len(List) : IsExit(k)}
  OBVIOUS
<1>3. m \in Nat \ {0} /\ (m + 1) - 1 = m /\ m \in 1..(Len(List) + 1) /\ m + 1 \in 1..(Len(List) + 1)
  BY ListFacts
<1>4. /\ Entered(m) = Cardinality((1..(m - 1)) \cap D) /\ Entered(m + 1) = Cardinality((1..m) \cap D)
      /\ Left(m) = Cardinality((1..(m - 1)) \cap E) /\ Left(m + 1) = Cardinality((1..m) \cap E)
  BY <1>1, <1>2, <1>3 DEF Entered, Left
<1>5. /\ Entered(m) \in Nat /\ Left(m) \in Nat
      /\ m \in D => Entered(m + 1) = Entered(m) + 1
      /\ m \notin D => Entered(m + 1) = Entered(m)
      /\ m \in E => Left(m + 1) = Left(m) + 1
      /\ m \notin E => Left(m + 1) = Left(m)
  BY <1>3, <1>4, CountNext
<1>6. Walk[m] \in Seq(Names) /\ Walk[m + 1] \in Seq(Names) /\ Len(Walk[m]) \in Nat
  BY <1>3, ListFacts
<1>7. CASE IsExit(m)
  <2>1. m \in E /\ m \notin D /\ Walk[m] # <<>> /\ Walk[m + 1] = Front(Walk[m])
    BY <1>1, <1>2, <1>7, EntryFacts
  <2>2. Len(Walk[m]) >= 1
    BY <1>6, <2>1
  <2>3. Len(Front(Walk[m])) = Len(Walk[m]) - 1
    BY <1>6, <2>2, FrontOf
  <2> QED
    BY <1>5, <1>6, <2>1, <2>3
<1>8. CASE ~IsExit(m) /\ MakesDir(m)
  <2>1. m \notin E /\ m \in D
    BY <1>1, <1>2, <1>8
  <2>2. PICK n \in Names : List[m] = [path |-> Append(Walk[m], n), user |-> Walk[m] = <<>>]
    BY <1>8, EntryFacts
  <2>3. Walk[m + 1] = Append(Walk[m], n)
    <3>1. Walk[m + 1] = List[m].path
      BY <1>8, EntryFacts
    <3> QED
      BY <2>2, <3>1
  <2>4. Len(Append(Walk[m], n)) = Len(Walk[m]) + 1
    BY <1>6
  <2> QED
    BY <1>5, <1>6, <2>1, <2>3, <2>4
<1>9. CASE ~IsExit(m) /\ ~MakesDir(m)
  <2>1. m \notin E /\ m \notin D /\ Walk[m + 1] = Walk[m]
    BY <1>1, <1>2, <1>9, EntryFacts
  <2> QED
    BY <1>5, <1>6, <2>1
<1> QED
  BY <1>7, <1>8, <1>9

\* The client counts on through its list, one entry after the other.
LEMMA CountedStep ==
  ASSUME Nested, TypeOK, TypeOK', Placed, Counted, [Next]_vars
  PROVE  Counted'
<1>1. Len(List) \in Nat /\ i \in 0..(Len(List) + 1) /\ i' \in 0..(Len(List) + 1) /\ Walk[1] = <<>>
  BY ListFacts DEF TypeOK
<1>2. \/ i' = i
      \/ i' = 1
      \/ i' = i + 1 /\ i \in 1..Len(List)
  <2>1. \A n : Advance => i' = i + 1
    BY DEF Advance
  <2>2. \A r, p : Send(r, p) => i' = i \/ i' = i + 1
    BY DEF Send, Advance
  <2>3. i' = i \/ i' = 1 \/ i' = i + 1
    <3>1. ASSUME Client PROVE i' = i \/ i' = 1 \/ i' = i + 1
      <4>1. CASE Expand
        BY <4>1 DEF Expand
      <4>2. CASE Greeted
        BY <4>2 DEF Greeted
      <4>3. CASE Finish
        BY <4>3 DEF Finish
      <4>4. CASE SendExit
        BY <4>4 DEF SendExit
      <4>5. CASE Exited
        BY <4>5 DEF Exited, Advance
      <4>6. CASE SendFile
        BY <4>6, <2>2 DEF SendFile, SendControl, Advance
      <4>7. CASE TimesAnswered
        BY <4>7, <2>2 DEF TimesAnswered, SendControl, Advance
      <4>8. CASE ControlAnswered
        BY <4>8 DEF ControlAnswered, Advance
      <4>9. CASE SendData
        BY <4>9 DEF SendData, Advance
      <4>10. CASE Acknowledged
        BY <4>10 DEF Acknowledged, Advance
      <4> QED
        BY <3>1, <4>1, <4>2, <4>3, <4>4, <4>5, <4>6, <4>7, <4>8, <4>9, <4>10 DEF Client
    <3>2. ASSUME Server PROVE i' = i
      BY <3>2 DEF Server, Enter, ReadEnd, ReadExit, ReadTimes, ReadGarbage, ReadDirectory,
         ReadFile,
                  ReadData, Truncate, EndMark, NoEndMark, clientVars
    <3>3. ASSUME Drop \/ UNCHANGED vars PROVE i' = i
      BY <3>3 DEF Drop, clientVars, vars
    <3> QED
      BY <3>1, <3>2, <3>3 DEF Next
  <2>4. i = 0 /\ i' = i + 1 => i' = 1
    OBVIOUS
  <2>5. i' = i + 1 => i = 0 \/ i \in 1..Len(List)
    BY <1>1
  <2> QED
    BY <2>3, <2>4, <2>5
<1>3. ASSUME NEW m \in 1..(Len(List) + 1), i' = m, Entered(m) - Left(m) = Len(Walk[m])
      PROVE  Counted'
  <2>1. Depth' = Entered(m) - Left(m)
    <3>1. Len(List) \in Nat /\ DOMAIN List = 1..Len(List)
      BY ListFacts
    <3>2. {k \in 1..(m - 1) : List[k].path \in Dirs} = (1..(m - 1)) \cap {k \in 1..Len(List) : MakesDir(k)}
      BY <3>1 DEF MakesDir
    <3>3. {k \in 1..(m - 1) : List[k] = ExitMark} = (1..(m - 1)) \cap {k \in 1..Len(List) : IsExit(k)}
      BY <3>1 DEF IsExit
    <3> QED
      BY <1>3, <3>2, <3>3 DEF Depth, Entered, Left
  <2> QED
    BY <1>3, <2>1 DEF Counted
<1>4. i > 0 => i \in 1..(Len(List) + 1) /\ Entered(i) - Left(i) = Len(Walk[i])
  <2>1. SUFFICES ASSUME i > 0 PROVE i \in 1..(Len(List) + 1) /\ Entered(i) - Left(i) = Len(Walk[i])
    OBVIOUS
  <2>2. i \in 1..(Len(List) + 1)
    BY <1>1, <2>1
  <2>3. Depth = Len(Walk[i])
    BY <2>1 DEF Counted
  <2> QED
    BY <2>2, <2>3, DepthFacts
<1>5. CASE i' = 1
  <2>1. Entered(1) = 0 /\ Left(1) = 0
    <3>1. \A T : (1..(1 - 1)) \cap T = {}
      OBVIOUS
    <3>2. Cardinality({}) = 0
      BY FS_EmptySet
    <3> QED
      BY <3>1, <3>2 DEF Entered, Left
  <2>2. Len(Walk[1]) = 0
    <3>1. Len(<<>>) = 0
      OBVIOUS
    <3> QED
      BY <1>1, <3>1
  <2>3. 1 \in 1..(Len(List) + 1)
    BY <1>1
  <2>4. Entered(1) - Left(1) = Len(Walk[1])
    BY <2>1, <2>2
  <2> QED
    BY <1>3, <1>5, <2>3, <2>4
<1>6. CASE i' = i
  <2>1. CASE i > 0
    BY <1>3, <1>4, <1>6, <2>1
  <2>2. CASE ~(i > 0)
    BY <1>6, <2>2 DEF Counted
  <2> QED
    BY <2>1, <2>2
<1>7. CASE i' = i + 1 /\ i \in 1..Len(List)
  <2>1. PICK m \in 1..Len(List) : m = i
    BY <1>7
  <2>2. m > 0
    OBVIOUS
  <2>3. Entered(m) - Left(m) = Len(Walk[m])
    BY <1>4, <2>1, <2>2
  <2>4. PICK n : n = m + 1
    OBVIOUS
  <2>5. n \in 1..(Len(List) + 1) /\ i' = n
    BY <1>1, <1>7, <2>1, <2>4
  <2>6. Entered(n) - Left(n) = Len(Walk[n])
    BY <2>3, <2>4, DepthStep
  <2> QED
    BY <1>3, <2>5, <2>6
<1> QED
  BY <1>2, <1>5, <1>6, <1>7

-----------------------------------------------------------------------------
(* The invariant and the theorems.                                         *)

\* A step of nobody.
LEMMA StutterStep ==
  ASSUME Nested, Together, UNCHANGED vars
  PROVE  Together'
<1>1. /\ cpc' = cpc /\ i' = i /\ c2s' = c2s /\ s2c' = s2c /\ up' = up
      /\ UNCHANGED <<serverVars, given>> /\ UNCHANGED given
  BY DEF vars, clientVars
<1>2. /\ spc' = spc /\ stack' = stack /\ file' = file /\ dst' = dst /\ dst0' = dst0 /\ mode' = mode
      /\ (\A d : (Levels(d) => Levels(d)') /\ (Entering(d) => Entering(d)'))
      /\ (\A p : IsDir(p)' = IsDir(p) /\ Delivered(p)' = Delivered(p))
      /\ (\A j : Receiving(j) => Receiving(j)')
      /\ Late' = Late
  BY <1>1, SameServer
<1>3. (\A d : Spot(d)' = Spot(d)) /\ (\A j : Requests(j)' = Requests(j))
  BY <1>1, GivenFacts
<1>4. \A r : Waits(r)' = Waits(r)
  BY <1>1 DEF Waits
<1>5. ASSUME Starting PROVE Starting'
  BY <1>1, <1>2, <1>5 DEF Starting
<1>6. ASSUME Over PROVE Over'
  BY <1>1, <1>2, <1>6 DEF Over, ClientGone
<1>7. ASSUME Gone PROVE Gone'
  BY <1>1, <1>2, <1>7 DEF Gone
<1>8. ASSUME NEW j, Awaited(j) PROVE Awaited(j)'
  BY <1>1, <1>2, <1>8 DEF Awaited, IsFile, MakesDir, IsExit
<1>9. ASSUME NEW j, Idle(j) PROVE Idle(j)'
  BY <1>1, <1>2, <1>8, <1>9 DEF Idle
<1>10. ASSUME NEW j, Requested(j) PROVE Requested(j)'
  BY <1>1, <1>2, <1>3, <1>4, <1>10 DEF Requested
<1>11. ASSUME NEW j, Making(j) PROVE Making(j)'
  BY <1>1, <1>2, <1>3, <1>11 DEF Making, MakesDir
<1>12. ASSUME NEW j, Storing(j) PROVE Storing(j)'
  BY <1>1, <1>2, <1>12 DEF Storing, DataCell, Plain, Record
<1>13. ASSUME NEW j, Closing(j) PROVE Closing(j)'
  BY <1>1, <1>2, <1>3, <1>4, <1>13 DEF Closing, Plain, Record
<1>14. CASE Starting \/ Over \/ Gone
  BY <1>5, <1>6, <1>7, <1>14 DEF Together
<1>15. CASE ~(Starting \/ Over \/ Gone)
  <2>1. Fits /\ \E j \in 1..(Len(List) + 1) : Idle(j) \/ Requested(j) \/ Making(j) \/ Storing(j) \/ Closing(j)
    BY <1>15 DEF Together, Fits
  <2> QED
    BY <1>1, <1>9, <1>10, <1>11, <1>12, <1>13, <2>1, SituationNext
<1> QED
  BY <1>14, <1>15

\* What holds of a copy with independent failures.
Linked == Together /\ DirsClear /\ OwnContent /\ Accounted

\* Every step keeps it.
LEMMA LinkedStep ==
  ASSUME Nested, TypeOK, TypeOK', Placed, Sound, Linked, [Next]_vars
  PROVE  Linked'
<1>1. UNCHANGED given
  BY DEF Next, Client, Expand, Greeted, Finish, SendExit, Exited, SendFile, TimesAnswered,
     ControlAnswered,
         SendData, Acknowledged, Server, Enter, ReadEnd, ReadExit, ReadTimes, ReadGarbage, ReadDirectory,
         ReadFile, ReadData, Truncate, EndMark, NoEndMark, Drop, vars
<1>2. Together /\ DirsClear /\ OwnContent /\ Accounted
  BY DEF Linked
<1>3. CASE Client
  <2>1. UNCHANGED dst
    BY <1>3 DEF Client, Expand, Greeted, Finish, SendExit, Exited, SendFile,
       TimesAnswered, ControlAnswered,
                SendData, Acknowledged, serverVars
  <2>2. DirsClear' /\ OwnContent'
    BY <1>1, <1>2, <2>1, KeptNext
  <2>3. Together' /\ Accounted'
    BY <1>2, <1>3, ClientStep
  <2> QED
    BY <2>2, <2>3 DEF Linked
<1>4. CASE Server
  BY <1>2, <1>4, ServerStep DEF Linked
<1>5. CASE Drop
  <2>1. ~up' /\ UNCHANGED <<serverVars, given>> /\ UNCHANGED dst
    BY <1>5 DEF Drop, serverVars
  <2>2. PICK m \in 0..Len(c2s) : c2s' = SubSeq(c2s, 1, m)
    BY <1>5 DEF Drop
  <2>3. Together'
    BY <1>2, <2>1, <2>2, CutStream
  <2>4. DirsClear' /\ OwnContent'
    BY <1>1, <1>2, <2>1, KeptNext
  <2>5. Accounted'
    BY <2>1 DEF Accounted
  <2> QED
    BY <2>3, <2>4, <2>5 DEF Linked
<1>6. CASE UNCHANGED vars
  <2>1. UNCHANGED dst /\ i' = i /\ told' = told /\ cpc' = cpc /\ up' = up
    BY <1>6 DEF vars, serverVars, clientVars
  <2>2. /\ DirsClear' /\ OwnContent'
        /\ \A k \in FileEntries : Delivered(List[k].path) => Delivered(List[k].path)'
    BY <1>1, <1>2, <2>1, KeptNext
  <2>3. Accounted'
    BY <1>2, <2>1, <2>2 DEF Accounted, FileEntries
  <2>4. Together'
    BY <1>2, <1>6, StutterStep
  <2> QED
    BY <2>2, <2>3, <2>4 DEF Linked
<1> QED
  BY <1>3, <1>4, <1>5, <1>6 DEF Next

\* The invariant is inductive.
LEMMA CopyStep == Nested /\ CopyInv /\ [Next]_vars => CopyInv'
<1> SUFFICES ASSUME Nested, CopyInv, [Next]_vars PROVE CopyInv'
  OBVIOUS
<1>1. TypeOK /\ Placed /\ Counted /\ (Sound => Linked)
  BY DEF CopyInv, Linked
<1>2. TypeOK' /\ Placed'
  BY <1>1, TypesStep
<1>3. Counted'
  BY <1>1, <1>2, CountedStep
<1>4. Sound' => Linked'
  <2>1. UNCHANGED given
    BY DEF Next, Client, Expand, Greeted, Finish, SendExit, Exited, SendFile,
       TimesAnswered, ControlAnswered,
           SendData, Acknowledged, Server, Enter, ReadEnd, ReadExit, ReadTimes, ReadGarbage, ReadDirectory,
           ReadFile, ReadData, Truncate, EndMark, NoEndMark, Drop, vars
  <2>2. Sound' = Sound
    BY <2>1, GivenFacts
  <2>3. Sound => Linked'
    BY <1>1, <1>2, LinkedStep
  <2> QED
    BY <2>2, <2>3
<1> QED
  BY <1>2, <1>3, <1>4 DEF CopyInv, Linked

\* It holds at the start: nothing is sent, and nothing is told.
LEMMA StartingInit == ASSUME Nested, Init PROVE Starting /\ Accounted
<1>1. Starting
  <2>1. Targeted(<<>>)
    <3>1. Spot(<<>>) = <<>> /\ Len(<<>>) + 1 = 1 /\ SubSeq(<<>>, 1, 0) = <<>>
      BY DEF Spot
    <3>2. stack = <<[targ |-> <<>>, isdir |-> FALSE, setimes |-> FALSE]>>
      BY DEF Init
    <3>3. Len(stack) = 1 /\ stack[1].targ = <<>>
      BY <3>2
    <3>4. \A m \in 1..Len(stack) : m = 1 /\ m - 1 = 0
      BY <3>3
    <3> QED
      BY <3>1, <3>3, <3>4 DEF Targeted
  <2>2. Len(stack) = 1
    BY DEF Init
  <2>3. Entering(<<>>)
    <3>1. \A m \in 1..(Len(stack) - 1) : FALSE
      BY <2>2
    <3> QED
      BY <2>1, <3>1 DEF Entering
  <2> QED
    BY <2>3 DEF Starting, Init
<1>2. Accounted
  <2>1. i = 0 /\ cpc = "expand"
    BY DEF Init
  <2>2. \A k \in FileEntries : ~(k < i)
    BY <2>1, ListFacts DEF FileEntries
  <2> QED
    BY <2>1, <2>2 DEF Accounted
<1> QED
  BY <1>1, <1>2

LEMMA CopyInit == Nested /\ Init => CopyInv
<1> SUFFICES ASSUME Nested, Init PROVE CopyInv
  OBVIOUS
<1>1. TypeOK /\ Placed
  BY TypesInit
<1>2. Counted
  BY DEF Init, Counted
<1>3. Starting /\ Accounted
  BY StartingInit
<1>4. ASSUME Sound PROVE DirsClear
  <2>1. dst = dst0 /\ dst0 \in Targets /\ \A p \in DOMAIN dst0 : dst0[p].kind \in {"dir", "file"}
    BY PcpAssumption DEF Init, Nodes
  <2>2. WasDir => IsDir(<<>>)
    BY <2>1 DEF WasDir, IsDir
  <2>3. ASSUME NEW d \in Dirs, Site(d) \in DOMAIN dst \ {<<>>}
        PROVE  IsDir(Site(d))
    <3>1. ~InTheWay(d)
      BY <1>4 DEF Sound
    <3> QED
      BY <2>1, <2>3, <3>1 DEF InTheWay, IsDir
  <2> QED
    BY <2>2, <2>3 DEF DirsClear
<1>5. OwnContent
  BY DEF Init, OwnContent
<1> QED
  BY <1>1, <1>2, <1>3, <1>4, <1>5 DEF CopyInv, Together

\* The inductive invariant: in every reachable state the server is in one of the
\* situations of Together, with what the client then waits for.
THEOREM CopyInvariant ==
  ASSUME Nested
  PROVE  Spec => []CopyInv
<1>1. Init => CopyInv
  BY CopyInit
<1>2. CopyInv /\ [Next]_vars => CopyInv'
  BY CopyStep
<1> QED
  BY <1>1, <1>2, PTL DEF Spec

\* A path holds only what it held before and what was sent for it: with independent
\* failures no byte of one file lands in another (pcp_server.c:257-260, 405-427).
THEOREM ContentOwned ==
  ASSUME Nested
  PROVE  Spec => []OwnContent
<1>1. CopyInv => OwnContent
  BY DEF CopyInv, OwnContent
<1> QED
  BY <1>1, CopyInvariant, PTL

\* With independent failures each file is stored as it is, or the client printed an error
\* for this very file (pcp_server.c:372-457, pcp_client.c:387).
THEOREM FilesAccounted ==
  ASSUME Nested
  PROVE  Spec => []DeliveredOrReported
<1>1. CopyInv => DeliveredOrReported
  <2> SUFFICES ASSUME CopyInv, Settled, up, Sound, NEW k \in FileEntries
               PROVE  Delivered(List[k].path) \/ told \cap {0, k} # {}
    BY DEF DeliveredOrReported
  <2>1. Accounted /\ cpc \in {"done", "died"}
    BY DEF CopyInv, Settled
  <2>2. CASE 0 \in told
    BY <2>2
  <2>3. CASE i = Len(List) + 1
    <3>1. k < i
      BY <2>3, ListFacts DEF FileEntries
    <3> QED
      BY <2>1, <3>1 DEF Accounted
  <2> QED
    BY <2>1, <2>2, <2>3 DEF Accounted
<1> QED
  BY <1>1, CopyInvariant, PTL

\* With independent failures one answer belongs to each request, the server finds a
\* record where it looks for one and data where it looks for data, and _sink is as deep
\* as the client believes (pcp_client.c:128-132).
THEOREM SidesInStep ==
  ASSUME Nested
  PROVE  Spec => []InStep
<1>1. CopyInv => InStep
  <2> SUFFICES ASSUME CopyInv PROVE InStep
    OBVIOUS
  <2>1. TypeOK /\ Placed /\ Counted
    BY DEF CopyInv
  <2>2. ASSUME Sound
        PROVE  /\ cpc = "next" /\ up => s2c = <<>>
               /\ spc = "read" /\ c2s # <<>> => Head(c2s).kind \in Controls
               /\ spc = "data" /\ file.got < file.size /\ c2s # <<>> => Head(c2s).kind = "data"
               /\ cpc = "next" /\ up /\ ~ServerGone => Len(stack) = Depth + 1
    <3>1. Together
      BY <2>2 DEF CopyInv
    <3>2. cpc = "next" /\ up => s2c = <<>>
      BY <2>1, <3>1, UpSituation
    <3>3. spc = "read" /\ c2s # <<>> => Head(c2s).kind \in Controls
      BY <2>1, <3>1, ReadSituation
    <3>4. ASSUME spc = "data", file.got < file.size, c2s # <<>>
          PROVE  Head(c2s).kind = "data"
      <4>1. PICK j \in 1..(Len(List) + 1) : Storing(j)
        BY <3>1, <3>4, ServerSituation
      <4>2. file.got \in Nat /\ file.size \in Nat /\ c2s \in Seq(Cells)
        BY <2>1 DEF TypeOK
      <4>3. Len(c2s) \in Nat /\ Len(c2s) >= 1 /\ Head(c2s) = c2s[1]
        BY <3>4, <4>2
      <4>4. 1 \in 1..Len(c2s) /\ 1 <= file.size - file.got
        BY <3>4, <4>2, <4>3
      <4>5. c2s[1] = DataCell(List[j].path, file.got + 1)
        BY <4>1, <4>4 DEF Storing
      <4> QED
        BY <4>3, <4>5 DEF DataCell, Record
    <3>5. ASSUME cpc = "next", up, ~ServerGone
          PROVE  Len(stack) = Depth + 1
      <4>1. Depth = Len(Walk[i])
        BY <2>1, <3>5 DEF Placed, Counted
      <4>2. Idle(i) \/ \E j \in 1..Len(List) : Behind(j, i)
        BY <2>1, <3>1, <3>5, UpSituation
      <4>3. Levels(Walk[i])
        BY <4>2 DEF Idle, Behind, Closing, Receiving
      <4> QED
        BY <4>1, <4>3 DEF Levels, Targeted
    <3> QED
      BY <3>2, <3>3, <3>4, <3>5
  <2> QED
    BY <2>1, <2>2 DEF InStep
<1> QED
  BY <1>1, CopyInvariant, PTL

-----------------------------------------------------------------------------
(* Silence.                                                                *)

\* More answers.
LEMMA AnswersAppended ==
  ASSUME NEW R, NEW s \in Seq(R), NEW t \in Seq(R)
  PROVE  /\ s \o t \in Seq(R) /\ Len(s \o t) >= Len(s)
         /\ \A k \in 1..Len(s) : (s \o t)[k] = s[k]
<1>1. /\ s \o t \in Seq(R) /\ Len(s \o t) = Len(s) + Len(t)
      /\ \A k \in 1..(Len(s) + Len(t)) : (s \o t)[k] = IF k <= Len(s) THEN s[k] ELSE t[k - Len(s)]
  BY ConcatProperties
<1>2. Len(s) \in Nat /\ Len(t) \in Nat
  OBVIOUS
<1> QED
  BY <1>1, <1>2

\* The server only ever adds to its answers.
LEMMA ServerAnswers ==
  ASSUME TypeOK, up, Server
  PROVE  \E a \in Seq({"ok", "err"}) : s2c' = s2c \o a
<1>1. /\ <<>> \in Seq({"ok", "err"}) /\ <<"ok">> \in Seq({"ok", "err"}) /\ <<"err">> \in Seq({"ok", "err"})
      /\ <<"ok", "err">> \in Seq({"ok", "err"}) /\ <<"err", "err">> \in Seq({"ok", "err"})
      /\ "ok" \in {"ok", "err"} /\ "err" \in {"ok", "err"}
  OBVIOUS
<1>2. /\ <<"err">> \o <<"err">> = <<"err", "err">> /\ <<"ok">> \o <<"err">> = <<"ok", "err">>
      /\ <<>> \o <<"err">> = <<"err">>
  BY <1>1, PairFacts, ConcatEmptySeq
<1>3. s2c \in Seq({"ok", "err"}) /\ s2c \o <<>> = s2c
  BY ConcatEmptySeq DEF TypeOK
<1>4. \A a \in Seq({"ok", "err"}) : Answer(a) => \E b \in Seq({"ok", "err"}) : s2c' = s2c \o b
  BY DEF Answer
<1>5. s2c' = s2c => \E b \in Seq({"ok", "err"}) : s2c' = s2c \o b
  BY <1>1, <1>3
<1>6. ASSUME NEW a \in {<<>>, <<"ok">>, <<"err">>}, Return(a)
      PROVE  \E b \in Seq({"ok", "err"}) : s2c' = s2c \o b
  <2>1. a \in Seq({"ok", "err"}) /\ a \o <<"err">> \in Seq({"ok", "err"})
    BY <1>1, <1>2
  <2> QED
    BY <1>4, <1>6, <2>1, ReturnAnswers
<1>7. \A a \in {"ok", "err"} : Respond(a) => \E b \in Seq({"ok", "err"}) : s2c' = s2c \o b
  BY <1>1, <1>4 DEF Respond
<1>8. CASE Enter
  BY <1>1, <1>6, <1>7, <1>8 DEF Enter
<1>9. CASE ReadEnd \/ ReadExit \/ ReadGarbage \/ NoEndMark
  BY <1>6, <1>9 DEF ReadEnd, ReadExit, ReadGarbage, NoEndMark
<1>10. CASE ReadTimes
  BY <1>1, <1>7, <1>10 DEF ReadTimes
<1>11. CASE ReadDirectory
  BY <1>1, <1>5, <1>7, <1>11 DEF ReadDirectory, Refuse
<1>12. CASE ReadFile
  BY <1>1, <1>4, <1>7, <1>12 DEF ReadFile, Refuse
<1>13. CASE ReadData
  BY <1>5, <1>6, <1>13 DEF ReadData
<1>14. CASE Truncate
  BY <1>1, <1>5, <1>7, <1>14 DEF Truncate
<1>15. CASE EndMark
  <2>1. file.wrerr \in {"no", "yes", "displayed"}
    BY DEF TypeOK, Wrerr
  <2> QED
    BY <1>1, <1>4, <1>7, <1>15, <2>1 DEF EndMark
<1> QED
  BY <1>8, <1>9, <1>10, <1>11, <1>12, <1>13, <1>14, <1>15 DEF Server

\* An error under way stays under way whatever the server does,
LEMMA DoomedServer ==
  ASSUME TypeOK, up, Doomed, Server
  PROVE  Doomed'
<1>1. cpc' = cpc /\ i' = i
  BY DEF Server, Enter, ReadEnd, ReadExit, ReadTimes, ReadGarbage, ReadDirectory, ReadFile,
         ReadData, Truncate, EndMark, NoEndMark, clientVars
<1>2. PICK a \in Seq({"ok", "err"}) : s2c' = s2c \o a
  BY ServerAnswers
<1>3. s2c \in Seq({"ok", "err"}) /\ Len(s2c) \in Nat
  BY DEF TypeOK
<1>4. PICK t : t = s2c'
  OBVIOUS
<1>5. t \in Seq({"ok", "err"}) /\ Len(t) >= Len(s2c) /\ Len(t) \in Nat /\ \A k \in 1..Len(s2c) : t[k] = s2c[k]
  <2>1. t = s2c \o a
    BY <1>2, <1>4
  <2>2. t \in Seq({"ok", "err"}) /\ Len(t) >= Len(s2c) /\ \A k \in 1..Len(s2c) : t[k] = s2c[k]
    BY <1>3, <2>1, AnswersAppended
  <2> QED
    BY <2>2
<1>6. CASE s2c # <<>> /\ Head(s2c) = "err" /\ cpc \in Waiting
  <2>1. Len(s2c) >= 1 /\ s2c[1] = "err"
    BY <1>3, <1>6
  <2>2. Len(t) >= 1 /\ t[1] = "err"
    BY <1>3, <1>5, <2>1
  <2>3. t # <<>> /\ Head(t) = "err"
    BY <1>5, <2>2
  <2> QED
    BY <1>1, <1>4, <1>6, <2>3 DEF Doomed
<1>7. CASE cpc = "control" /\ IsFile(i) /\ Len(s2c) >= 2 /\ s2c[1] = "ok" /\ s2c[2] = "err"
  <2>1. Len(t) >= 2 /\ t[1] = "ok" /\ t[2] = "err"
    BY <1>3, <1>7, <1>5
  <2> QED
    BY <1>1, <1>4, <1>7, <2>1 DEF Doomed, IsFile
<1> QED
  BY <1>6, <1>7 DEF Doomed

\* and the client prints it when it gets there.
LEMMA DoomedClient ==
  ASSUME TypeOK, up, Doomed, Client
  PROVE  told' # {} \/ Doomed'
<1>1. s2c \in Seq({"ok", "err"}) /\ Len(s2c) \in Nat
  BY DEF TypeOK
<1>2. CASE s2c # <<>> /\ Head(s2c) = "err" /\ cpc \in Waiting
  <2>1. ~ResponseOk /\ (ResponseFails => told' # {})
    BY <1>2 DEF ResponseOk, ResponseFails
  <2>2. CASE Expand
    BY <1>2, <2>2 DEF Expand, Doomed, Waiting
  <2>3. CASE Greeted \/ TimesAnswered \/ ControlAnswered \/ Acknowledged
    BY <2>1, <2>3 DEF Greeted, TimesAnswered, ControlAnswered, Acknowledged
  <2>4. CASE Finish \/ SendExit \/ SendFile
    BY <1>2, <2>4 DEF Finish, SendExit, SendFile, Waiting
  <2>5. CASE Exited
    BY <2>1, <2>5 DEF Exited
  <2>6. CASE SendData
    <3>1. s2c' = s2c /\ (told' = told \cup {i} \/ cpc' = "ack")
      BY <2>6 DEF SendData
    <3> QED
      BY <1>2, <3>1 DEF Doomed, Waiting
  <2> QED
    BY <2>2, <2>3, <2>4, <2>5, <2>6 DEF Client
<1>3. CASE cpc = "control" /\ IsFile(i) /\ Len(s2c) >= 2 /\ s2c[1] = "ok" /\ s2c[2] = "err"
  <2>1. s2c # <<>> /\ Head(s2c) = "ok" /\ Tail(s2c) # <<>> /\ Head(Tail(s2c)) = "err"
    <3>1. PICK v : v = Tail(s2c)
      OBVIOUS
    <3>2. s2c # <<>> /\ Head(s2c) = "ok"
      BY <1>1, <1>3
    <3>3. v \in Seq({"ok", "err"}) /\ Len(v) = Len(s2c) - 1
      BY <1>1, <3>1, <3>2
    <3>4. Len(v) >= 1 /\ v[1] = s2c[2]
      BY <1>1, <1>3, <3>1, <3>2, <3>3
    <3>5. v # <<>> /\ Head(v) = "err"
      BY <1>3, <3>3, <3>4
    <3> QED
      BY <3>1, <3>2, <3>5
  <2>2. ControlAnswered
    BY <1>3 DEF Client, Expand, Greeted, Finish, SendExit, Exited, SendFile, TimesAnswered,
                SendData, Acknowledged
  <2>3. ResponseOk /\ List[i].path \notin Dirs
    <3>1. Dirs \cap Files = {}
      BY PcpAssumption
    <3> QED
      BY <1>3, <2>1, <2>2, <3>1 DEF ControlAnswered, ResponseFails, IsFile
  <2>4. cpc' = "open" /\ s2c' = Tail(s2c)
    <3>1. ~ResponseFails
      BY <2>1 DEF ResponseFails
    <3> QED
      BY <2>2, <2>3, <3>1 DEF ControlAnswered, ResponseOk
  <2> QED
    BY <2>1, <2>4 DEF Doomed, Waiting
<1> QED
  BY <1>2, <1>3 DEF Doomed

\* A client that waits in vain waits on, or the server answers with an error.
LEMMA StuckStep ==
  ASSUME TypeOK, up, Stuck, Client \/ Server
  PROVE  Stuck' \/ Doomed'
<1>1. /\ cpc = "ack" /\ s2c = <<>> /\ spc \in {"data", "response"}
      /\ Len(c2s) <= Owed \/ c2s[Owed + 1].kind # "nul"
  BY DEF Stuck
<1>2. ~ServerGone /\ ~ClientGone
  BY <1>1 DEF ServerGone, ClientGone
<1>3. Server
  <2>1. ~ResponseOk /\ ~ResponseFails
    BY <1>1, <1>2 DEF ResponseOk, ResponseFails
  <2>2. ~Client
    BY <1>1, <2>1 DEF Client, Expand, Greeted, Finish, SendExit, Exited, SendFile, TimesAnswered,
                      ControlAnswered, SendData, Acknowledged
  <2> QED
    BY <2>2
<1>4. /\ c2s \in Seq(Cells) /\ Len(c2s) \in Nat /\ file.size \in Nat /\ file.got \in Nat /\ file.got <= file.size
      /\ file \in [path : Seq(Pieces), size : Nat, got : Nat, wrerr : Wrerr]
  BY DEF TypeOK
<1>5. ReadData \/ Truncate \/ EndMark \/ NoEndMark
  BY <1>1, <1>3 DEF Server, Enter, ReadEnd, ReadExit, ReadTimes, ReadGarbage, ReadDirectory, ReadFile, Reads
<1>6. cpc' = "ack"
  BY <1>1, <1>5 DEF ReadData, Truncate, EndMark, NoEndMark, clientVars
<1>7. CASE ReadData
  <2>1. /\ spc = "data" /\ file.got < file.size /\ c2s # <<>> /\ c2s' = Tail(c2s)
        /\ UNCHANGED <<s2c, spc, stack>>
        /\ file' = [file EXCEPT !.got = @ + 1] \/ file' = [file EXCEPT !.got = @ + 1, !.wrerr = "yes"]
    BY <1>2, <1>7 DEF ReadData
  <2>2. file'.size = file.size /\ file'.got = file.got + 1
    BY <1>4, <2>1
  <2>3. Owed \in Nat /\ Owed >= 1 /\ Owed' = Owed - 1
    BY <1>4, <2>1, <2>2 DEF Owed
  <2>4. PICK t \in Seq(Cells) : t = c2s' /\ Len(t) = Len(c2s) - 1 /\ \A k \in 1..(Len(c2s) - 1) : t[k] = c2s[k + 1]
    BY <1>4, <2>1, RestFacts
  <2>5. Len(t) <= Owed' \/ t[Owed' + 1].kind # "nul"
    <3>1. CASE Len(c2s) <= Owed
      BY <1>4, <2>3, <2>4, <3>1
    <3>2. CASE ~(Len(c2s) <= Owed)
      <4>1. PICK m : m = Owed
        OBVIOUS
      <4>2. m \in 1..(Len(c2s) - 1) /\ Owed' + 1 = m
        BY <1>4, <2>3, <3>2, <4>1
      <4>3. c2s[m + 1].kind # "nul"
        BY <1>1, <3>2, <4>1
      <4> QED
        BY <2>4, <4>2, <4>3
    <3> QED
      BY <3>1, <3>2
  <2> QED
    BY <1>1, <1>6, <2>1, <2>4, <2>5 DEF Stuck
<1>8. CASE Truncate
  <2>1. Owed = 0 /\ spc' = "response" /\ c2s' = c2s
    BY <1>4, <1>8 DEF Truncate, Owed
  <2>2. Owed' = 0
    BY <2>1 DEF Owed
  <2>3. CASE s2c' = s2c
    BY <1>1, <1>6, <2>1, <2>2, <2>3 DEF Stuck
  <2>4. CASE Respond("err")
    <3>1. s2c' = <<"err">>
      BY <1>1, <2>4, AnswerCases
    <3> QED
      BY <1>6, <3>1 DEF Doomed, Waiting
  <2> QED
    BY <1>8, <2>3, <2>4 DEF Truncate
<1>9. CASE EndMark
  <2>1. spc = "response" /\ c2s # <<>> /\ Head(c2s).kind = "nul"
    BY <1>9 DEF EndMark
  <2>2. Owed = 0 /\ Len(c2s) >= 1 /\ Head(c2s) = c2s[1]
    BY <1>4, <2>1 DEF Owed
  <2> QED
    BY <1>1, <1>4, <2>1, <2>2
<1>10. CASE NoEndMark
  <2>1. s2c' # <<>> /\ Head(s2c') = "err"
    BY <1>1, <1>10, ReturnsError DEF NoEndMark
  <2> QED
    BY <1>6, <2>1 DEF Doomed, Waiting
<1> QED
  BY <1>5, <1>7, <1>8, <1>9, <1>10

\* A file that could not be sent was printed; one sent longer or shorter than announced
\* leaves the client waiting.
LEMMA SentOtherwise ==
  ASSUME Nested, TypeOK, Placed, Together, up, SendData, ~SendsWhole
  PROVE  told' # {} \/ Stuck' \/ Doomed'
<1>1. cpc = "open" /\ s2c' = s2c /\ spc' = spc /\ file' = file
  BY DEF SendData, serverVars
<1>2. ~ServerGone
  BY <1>1, UpSituation
<1>3. i \in 1..Len(List) /\ ~IsExit(i) /\ IsFile(i)
  BY <1>1, ListFacts DEF Placed, IsExit
<1>4. PICK p : p = List[i].path
  OBVIOUS
<1>5. PICK n : n = Size[p]
  OBVIOUS
<1>6. p \in Files /\ p \in Paths /\ n \in Nat
  <2>1. p \in Files /\ p \in Paths
    BY <1>3, <1>4, EntryFacts
  <2> QED
    BY <1>5, <2>1, PcpAssumption
<1>7. CASE told' = told \cup {i}
  BY <1>7
<1>8. CASE told' # told \cup {i}
  <2>1. /\ i' = i /\ told' = told /\ cpc' = "ack"
        /\ \E m \in Lengths(n) :
             c2s' = c2s \o [k \in 1..m |-> DataCell(p, k)] \o <<Plain("nul")>>
    BY <1>2, <1>4, <1>5, <1>8 DEF SendData, Data
  <2>2. PICK m \in Lengths(n) : c2s' = c2s \o [k \in 1..m |-> DataCell(p, k)] \o <<Plain("nul")>>
    BY <2>1
  <2>3. m \in Nat
    BY <1>6 DEF Lengths
  <2>4. m # n
    BY <1>4, <1>5, <2>1, <2>2 DEF SendsWhole
  <2>5. PICK cells : cells = [k \in 1..m |-> DataCell(p, k)]
    OBVIOUS
  <2>6. cells \in Seq(Cells) /\ Len(cells) = m /\ \A k \in 1..m : cells[k] = DataCell(p, k)
    BY <1>6, <2>3, <2>5, CellFacts
  <2>7. PICK t : t = <<Plain("nul")>>
    OBVIOUS
  <2>8. t \in Seq(Cells) /\ Len(t) = 1
    BY <2>7, CellFacts
  <2>9. PICK u : u = cells \o t
    OBVIOUS
  <2>10. Len(u) = m + 1 /\ \A k \in 1..m : u[k] = DataCell(p, k)
    <3>1. /\ Len(cells \o t) = Len(cells) + Len(t)
          /\ \A k \in 1..(Len(cells) + Len(t)) :
               (cells \o t)[k] = IF k <= Len(cells) THEN cells[k] ELSE t[k - Len(cells)]
      BY <2>6, <2>8, ConcatProperties
    <3>2. \A k \in 1..m : k \in 1..(m + 1) /\ k <= m
      BY <2>3
    <3> QED
      BY <2>6, <2>8, <2>9, <3>1, <3>2
  <2>11. c2s = <<>> => c2s' = u
    <3>1. <<>> \o cells = cells
      BY <2>6, ConcatEmptySeq
    <3> QED
      BY <2>2, <2>5, <2>7, <2>9, <3>1
  <2>12. Len(u) <= n \/ u[n + 1].kind # "nul"
    <3>1. CASE m < n
      BY <1>6, <2>3, <2>10, <3>1
    <3>2. CASE ~(m < n)
      <4>1. n + 1 \in 1..m
        BY <1>6, <2>3, <2>4, <3>2
      <4>2. u[n + 1] = DataCell(p, n + 1)
        BY <2>10, <4>1
      <4> QED
        BY <4>2 DEF DataCell, Record
    <3> QED
      BY <3>1, <3>2
  <2>13. CASE s2c = <<>> /\ Storing(i) /\ file.got = 0 /\ c2s = <<>>
    <3>1. spc = "data" /\ file.size = n
      BY <1>4, <1>5, <2>13 DEF Storing, Receiving
    <3>2. Owed' = n
      BY <1>1, <1>6, <2>13, <3>1 DEF Owed
    <3> QED
      BY <1>1, <2>1, <2>11, <2>12, <2>13, <3>1, <3>2 DEF Stuck
  <2>14. CASE s2c = Late /\ Closing(i) /\ file.size = 0 /\ c2s = <<>>
    <3>1. spc = "response" /\ n = 0
      BY <1>4, <1>5, <2>14 DEF Closing, Receiving
    <3>2. Owed' = n
      BY <1>1, <3>1 DEF Owed
    <3>3. CASE s2c = <<>>
      BY <1>1, <2>1, <2>11, <2>12, <2>14, <3>1, <3>2, <3>3 DEF Stuck
    <3>4. CASE s2c # <<>>
      <4>1. s2c' = <<"err">>
        BY <1>1, <2>14, <3>4 DEF Late
      <4>2. s2c' # <<>> /\ Head(s2c') = "err"
        BY <4>1
      <4> QED
        BY <2>1, <4>2 DEF Doomed, Waiting
    <3> QED
      BY <3>3, <3>4
  <2> QED
    BY <1>1, <2>13, <2>14, UpSituation
<1> QED
  BY <1>7, <1>8

\* The client passes over an answer too many only to take it for the next one.
LEMMA ExtraStep ==
  ASSUME Nested, TypeOK, Placed, up, Accounted, Extra, Client \/ Server
  PROVE  told' # {} \/ Doomed' \/ (Accounted' /\ (Together' \/ Extra'))
<1>1. spc = "read" /\ c2s = <<>> /\ (WasDir \/ Len(List) <= 1)
  BY DEF Extra
<1>2. PICK j \in 1..(Len(List) + 1) :
        /\ Levels(Walk[j])
        /\ \/ i = j - 1 /\ cpc = "exit" /\ s2c = <<"ok", "err">> /\ IsExit(i)
           \/ i = j /\ cpc = "next" /\ s2c = <<"err">>
  BY DEF Extra
<1>3. ~ServerGone /\ ~ClientGone
  BY <1>1, <1>2 DEF ServerGone, ClientGone
<1>4. Client
  BY <1>1, <1>3 DEF Server, Enter, ReadEnd, ReadExit, ReadTimes, ReadGarbage, ReadDirectory, ReadFile,
                    ReadData, Truncate, EndMark, NoEndMark, Reads
<1>5. /\ UNCHANGED <<up, serverVars, given>> /\ UNCHANGED given /\ spc' = spc /\ dst' = dst
      /\ (WasDir \/ Len(List) <= 1)' /\ (Levels(Walk[j]) => Levels(Walk[j])')
  <2>1. UNCHANGED <<up, serverVars, given>>
    BY <1>4 DEF Client, Expand, Greeted, Finish, SendExit, Exited, SendFile, TimesAnswered,
                ControlAnswered, SendData, Acknowledged
  <2>2. UNCHANGED given
    BY <2>1 DEF given
  <2> QED
    BY <1>1, <2>1, <2>2, SameServer, GivenFacts
<1>6. CASE i = j - 1 /\ cpc = "exit" /\ s2c = <<"ok", "err">> /\ IsExit(i)
  <2>1. PICK two : two = <<"ok", "err">>
    OBVIOUS
  <2>2. two # <<>> /\ Head(two) = "ok" /\ Tail(two) = <<"err">>
    BY <2>1
  <2>3. Exited
    BY <1>4, <1>6 DEF Client, Expand, Greeted, Finish, SendExit, SendFile, TimesAnswered,
                      ControlAnswered, SendData, Acknowledged
  <2>4. s2c' = <<"err">> /\ told' = told /\ cpc' = "next" /\ i' = i + 1 /\ c2s' = c2s
    BY <1>6, <2>1, <2>2, <2>3 DEF Exited, ResponseOk, Advance
  <2>5. i' = j
    BY <1>6, <2>4
  <2>6. Extra'
    BY <1>1, <1>2, <1>5, <2>4, <2>5 DEF Extra
  <2>7. ~IsFile(i)
    <3>1. Paths \subseteq Seq(Names) \ {<<>>} /\ Paths = Dirs \cup Files
      BY ListFacts
    <3> QED
      BY <1>6, <3>1 DEF IsFile, IsExit, ExitMark
  <2>8. Accounted'
    BY <1>5, <2>4, <2>7, AccountedNext
  <2> QED
    BY <2>6, <2>8
<1>7. CASE i = j /\ cpc = "next" /\ s2c = <<"err">>
  <2>1. s2c # <<>> /\ Head(s2c) = "err"
    BY <1>7
  <2>2. Finish \/ SendExit \/ SendFile
    BY <1>4, <1>7 DEF Client, Expand, Greeted, Exited, TimesAnswered, ControlAnswered, SendData, Acknowledged
  <2>3. s2c' = s2c
    BY <2>2 DEF Finish, SendExit, SendFile
  <2>4. CASE Finish
    <3>1. cpc' = "done" /\ i > Len(List) /\ i' = i /\ told' = told /\ c2s' = c2s
      BY <2>4 DEF Finish
    <3>2. i = Len(List) + 1
      <4>1. Len(List) \in Nat
        BY ListFacts
      <4> QED
        BY <1>7, <3>1, <4>1
    <3>3. Over'
      BY <1>1, <1>5, <3>1 DEF Over, ClientGone
    <3>4. Accounted'
      BY <1>5, <3>1, <3>2, AccountedNext
    <3> QED
      BY <3>3, <3>4 DEF Together
  <2>5. CASE SendExit
    <3>1. cpc' = "exit"
      BY <1>3, <2>5 DEF SendExit
    <3> QED
      BY <2>1, <2>3, <3>1 DEF Doomed, Waiting
  <2>6. CASE SendFile
    <3>1. cpc' = "times" \/ cpc' = "control" \/ told' = told \cup {i}
      BY <1>3, <2>6 DEF SendFile, Send, SendControl
    <3> QED
      BY <2>1, <2>3, <3>1 DEF Doomed, Waiting
  <2> QED
    BY <2>2, <2>4, <2>5, <2>6
<1> QED
  BY <1>2, <1>6, <1>7

\* Every step keeps a silent copy in one of its situations.
LEMMA SilentStep ==
  ASSUME Nested, TypeOK, TypeOK', Placed, Silent, [Next]_vars
  PROVE  Silent'
<1> SUFFICES ASSUME up', told' = {}
             PROVE  Doomed' \/ Stuck' \/ (Accounted' /\ (Together' \/ Extra'))
  BY DEF Silent
<1>1. CASE Client \/ Server
  <2>1. up' = up /\ told \subseteq told' /\ UNCHANGED given
    <3>1. CASE Client
      <4>1. up' = up /\ UNCHANGED given
        BY <3>1 DEF Client, Expand, Greeted, Finish, SendExit, Exited, SendFile, TimesAnswered,
                    ControlAnswered, SendData, Acknowledged, given
      <4>2. CASE Greeted \/ TimesAnswered \/ ControlAnswered \/ Acknowledged
        BY <4>2 DEF Greeted, TimesAnswered, ControlAnswered, Acknowledged, ResponseOk, ResponseFails
      <4>3. CASE Expand \/ Finish \/ SendExit \/ SendFile \/ SendData
        BY <4>3 DEF Expand, Finish, SendExit, SendFile, SendData
      <4>4. CASE Exited
        BY <4>4 DEF Exited, ResponseOk
      <4> QED
        BY <3>1, <4>1, <4>2, <4>3, <4>4 DEF Client
    <3>2. CASE Server
      BY <3>2 DEF Server, Enter, ReadEnd, ReadExit, ReadTimes, ReadGarbage, ReadDirectory, ReadFile,
                  ReadData, Truncate, EndMark, NoEndMark, clientVars
    <3> QED
      BY <1>1, <3>1, <3>2
  <2>2. up /\ told = {}
    BY <2>1
  <2>3. CASE Doomed
    BY <1>1, <2>2, <2>3, DoomedServer, DoomedClient
  <2>4. CASE Stuck
    BY <1>1, <2>2, <2>4, StuckStep
  <2>5. CASE Accounted /\ Extra
    BY <1>1, <2>2, <2>5, ExtraStep
  <2>6. CASE Accounted /\ Together /\ Client
    <3>1. CASE SendData /\ ~SendsWhole
      BY <2>2, <2>6, <3>1, SentOtherwise
    <3>2. CASE ~(SendData /\ ~SendsWhole)
      BY <2>2, <2>6, <3>2, ClientGreets, ClientNext, ClientHearsFirst, ClientHearsControl, ClientHearsData,
         ClientSendsData DEF Client
    <3> QED
      BY <3>1, <3>2
  <2>7. CASE Accounted /\ Together /\ Server
    <3>1. /\ i' = i /\ told' = told /\ cpc' = cpc
      BY <2>7 DEF Server, Enter, ReadEnd, ReadExit, ReadTimes, ReadGarbage, ReadDirectory, ReadFile,
                  ReadData, Truncate, EndMark, NoEndMark, clientVars
    <3>2. Changes => Accounted'
      <4>1. Changes => \A k \in FileEntries : Delivered(List[k].path) => Delivered(List[k].path)'
        BY <2>1, ChangesNext
      <4> QED
        BY <2>1, <2>7, <3>1, <4>1 DEF Accounted, FileEntries
    <3>3. (Together' /\ Changes) \/ Doomed' \/ (Extra' /\ UNCHANGED dst)
      BY <2>2, <2>7, ServerMoves DEF Strays
    <3>4. UNCHANGED dst => Changes
      BY DEF Changes
    <3> QED
      BY <3>2, <3>3, <3>4
  <2> QED
    BY <1>1, <2>2, <2>3, <2>4, <2>5, <2>6, <2>7 DEF Silent
<1>2. CASE Drop
  BY <1>2 DEF Drop
<1>3. CASE UNCHANGED vars
  <2>1. /\ cpc' = cpc /\ i' = i /\ told' = told /\ c2s' = c2s /\ s2c' = s2c /\ up' = up
        /\ UNCHANGED <<serverVars, given>> /\ UNCHANGED given /\ UNCHANGED dst
    BY <1>3 DEF vars, clientVars, serverVars
  <2>2. spc' = spc /\ file' = file /\ (\A d : Levels(d) => Levels(d)')
    BY <2>1, SameServer
  <2>3. Doomed => Doomed'
    BY <2>1 DEF Doomed, IsFile
  <2>4. Stuck => Stuck'
    BY <2>1, <2>2 DEF Stuck, Owed
  <2>5. Extra => Extra'
    <3>1. (WasDir \/ Len(List) <= 1) => (WasDir \/ Len(List) <= 1)'
      BY <2>1, GivenFacts
    <3> QED
      BY <2>1, <2>2, <3>1 DEF Extra, IsExit
  <2>6. Together => Together'
    BY <1>3, StutterStep
  <2>7. Accounted => Accounted'
    <3>1. \A k \in FileEntries : Delivered(List[k].path) => Delivered(List[k].path)'
      BY <2>1, KeptNext
    <3> QED
      BY <2>1, <3>1 DEF Accounted, FileEntries
  <2> QED
    BY <2>1, <2>3, <2>4, <2>5, <2>6, <2>7 DEF Silent
<1> QED
  BY <1>1, <1>2, <1>3 DEF Next

-----------------------------------------------------------------------------
(* The depth of the recursion.                                             *)

\* The D records in a stream.
Dees(s) == {k \in DOMAIN s : s[k].kind = "D"}

\* They can be counted; one more cell is at most one more.
LEMMA DeesFinite ==
  ASSUME NEW s \in Seq(Cells)
  PROVE  IsFiniteSet(Dees(s)) /\ Cardinality(Dees(s)) \in Nat
<1>1. Dees(s) \in SUBSET (1..Len(s)) /\ IsFiniteSet(1..Len(s))
  <2>1. Len(s) \in Nat /\ DOMAIN s = 1..Len(s)
    OBVIOUS
  <2> QED
    BY <2>1, FS_Interval DEF Dees
<1>2. IsFiniteSet(Dees(s))
  BY <1>1, FS_Subset
<1> QED
  BY <1>2, FS_CardinalityType

\* A stream whose D records are among those of another, m places further on, has no more
\* of them, and fewer when the first of the other is left out.
LEMMA DeesFewer ==
  ASSUME NEW s \in Seq(Cells), NEW u \in Seq(Cells), NEW m \in Nat,
         \A k \in Dees(u) : k + m \in Dees(s)
  PROVE  /\ Cardinality(Dees(u)) <= Cardinality(Dees(s))
         /\ m > 0 /\ 1 \in Dees(s) => Cardinality(Dees(u)) + 1 <= Cardinality(Dees(s))
<1>1. /\ IsFiniteSet(Dees(s)) /\ IsFiniteSet(Dees(u))
      /\ Cardinality(Dees(s)) \in Nat /\ Cardinality(Dees(u)) \in Nat
  BY DeesFinite
<1>2. \A k \in Dees(u) : k \in Nat /\ k >= 1
  BY DEF Dees
<1>3. ASSUME NEW T, T \subseteq Dees(s), \A k \in Dees(u) : k + m \in T
      PROVE  Cardinality(Dees(u)) <= Cardinality(T) /\ IsFiniteSet(T)
  <2>1. PICK f : f = [k \in Dees(u) |-> k + m]
    OBVIOUS
  <2>2. f \in [Dees(u) -> T] /\ \A j, k \in Dees(u) : f[j] = f[k] => j = k
    BY <1>2, <1>3, <2>1
  <2>3. f \in Injection(Dees(u), T)
    BY <2>2 DEF Injection, IsInjective
  <2>4. IsFiniteSet(T)
    BY <1>1, <1>3, FS_Subset
  <2> QED
    BY <2>3, <2>4, FS_Injection
<1>4. Cardinality(Dees(u)) <= Cardinality(Dees(s))
  BY <1>3
<1>5. ASSUME m > 0, 1 \in Dees(s)
      PROVE  Cardinality(Dees(u)) + 1 <= Cardinality(Dees(s))
  <2>1. \A k \in Dees(u) : k + m # 1
    BY <1>2, <1>5
  <2>2. PICK T : T = Dees(s) \ {1}
    OBVIOUS
  <2>3. Cardinality(Dees(u)) <= Cardinality(T) /\ IsFiniteSet(T)
    BY <1>3, <2>1, <2>2
  <2>4. Cardinality(T) = Cardinality(Dees(s)) - 1
    BY <1>1, <1>5, <2>2, FS_RemoveElement
  <2> QED
    BY <1>1, <2>3, <2>4
<1> QED
  BY <1>4, <1>5

\* One more record.
LEMMA DeesAppend ==
  ASSUME NEW s \in Seq(Cells), NEW r \in Cells
  PROVE  /\ Cardinality(Dees(Append(s, r))) <= Cardinality(Dees(s)) + 1
         /\ r.kind # "D" => Cardinality(Dees(Append(s, r))) <= Cardinality(Dees(s))
<1>1. IsFiniteSet(Dees(s)) /\ Cardinality(Dees(s)) \in Nat
  BY DeesFinite
<1>2. PICK u : u = Append(s, r)
  OBVIOUS
<1>3. /\ u \in Seq(Cells) /\ Len(s) \in Nat /\ DOMAIN u = 1..(Len(s) + 1) /\ DOMAIN s = 1..Len(s)
      /\ u[Len(s) + 1] = r /\ \A k \in 1..Len(s) : u[k] = s[k]
  BY <1>2
<1>4. \A k \in DOMAIN u : k \in DOMAIN s \/ k = Len(s) + 1
  BY <1>3
<1>5. CASE r.kind = "D"
  <2>1. Dees(u) = Dees(s) \cup {Len(s) + 1}
    BY <1>3, <1>4, <1>5 DEF Dees
  <2>2. Len(s) + 1 \notin Dees(s)
    BY <1>3 DEF Dees
  <2>3. Cardinality(Dees(u)) = Cardinality(Dees(s)) + 1
    BY <1>1, <2>1, <2>2, FS_AddElement
  <2> QED
    BY <1>1, <1>2, <1>5, <2>3
<1>6. CASE r.kind # "D"
  <2>1. Dees(u) = Dees(s)
    BY <1>3, <1>4, <1>6 DEF Dees
  <2> QED
    BY <1>1, <1>2, <1>6, <2>1
<1> QED
  BY <1>5, <1>6

\* The directories that were sent.
LEMMA SendingFinite ==
  ASSUME Nested
  PROVE  IsFiniteSet(Sending) /\ Cardinality(Sending) \in Nat
<1>1. Sending \in SUBSET (1..Len(List)) /\ IsFiniteSet(1..Len(List))
  <2>1. Len(List) \in Nat /\ DOMAIN List = 1..Len(List)
    BY ListFacts
  <2> QED
    BY <2>1, FS_Interval DEF Sending
<1>2. IsFiniteSet(Sending)
  BY <1>1, FS_Subset
<1> QED
  BY <1>2, FS_CardinalityType

\* Data leave the D records as they are.
LEMMA DeesConcat ==
  ASSUME NEW s \in Seq(Cells), NEW t \in Seq(Cells), \A k \in DOMAIN t : t[k].kind # "D"
  PROVE  s \o t \in Seq(Cells) /\ Dees(s \o t) = Dees(s)
<1>1. PICK u : u = s \o t
  OBVIOUS
<1>2. /\ u \in Seq(Cells) /\ Len(u) = Len(s) + Len(t)
      /\ \A k \in 1..(Len(s) + Len(t)) : u[k] = IF k <= Len(s) THEN s[k] ELSE t[k - Len(s)]
  BY <1>1, ConcatProperties
<1>3. Len(s) \in Nat /\ Len(t) \in Nat /\ DOMAIN s = 1..Len(s) /\ DOMAIN t = 1..Len(t) /\ DOMAIN u = 1..(Len(s) + Len(t))
  BY <1>2
<1>4. ASSUME NEW k \in DOMAIN u, k \notin DOMAIN s PROVE u[k].kind # "D"
  <2>1. k \in 1..(Len(s) + Len(t)) /\ ~(k <= Len(s)) /\ k - Len(s) \in 1..Len(t)
    BY <1>3, <1>4
  <2>2. u[k] = t[k - Len(s)]
    BY <1>2, <2>1
  <2> QED
    BY <1>3, <2>1, <2>2
<1>5. ASSUME NEW k \in DOMAIN s PROVE k \in DOMAIN u /\ u[k] = s[k]
  <2>1. k \in 1..(Len(s) + Len(t)) /\ k <= Len(s)
    BY <1>3
  <2> QED
    BY <1>2, <1>3, <2>1
<1>6. Dees(u) = Dees(s)
  BY <1>4, <1>5 DEF Dees
<1> QED
  BY <1>1, <1>2, <1>6

\* A level is entered for each D that is read, and left with every return.
LEMMA ServerDepth ==
  ASSUME Nested, TypeOK, TypeOK', Server
  PROVE  Len(stack') + Cardinality(Dees(c2s')) <= Len(stack) + Cardinality(Dees(c2s))
<1>1. /\ c2s \in Seq(Cells) /\ c2s' \in Seq(Cells) /\ stack \in Seq(Calls) /\ stack' \in Seq(Calls)
      /\ Len(stack) \in Nat /\ Len(stack') \in Nat
  BY DEF TypeOK
<1>2. Cardinality(Dees(c2s)) \in Nat /\ Cardinality(Dees(c2s')) \in Nat
  BY <1>1, DeesFinite
<1>3. stack # <<>>
  <2>1. spc # "done"
    <3>1. Enter => spc # "done"
      BY DEF Enter
    <3>2. ReadEnd => spc # "done"
      BY DEF ReadEnd
    <3>3. ReadExit => spc # "done"
      BY DEF ReadExit, Reads
    <3>4. ReadTimes => spc # "done"
      BY DEF ReadTimes, Reads
    <3>5. ReadGarbage => spc # "done"
      BY DEF ReadGarbage
    <3>6. ReadDirectory => spc # "done"
      BY DEF ReadDirectory, Reads
    <3>7. ReadFile => spc # "done"
      BY DEF ReadFile, Reads
    <3>8. ReadData => spc # "done"
      BY DEF ReadData
    <3>9. Truncate => spc # "done"
      BY DEF Truncate
    <3>10. EndMark => spc # "done"
      BY DEF EndMark
    <3>11. NoEndMark => spc # "done"
      BY DEF NoEndMark
    <3> QED
      BY <3>1, <3>2, <3>3, <3>4, <3>5, <3>6, <3>7, <3>8, <3>9, <3>10, <3>11 DEF Server
  <2> QED
    BY <2>1 DEF TypeOK
<1>4. ASSUME NEW a \in {<<>>, <<"ok">>, <<"err">>}, Return(a) PROVE Len(stack') <= Len(stack)
  <2>1. a \in Seq({"ok", "err"})
    <3>1. "ok" \in {"ok", "err"} /\ "err" \in {"ok", "err"}
      OBVIOUS
    <3>2. <<>> \in Seq({"ok", "err"}) /\ <<"ok">> \in Seq({"ok", "err"}) /\ <<"err">> \in Seq({"ok", "err"})
      BY <3>1
    <3> QED
      BY <3>2
  <2>2. (Len(stack) = 1 => stack' = <<>>) /\ (Len(stack) # 1 => Len(stack') = Len(stack) - 1)
    BY <1>3, <1>4, <2>1, ReturnFacts
  <2>3. stack' = <<>> => Len(stack') = 0
    OBVIOUS
  <2> QED
    BY <1>1, <2>2, <2>3
<1>5. ASSUME NEW h \in Calls, SetHere(h) PROVE Len(stack') = Len(stack)
  BY <1>3, <1>5, SetHereFacts
<1>6. Here \in Calls /\ \A b \in BOOLEAN : [Here EXCEPT !.isdir = b] \in Calls /\ [Here EXCEPT !.setimes = b] \in Calls
  BY <1>3, HereFacts, CallFacts
<1>7. c2s' = c2s => Cardinality(Dees(c2s')) <= Cardinality(Dees(c2s))
  BY <1>2
<1>8. ASSUME c2s # <<>>, c2s' = Tail(c2s)
      PROVE  /\ Cardinality(Dees(c2s')) <= Cardinality(Dees(c2s))
             /\ Head(c2s).kind = "D" => Cardinality(Dees(c2s')) + 1 <= Cardinality(Dees(c2s))
  <2>1. PICK u \in Seq(Cells) : u = c2s'
    BY <1>1
  <2>2. Len(c2s) \in Nat \ {0} /\ Len(u) = Len(c2s) - 1 /\ (\A k \in 1..(Len(c2s) - 1) : u[k] = c2s[k + 1]) /\ Head(c2s) = c2s[1]
    BY <1>1, <1>8, <2>1, RestFacts
  <2>3. ASSUME NEW k \in Dees(u) PROVE k + 1 \in Dees(c2s)
    <3>1. k \in 1..(Len(c2s) - 1) /\ k + 1 \in 1..Len(c2s) /\ u[k].kind = "D"
      BY <2>2 DEF Dees
    <3>2. c2s[k + 1].kind = "D"
      BY <2>2, <3>1
    <3> QED
      BY <1>1, <3>1, <3>2 DEF Dees
  <2>4. Head(c2s).kind = "D" => 1 \in Dees(c2s)
    BY <1>1, <2>2 DEF Dees
  <2> QED
    BY <1>1, <2>1, <2>3, <2>4, DeesFewer
<1>9. CASE Enter
  <2>1. Len(stack') <= Len(stack)
    <3>1. CASE Return(<<"err">>)
      BY <1>4, <3>1
    <3>2. CASE SetHere([Here EXCEPT !.isdir = IsDir(Here.targ)])
      <4>1. PICK b \in BOOLEAN : b = IsDir(Here.targ)
        BY DEF IsDir
      <4>2. PICK h : h = [Here EXCEPT !.isdir = b]
        OBVIOUS
      <4>3. h \in Calls /\ SetHere(h)
        BY <1>6, <3>2, <4>1, <4>2
      <4>4. Len(stack') = Len(stack)
        BY <1>5, <4>3
      <4> QED
        BY <1>1, <4>4
    <3> QED
      BY <1>9, <3>1, <3>2 DEF Enter
  <2> QED
    BY <1>1, <1>2, <1>7, <1>9, <2>1 DEF Enter
<1>10. CASE ReadEnd
  BY <1>1, <1>2, <1>4, <1>7, <1>10 DEF ReadEnd
<1>11. CASE ReadExit
  BY <1>1, <1>2, <1>4, <1>8, <1>11 DEF ReadExit, Reads
<1>12. CASE ReadTimes
  <2>1. Len(stack') = Len(stack)
    BY <1>5, <1>6, <1>12 DEF ReadTimes
  <2> QED
    BY <1>1, <1>2, <1>8, <1>12, <2>1 DEF ReadTimes, Reads
<1>13. CASE ReadGarbage
  <2>1. Len(stack') <= Len(stack)
    BY <1>4, <1>13 DEF ReadGarbage
  <2>2. PICK u \in Seq(Cells) : u = c2s'
    BY <1>1
  <2>3. CASE u = <<>>
    <3>1. \A k \in Dees(u) : k + 0 \in Dees(c2s)
      BY <2>3 DEF Dees
    <3> QED
      BY <1>1, <1>2, <2>1, <2>2, <3>1, DeesFewer
  <2>4. CASE u # <<>>
    <3>1. PICK m \in DOMAIN c2s : u = SubSeq(c2s, m + 1, Len(c2s))
      BY <1>13, <2>2, <2>4 DEF ReadGarbage
    <3>2. m \in 1..Len(c2s) /\ m \in Nat /\ Len(c2s) \in Nat
      BY <1>1
    <3>3. Len(u) = Len(c2s) - m /\ \A k \in 1..(Len(c2s) - m) : u[k] = c2s[k + m]
      <4>1. /\ m + 1 \in Int /\ Len(c2s) \in Int /\ Len(c2s) - (m + 1) + 1 = Len(c2s) - m
            /\ \A k \in (m + 1)..Len(c2s) : k \in 1..Len(c2s)
        BY <3>2
      <4>2. \A k \in (m + 1)..Len(c2s) : c2s[k] \in Cells
        BY <1>1, <4>1
      <4>3. /\ Len(u) = IF m + 1 <= Len(c2s) THEN Len(c2s) - (m + 1) + 1 ELSE 0
            /\ \A k \in 1..(Len(c2s) - (m + 1) + 1) : u[k] = c2s[(m + 1) + k - 1]
        BY <3>1, <4>1, <4>2, SubSeqProperties
      <4>4. \A k \in 1..(Len(c2s) - m) : (m + 1) + k - 1 = k + m
        BY <3>2
      <4> QED
        BY <3>2, <4>1, <4>3, <4>4
    <3>4. ASSUME NEW k \in Dees(u) PROVE k + m \in Dees(c2s)
      <4>1. k \in 1..(Len(c2s) - m) /\ u[k].kind = "D" /\ k + m \in 1..Len(c2s)
        BY <3>2, <3>3 DEF Dees
      <4>2. c2s[k + m].kind = "D"
        BY <3>3, <4>1
      <4> QED
        BY <1>1, <4>1, <4>2 DEF Dees
    <3> QED
      BY <1>1, <1>2, <2>1, <2>2, <3>2, <3>4, DeesFewer
  <2> QED
    BY <2>3, <2>4
<1>14. CASE ReadDirectory
  <2>1. c2s # <<>> /\ Head(c2s).kind = "D" /\ c2s' = Tail(c2s)
    BY <1>14 DEF ReadDirectory, Reads
  <2>2. Len(stack') <= Len(stack) + 1
    <3>1. CASE Refuse
      BY <1>1, <3>1 DEF Refuse
    <3>2. CASE ~Refuse
      <4>1. \E h : stack' = Append(stack, h)
        BY <1>14, <3>2 DEF ReadDirectory
      <4> QED
        BY <1>1, <4>1
    <3> QED
      BY <3>1, <3>2
  <2> QED
    BY <1>1, <1>2, <1>8, <2>1, <2>2
<1>15. CASE ReadFile
  <2>1. stack' = stack /\ c2s # <<>> /\ c2s' = Tail(c2s)
    BY <1>15 DEF ReadFile, Reads, Refuse
  <2> QED
    BY <1>1, <1>2, <1>8, <2>1
<1>16. CASE ReadData
  <2>1. \/ stack' = stack /\ c2s # <<>> /\ c2s' = Tail(c2s)
        \/ Return(<<"err">>) /\ c2s' = c2s
    BY <1>16 DEF ReadData
  <2> QED
    BY <1>1, <1>2, <1>4, <1>7, <1>8, <2>1
<1>17. CASE Truncate
  BY <1>1, <1>2, <1>7, <1>17 DEF Truncate
<1>18. CASE EndMark
  <2>1. Len(stack') = Len(stack)
    <3>1. stack' = stack \/ SetHere([Here EXCEPT !.setimes = FALSE])
      BY <1>18 DEF EndMark
    <3> QED
      BY <1>5, <1>6, <3>1
  <2> QED
    BY <1>1, <1>2, <1>8, <1>18, <2>1 DEF EndMark
<1>19. CASE NoEndMark
  <2>1. Len(stack') <= Len(stack)
    BY <1>4, <1>19 DEF NoEndMark
  <2>2. CASE c2s' = c2s
    BY <1>1, <1>2, <1>7, <2>1, <2>2
  <2>3. CASE c2s' # c2s
    <3>1. c2s # <<>> /\ c2s' = (IF Head(c2s).kind = "data" THEN <<Head(c2s)>> ELSE <<Plain("tail")>>) \o Tail(c2s)
      BY <1>19, <2>3 DEF NoEndMark
    <3>2. PICK x : x = IF Head(c2s).kind = "data" THEN Head(c2s) ELSE Plain("tail")
      OBVIOUS
    <3>3. PICK s : s = <<x>>
      OBVIOUS
    <3>4. PICK t : t = Tail(c2s)
      OBVIOUS
    <3>5. /\ t \in Seq(Cells) /\ Len(c2s) \in Nat \ {0} /\ Len(t) = Len(c2s) - 1 /\ Head(c2s) \in Cells
          /\ \A k \in 1..(Len(c2s) - 1) : t[k] = c2s[k + 1]
      BY <1>1, <3>1, <3>4, RestFacts
    <3>6. x \in Cells /\ x.kind # "D"
      <4>1. Plain("tail") \in Cells /\ Plain("tail").kind = "tail"
        BY CellFacts DEF Plain, Record
      <4> QED
        BY <3>2, <3>5, <4>1
    <3>7. s \in Seq(Cells) /\ Len(s) = 1 /\ s[1] = x
      BY <3>3, <3>6
    <3>8. PICK u \in Seq(Cells) : u = c2s'
      BY <1>1
    <3>9. u = s \o t
      BY <3>1, <3>2, <3>3, <3>4, <3>8
    <3>10. Len(u) = Len(c2s) /\ \A k \in 1..Len(c2s) : u[k] = IF k <= 1 THEN s[k] ELSE t[k - 1]
      <4>1. /\ Len(s \o t) = Len(s) + Len(t)
            /\ \A k \in 1..(Len(s) + Len(t)) : (s \o t)[k] = IF k <= Len(s) THEN s[k] ELSE t[k - Len(s)]
        BY <3>5, <3>7, ConcatProperties
      <4>2. Len(s) + Len(t) = Len(c2s)
        BY <3>5, <3>7
      <4> QED
        BY <3>7, <3>9, <4>1, <4>2
    <3>11. ASSUME NEW k \in Dees(u) PROVE k + 0 \in Dees(c2s)
      <4>1. k \in 1..Len(c2s) /\ u[k].kind = "D"
        BY <3>5, <3>10 DEF Dees
      <4>2. CASE k = 1
        <5>1. u[k] = x
          BY <3>7, <3>10, <4>1, <4>2
        <5> QED
          BY <3>6, <4>1, <5>1
      <4>3. CASE k # 1
        <5>1. k - 1 \in 1..(Len(c2s) - 1) /\ (k - 1) + 1 = k /\ ~(k <= 1) /\ k + 0 = k
          BY <3>5, <4>1, <4>3
        <5>2. u[k] = t[k - 1] /\ t[k - 1] = c2s[k]
          BY <3>5, <3>10, <4>1, <5>1
        <5> QED
          BY <1>1, <4>1, <5>1, <5>2 DEF Dees
      <4> QED
        BY <4>2, <4>3
    <3> QED
      BY <1>1, <1>2, <2>1, <3>8, <3>11, DeesFewer
  <2> QED
    BY <2>2, <2>3
<1> QED
  BY <1>9, <1>10, <1>11, <1>12, <1>13, <1>14, <1>15, <1>16, <1>17, <1>18, <1>19 DEF Server

\* The directories the client has sent are counted for good,
LEMMA SendingKept ==
  ASSUME Nested, TypeOK, Placed, Client
  PROVE  /\ Sending \subseteq Sending'
         /\ cpc \in {"next", "times"} /\ cpc' = "control" /\ i' = i /\ MakesDir(i) =>
              Cardinality(Sending) + 1 <= Cardinality(Sending')
<1>1. Len(List) \in Nat /\ DOMAIN List = 1..Len(List) /\ i \in Nat
  BY ListFacts DEF TypeOK
<1>2. \A j : MakesDir(j) = MakesDir(j)'
  BY DEF MakesDir
<1>3. /\ i' = i \/ i' = i + 1
      /\ cpc = "control" /\ MakesDir(i) => i' = i + 1
  <2>1. Advance => i' = i + 1
    BY DEF Advance
  <2>2. \A r, p : Send(r, p) => i' = i \/ i' = i + 1
    BY <2>1 DEF Send
  <2>3. CASE Expand \/ Finish \/ SendExit
    BY <2>3 DEF Expand, Finish, SendExit
  <2>4. CASE Greeted
    BY <2>4 DEF Greeted, Placed
  <2>5. CASE Exited
    BY <2>1, <2>5 DEF Exited
  <2>6. CASE SendFile
    BY <2>1, <2>2, <2>6 DEF SendFile, SendControl
  <2>7. CASE TimesAnswered
    BY <2>1, <2>2, <2>7 DEF TimesAnswered, SendControl
  <2>8. CASE ControlAnswered
    BY <2>1, <2>8 DEF ControlAnswered, MakesDir
  <2>9. CASE SendData
    BY <2>1, <2>9 DEF SendData
  <2>10. CASE Acknowledged
    BY <2>1, <2>10 DEF Acknowledged
  <2> QED
    BY <2>3, <2>4, <2>5, <2>6, <2>7, <2>8, <2>9, <2>10 DEF Client
<1>4. ASSUME NEW k \in Sending PROVE k \in Sending'
  <2>1. k \in DOMAIN List /\ k \in Nat /\ MakesDir(k) /\ (k < i \/ (k = i /\ cpc = "control"))
    BY <1>1 DEF Sending
  <2>2. k < i'
    <3>1. CASE k < i
      BY <1>1, <1>3, <2>1, <3>1
    <3>2. CASE k = i /\ cpc = "control"
      BY <1>1, <1>3, <2>1, <3>2
    <3> QED
      BY <2>1, <3>1, <3>2
  <2> QED
    BY <1>2, <2>1, <2>2 DEF Sending
<1>5. ASSUME cpc \in {"next", "times"}, cpc' = "control", i' = i, MakesDir(i)
      PROVE  Cardinality(Sending) + 1 <= Cardinality(Sending')
  <2>1. i \notin Sending
    BY <1>1, <1>5 DEF Sending
  <2>2. i \in Sending'
    BY <1>1, <1>2, <1>5 DEF Sending, MakesDir
  <2>3. IsFiniteSet(Sending) /\ Cardinality(Sending) \in Nat
    BY SendingFinite
  <2>4. IsFiniteSet(Sending')
    <3>1. Sending' \in SUBSET (1..Len(List)) /\ IsFiniteSet(1..Len(List))
      BY <1>1, FS_Interval DEF Sending
    <3> QED
      BY <3>1, FS_Subset
  <2>5. PICK T : T = Sending \cup {i}
    OBVIOUS
  <2>6. T \in SUBSET (Sending') /\ Cardinality(T) = Cardinality(Sending) + 1
    BY <1>4, <2>1, <2>2, <2>3, <2>5, FS_AddElement
  <2>7. PICK S : S = Sending'
    OBVIOUS
  <2>8. Cardinality(T) <= Cardinality(S)
    BY <2>4, <2>6, <2>7, FS_Subset
  <2> QED
    BY <2>6, <2>7, <2>8
<1> QED
  BY <1>4, <1>5

\* and they pay for the D records it writes.
LEMMA ClientDepth ==
  ASSUME Nested, TypeOK, TypeOK', Placed, Client
  PROVE  /\ stack' = stack
         /\ Cardinality(Dees(c2s')) + Cardinality(Sending) <= Cardinality(Dees(c2s)) + Cardinality(Sending')
<1>1. stack' = stack /\ c2s \in Seq(Cells) /\ c2s' \in Seq(Cells)
  BY DEF Client, Expand, Greeted, Finish, SendExit, Exited, SendFile, TimesAnswered,
         ControlAnswered, SendData, Acknowledged, serverVars, TypeOK
<1>2. Cardinality(Dees(c2s)) \in Nat /\ Cardinality(Dees(c2s')) \in Nat
  BY <1>1, DeesFinite
<1>3. /\ IsFiniteSet(Sending) /\ Cardinality(Sending) \in Nat
      /\ IsFiniteSet(Sending') /\ Cardinality(Sending') \in Nat
  <2>1. Sending' \in SUBSET (1..Len(List)) /\ IsFiniteSet(1..Len(List))
    <3>1. Len(List) \in Nat /\ DOMAIN List = 1..Len(List)
      BY ListFacts
    <3> QED
      BY <3>1, FS_Interval DEF Sending
  <2>2. IsFiniteSet(Sending')
    BY <2>1, FS_Subset
  <2> QED
    BY <2>2, SendingFinite, FS_CardinalityType
<1>4. Cardinality(Sending) <= Cardinality(Sending')
  <2>1. PICK S : S = Sending'
    OBVIOUS
  <2>2. PICK T : T = Sending
    OBVIOUS
  <2>3. T \in SUBSET S /\ IsFiniteSet(S)
    BY <1>3, <2>1, <2>2, SendingKept
  <2>4. Cardinality(T) <= Cardinality(S)
    BY <2>3, FS_Subset
  <2> QED
    BY <2>1, <2>2, <2>4
<1>5. ASSUME Cardinality(Dees(c2s')) <= Cardinality(Dees(c2s))
      PROVE  Cardinality(Dees(c2s')) + Cardinality(Sending) <= Cardinality(Dees(c2s)) + Cardinality(Sending')
  BY <1>2, <1>3, <1>4, <1>5
<1>6. c2s' = c2s => Cardinality(Dees(c2s')) <= Cardinality(Dees(c2s))
  BY <1>2
<1>7. ASSUME NEW r \in Cells, r.kind # "D", c2s' = Append(c2s, r)
      PROVE  Cardinality(Dees(c2s')) <= Cardinality(Dees(c2s))
  BY <1>1, <1>7, DeesAppend
<1>8. \A k \in {"E", "T", "nul"} : Plain(k) \in Cells /\ Plain(k).kind # "D"
  BY CellFacts DEF Plain, Record, Controls
<1>9. ASSUME cpc \in {"next", "times"}, i \in 1..Len(List), List[i] # ExitMark, SendControl(List[i])
      PROVE  Cardinality(Dees(c2s')) + Cardinality(Sending) <= Cardinality(Dees(c2s)) + Cardinality(Sending')
  <2>1. CASE c2s' = c2s
    BY <1>5, <1>6, <2>1
  <2>2. CASE c2s' # c2s
    <3>1. c2s' = Append(c2s, Control(List[i])) /\ cpc' = "control" /\ i' = i
      BY <1>9, <2>2 DEF SendControl, Send
    <3>2. PICK r \in Cells : r = Control(List[i])
      BY <1>9, CellFacts
    <3>3. r.kind = IF List[i].path \in Dirs THEN "D" ELSE "C"
      BY <1>9, <3>2, CellFacts
    <3>4. CASE List[i].path \in Dirs
      <4>1. MakesDir(i)
        BY <1>9, <3>4, ListFacts DEF MakesDir
      <4>2. Cardinality(Sending) + 1 <= Cardinality(Sending')
        BY <1>9, <3>1, <4>1, SendingKept
      <4>3. Cardinality(Dees(c2s')) <= Cardinality(Dees(c2s)) + 1
        BY <1>1, <3>1, <3>2, DeesAppend
      <4> QED
        BY <1>2, <1>3, <4>2, <4>3
    <3>5. CASE List[i].path \notin Dirs
      BY <1>5, <1>7, <3>1, <3>2, <3>3, <3>5
    <3> QED
      BY <3>4, <3>5
  <2> QED
    BY <2>1, <2>2
<1>10. CASE Expand \/ Greeted \/ Finish \/ Exited \/ ControlAnswered \/ Acknowledged
  <2>1. c2s' = c2s
    BY <1>10 DEF Expand, Greeted, Finish, Exited, ControlAnswered, Acknowledged
  <2> QED
    BY <1>1, <1>5, <1>6, <2>1
<1>11. CASE SendExit
  <2>1. c2s' = c2s \/ c2s' = Append(c2s, Plain("E"))
    BY <1>11 DEF SendExit
  <2> QED
    BY <1>1, <1>5, <1>6, <1>7, <1>8, <2>1
<1>12. CASE SendFile
  <2>1. cpc = "next" /\ i \in 1..Len(List) /\ List[i] # ExitMark
    BY <1>12, ListFacts DEF SendFile
  <2>2. c2s' = c2s \/ c2s' = Append(c2s, Plain("T")) \/ SendControl(List[i])
    BY <1>12 DEF SendFile, Send
  <2> QED
    BY <1>1, <1>5, <1>6, <1>7, <1>8, <1>9, <2>1, <2>2
<1>13. CASE TimesAnswered
  <2>1. cpc = "times" /\ i \in 1..Len(List) /\ List[i] # ExitMark
    BY <1>13 DEF TimesAnswered, Placed
  <2>2. c2s' = c2s \/ SendControl(List[i])
    BY <1>13 DEF TimesAnswered
  <2> QED
    BY <1>1, <1>5, <1>6, <1>9, <2>1, <2>2
<1>14. CASE SendData
  <2>1. CASE c2s' = c2s
    BY <1>1, <1>5, <1>6, <2>1
  <2>2. CASE c2s' # c2s
    <3>1. IsFile(i) /\ i \in 1..Len(List) /\ ~IsExit(i)
      BY <1>14, ListFacts DEF SendData, Placed, IsExit
    <3>2. PICK p : p = List[i].path
      OBVIOUS
    <3>3. p \in Paths /\ Size[p] \in Nat
      <4>1. p \in Files /\ p \in Paths
        BY <3>1, <3>2, EntryFacts
      <4> QED
        BY <4>1, PcpAssumption
    <3>4. \E n \in Lengths(Size[p]) \cup 0..Size[p] :
            LET cells == [k \in 1..n |-> DataCell(p, k)] IN
            c2s' = c2s \o cells \/ c2s' = c2s \o cells \o <<Plain("nul")>>
      BY <1>14, <2>2, <3>2 DEF SendData, Data
    <3>5. PICK n \in Lengths(Size[p]) \cup 0..Size[p] :
            LET cells == [k \in 1..n |-> DataCell(p, k)] IN
            c2s' = c2s \o cells \/ c2s' = c2s \o cells \o <<Plain("nul")>>
      BY <3>4
    <3>6. n \in Nat
      BY <3>3 DEF Lengths
    <3>7. PICK cells : cells = [k \in 1..n |-> DataCell(p, k)]
      OBVIOUS
    <3>8. cells \in Seq(Cells) /\ \A k \in DOMAIN cells : cells[k].kind # "D"
      <4>1. cells \in Seq(Cells) /\ DOMAIN cells = 1..n
        BY <3>3, <3>6, <3>7, CellFacts
      <4>2. \A k \in 1..n : cells[k] = DataCell(p, k)
        BY <3>7
      <4>3. \A k : DataCell(p, k).kind = "data"
        BY DEF DataCell, Record
      <4> QED
        BY <4>1, <4>2, <4>3
    <3>9. PICK nul : nul = <<Plain("nul")>>
      OBVIOUS
    <3>10. nul \in Seq(Cells) /\ \A k \in DOMAIN nul : nul[k].kind # "D"
      <4>1. nul \in Seq(Cells) /\ DOMAIN nul = {1} /\ nul[1] = Plain("nul")
        BY <1>8, <3>9
      <4> QED
        BY <1>8, <4>1
    <3>11. c2s \o cells \in Seq(Cells) /\ Dees(c2s \o cells) = Dees(c2s)
      BY <1>1, <3>8, DeesConcat
    <3>12. Dees((c2s \o cells) \o nul) = Dees(c2s \o cells)
      BY <3>10, <3>11, DeesConcat
    <3>13. Dees(c2s') = Dees(c2s)
      BY <3>5, <3>7, <3>9, <3>11, <3>12
    <3> QED
      BY <1>1, <1>2, <1>5, <3>13
  <2> QED
    BY <2>1, <2>2
<1> QED
  BY <1>1, <1>10, <1>11, <1>12, <1>13, <1>14 DEF Client

\* The bound of the depth is kept.
LEMMA BoundedStep ==
  ASSUME Nested, TypeOK, TypeOK', Placed, Bounded, [Next]_vars
  PROVE  Bounded'
<1>1. /\ c2s \in Seq(Cells) /\ c2s' \in Seq(Cells) /\ stack \in Seq(Calls) /\ stack' \in Seq(Calls)
      /\ Len(stack) \in Nat /\ Len(stack') \in Nat
  BY DEF TypeOK
<1>2. Cardinality(Dees(c2s)) \in Nat /\ Cardinality(Dees(c2s')) \in Nat
  BY <1>1, DeesFinite
<1>3. Len(stack) + Cardinality(Dees(c2s)) <= Cardinality(Sending) + 1
  BY DEF Bounded, UnderWay, Dees
<1>4. Cardinality(Sending) \in Nat
  BY SendingFinite
<1>5. i' = i /\ cpc' = cpc => Sending' = Sending
  BY DEF Sending, MakesDir
<1>6. Len(stack') + Cardinality(Dees(c2s')) <= Cardinality(Sending') + 1
  <2>1. CASE Client
    <3>1. Cardinality(Sending') \in Nat
      <4>1. Sending' \in SUBSET (1..Len(List)) /\ IsFiniteSet(1..Len(List))
        <5>1. Len(List) \in Nat /\ DOMAIN List = 1..Len(List)
          BY ListFacts
        <5> QED
          BY <5>1, FS_Interval DEF Sending
      <4> QED
        BY <4>1, FS_Subset, FS_CardinalityType
    <3>2. /\ stack' = stack
          /\ Cardinality(Dees(c2s')) + Cardinality(Sending) <= Cardinality(Dees(c2s)) + Cardinality(Sending')
      BY <2>1, ClientDepth
    <3> QED
      BY <1>1, <1>2, <1>3, <1>4, <3>1, <3>2
  <2>2. CASE Server
    <3>1. i' = i /\ cpc' = cpc
      BY <2>2 DEF Server, Enter, ReadEnd, ReadExit, ReadTimes, ReadGarbage, ReadDirectory, ReadFile,
                  ReadData, Truncate, EndMark, NoEndMark, clientVars
    <3>2. Len(stack') + Cardinality(Dees(c2s')) <= Len(stack) + Cardinality(Dees(c2s))
      BY <2>2, ServerDepth
    <3> QED
      BY <1>1, <1>2, <1>3, <1>4, <1>5, <3>1, <3>2
  <2>3. CASE Drop
    <3>1. i' = i /\ cpc' = cpc /\ stack' = stack
      BY <2>3 DEF Drop, clientVars, serverVars
    <3>2. PICK m \in 0..Len(c2s) : c2s' = SubSeq(c2s, 1, m)
      BY <2>3 DEF Drop
    <3>3. PICK u \in Seq(Cells) : u = c2s'
      BY <1>1
    <3>4. Len(u) = m /\ \A k \in 1..m : u[k] = c2s[k]
      BY <1>1, <3>2, <3>3, DropFacts
    <3>5. ASSUME NEW k \in Dees(u) PROVE k + 0 \in Dees(c2s)
      <4>1. Len(c2s) \in Nat /\ DOMAIN u = 1..m
        BY <1>1, <3>4
      <4>2. k \in 1..m /\ k \in 1..Len(c2s) /\ k + 0 = k /\ u[k].kind = "D"
        BY <4>1 DEF Dees
      <4> QED
        BY <1>1, <3>4, <4>2 DEF Dees
    <3>6. Cardinality(Dees(u)) <= Cardinality(Dees(c2s))
      BY <1>1, <3>5, DeesFewer
    <3> QED
      BY <1>1, <1>2, <1>3, <1>4, <1>5, <3>1, <3>3, <3>6
  <2>4. CASE UNCHANGED vars
    BY <1>3, <1>5, <2>4 DEF vars, clientVars, serverVars
  <2> QED
    BY <2>1, <2>2, <2>3, <2>4 DEF Next
<1> QED
  BY <1>6 DEF Bounded, UnderWay, Dees

\* A copy that ends without an error having been printed has stored every file, whatever
\* failed, and _sink never calls itself deeper than the list has directories to send
\* (pcp_client.c:387, pcp_server.c:372-457).
THEOREM SilenceIsSuccess ==
  ASSUME Nested
  PROVE  Spec => []SilenceMeansSuccess
<1>1. Init => SilentInv
  <2> SUFFICES ASSUME Init PROVE SilentInv
    OBVIOUS
  <2>1. TypeOK /\ Placed
    BY TypesInit
  <2>2. Together /\ Accounted
    BY StartingInit DEF Together
  <2>3. Bounded
    <3>1. Len(stack) = 1 /\ UnderWay = {}
      <4>1. c2s = <<>> /\ DOMAIN <<>> = {}
        BY DEF Init
      <4> QED
        BY <4>1 DEF Init, UnderWay
    <3>2. Cardinality({}) = 0 /\ Cardinality(Sending) \in Nat
      BY FS_EmptySet, SendingFinite
    <3> QED
      BY <3>1, <3>2 DEF Bounded
  <2> QED
    BY <2>1, <2>2, <2>3 DEF SilentInv, Silent
<1>2. SilentInv /\ [Next]_vars => SilentInv'
  <2> SUFFICES ASSUME SilentInv, [Next]_vars PROVE SilentInv'
    OBVIOUS
  <2>1. TypeOK /\ Placed /\ Silent /\ Bounded
    BY DEF SilentInv
  <2>2. TypeOK' /\ Placed'
    BY <2>1, TypesStep
  <2> QED
    BY <2>1, <2>2, SilentStep, BoundedStep DEF SilentInv
<1>3. SilentInv => SilenceMeansSuccess
  <2> SUFFICES ASSUME SilentInv PROVE SilenceMeansSuccess
    OBVIOUS
  <2>1. TypeOK /\ Placed /\ Silent /\ Bounded
    BY DEF SilentInv
  <2>2. ASSUME Settled, up, told = {}, NEW k \in FileEntries
        PROVE  Delivered(List[k].path)
    <3>1. cpc \in {"done", "died"}
      BY <2>2 DEF Settled
    <3>2. ~Doomed /\ ~Stuck
      BY <3>1 DEF Doomed, Stuck, Waiting
    <3>3. Accounted
      BY <2>1, <2>2, <3>2 DEF Silent
    <3>4. i = Len(List) + 1
      BY <2>2, <3>1, <3>3 DEF Accounted
    <3>5. k < i
      BY <3>4, ListFacts DEF FileEntries
    <3> QED
      BY <2>2, <3>3, <3>5 DEF Accounted
  <2>3. Len(stack) <= Cardinality({k \in DOMAIN List : List[k].path \in Dirs}) + 1
    <3>1. PICK S : S = {k \in DOMAIN List : List[k].path \in Dirs}
      OBVIOUS
    <3>2. S \in SUBSET (1..Len(List)) /\ IsFiniteSet(1..Len(List))
      <4>1. Len(List) \in Nat /\ DOMAIN List = 1..Len(List)
        BY ListFacts
      <4> QED
        BY <3>1, <4>1, FS_Interval
    <3>3. IsFiniteSet(S) /\ Cardinality(S) \in Nat
      BY <3>2, FS_Subset, FS_CardinalityType
    <3>4. PICK T : T = Sending
      OBVIOUS
    <3>5. T \in SUBSET S
      BY <3>1, <3>4 DEF Sending, MakesDir
    <3>6. Cardinality(T) <= Cardinality(S)
      BY <3>3, <3>5, FS_Subset
    <3>7. Len(stack) \in Nat /\ Cardinality(Dees(c2s)) \in Nat /\ Cardinality(Sending) \in Nat
      <4>1. stack \in Seq(Calls) /\ c2s \in Seq(Cells)
        BY <2>1 DEF TypeOK
      <4> QED
        BY <4>1, DeesFinite, SendingFinite
    <3>8. Len(stack) + Cardinality(Dees(c2s)) <= Cardinality(Sending) + 1
      BY <2>1 DEF Bounded, UnderWay, Dees
    <3>9. Len(stack) <= Cardinality(S) + 1
      BY <3>3, <3>4, <3>6, <3>7, <3>8
    <3> QED
      BY <3>1, <3>9
  <2> QED
    BY <2>2, <2>3 DEF SilenceMeansSuccess
<1> QED
  BY <1>1, <1>2, <1>3, PTL DEF Spec

============================================================================
