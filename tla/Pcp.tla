-------------------------------- MODULE Pcp --------------------------------
(***************************************************************************)
(* The copy protocol of pdcp: a client (src/src/pdsh/pcp_client.c) sends   *)
(* files and directories over one byte stream, a server                    *)
(* (src/src/pdsh/pcp_server.c) stores them and answers over another.       *)
(*                                                                         *)
(* A stream is a sequence of cells: a control record is a cell, and so are *)
(* the byte that ends a file and each full buffer of its data.  The server *)
(* is a stack, one level per call of _sink.  What may fail in the          *)
(* environment is listed in FaultKinds.  File modes and times are left     *)
(* out; the calls that set them are not, since their failure is answered.  *)
(***************************************************************************)
EXTENDS Integers, FiniteSets, SequencesExt

CONSTANTS
  Infiles,     \* the names the user gave, in order
  Readdir,     \* the entries of each source directory, in the order of readdir
  Size,        \* the number of data cells of each source file
  Unreadable,  \* source paths that access(R_OK) and open refuse
  BaseName,    \* the last component of each name
  HostName,    \* ... with the host appended to it
  Targets,     \* the trees that may exist at the destination
  Modes        \* the copies considered, see ModeRecords

FaultKinds ==
  {"vanish", "unlink",                              \* a file goes before, after stat
   "statdir",                                       \* a directory is not found by stat
   "read",                                          \* reading a file fails midway
   "shrink", "grow",                                \* ... changes its size
   "alloc", "mkdir", "open", "write", "truncate",   \* calls of the server that fail
   "times", "dirtimes",                             \* utimes of a file, a directory
   "drop"}                                          \* the connection breaks

ModeRecords ==
  [preserve : BOOLEAN,           \* -p
   reverse  : BOOLEAN,           \* rpdcp: the client is the remote side (-Z)
   faults   : SUBSET FaultKinds]

Controls == {"T", "D", "C", "E"}
Names == DOMAIN HostName
Dirs  == DOMAIN Readdir
Files == DOMAIN Size
Paths == Dirs \cup Files

Pieces == Names \cup {BaseName[n] : n \in Names} \cup {HostName[n] : n \in Names}
Cells == [kind : Controls \cup {"data", "nul", "hole", "tail", "old"},
          name : Seq(Pieces), size : Nat]
Nodes == [kind : {"dir", "file"}, data : Seq(Cells)]

ASSUME PcpAssumption ==
  /\ Infiles \in Seq(Names) /\ \A k \in DOMAIN Infiles : <<Infiles[k]>> \in Paths
  /\ Paths \subseteq Seq(Names) \ {<<>>} /\ Dirs \cap Files = {}
  /\ \A d \in Dirs : /\ Readdir[d] \in Seq(Names)
                     /\ \A k \in DOMAIN Readdir[d] : Append(d, Readdir[d][k]) \in Paths
  /\ \A p, q \in Paths : p[1] # q[1] =>     \* no two names for one destination
       BaseName[p[1]] # BaseName[q[1]] /\ HostName[p[1]] # HostName[q[1]]
  /\ Size \in [Files -> Nat]
  /\ Unreadable \subseteq Paths
  /\ \A t \in Targets : \A p \in DOMAIN t : t[p] \in Nodes
  /\ Modes \subseteq ModeRecords

VARIABLES
  cpc,    \* what the client is about to do
  i,      \* its position in the list of files; 0 before the first
  told,   \* the positions at which it printed an error
  c2s,    \* the stream to the server
  s2c,    \* the stream of responses
  up,     \* the connection stands
  spc,    \* what the server is about to do
  stack,  \* the calls of _sink: target, whether it is a directory, setimes
  file,   \* the file being received: path, size, cells so far, wrerr
  dst,    \* the tree at the destination; the path <<>> is outfile
  dst0,   \* the same before the copy
  mode    \* the kind of copy

May(fault) == fault \in mode.faults   \* it may happen in this copy

clientVars == <<cpc, i, told>>
serverVars == <<spc, stack, file, dst>>
given == <<dst0, mode>>
vars == <<clientVars, c2s, s2c, up, serverVars, given>>

-----------------------------------------------------------------------------
(* The list of files, made before anything is sent: a directory is        *)
(* followed by its contents and by an exit mark.                           *)

ExitMark == [path |-> <<>>, user |-> FALSE]

RexpandDir[d \in Dirs] ==
  LET Listed(p) == <<[path |-> p, user |-> FALSE]>>
                     \o (IF p \in Dirs THEN RexpandDir[p] ELSE <<>>)
  IN  FlattenSeq([k \in DOMAIN Readdir[d] |-> Listed(Append(d, Readdir[d][k]))])
        \o <<ExitMark>>

List ==
  LET Listed(p) == <<[path |-> p, user |-> TRUE]>>
                     \o (IF p \in Dirs THEN RexpandDir[p] ELSE <<>>)
  IN  FlattenSeq([k \in DOMAIN Infiles |-> Listed(<<Infiles[k]>>)])

\* The paths whose access is checked: what the user named, and directories, since
\* the loop over a directory tests the directory each time, not the entry.
Checked == {p \in Paths : p \in Dirs \/ Len(p) = 1}

\* The name sent with a file: its last component, and for rpdcp the host behind it if the
\* user gave the name.
SentFor(n) == IF mode.reverse THEN HostName[n] ELSE BaseName[n]
SentName(entry) == <<IF entry.user THEN SentFor(Last(entry.path)) ELSE Last(entry.path)>>

-----------------------------------------------------------------------------
(* The two streams.  One whose writer is gone ends after its last cell.    *)

ClientGoneOpen == ~up   \* without the close when the copy is done
ClientGone == cpc \in {"done", "died"} \/ ~up
ServerGone == spc = "done" \/ ~up

Record(kind, name, size) == [kind |-> kind, name |-> name, size |-> size]
Plain(kind) == Record(kind, <<>>, 0)
DataCell(path, k) == Record("data", path, k)
Data(path, n) == [k \in 1..n |-> DataCell(path, k)]

\* pcp_response: zero is fine, an error is printed, the end of the stream is not.
ResponseOk == s2c # <<>> /\ Head(s2c) = "ok" /\ s2c' = Tail(s2c) /\ UNCHANGED told
ResponseFailsQuietly ==   \* without the message
  \/ s2c # <<>> /\ Head(s2c) = "err" /\ s2c' = Tail(s2c) /\ UNCHANGED told
  \/ s2c = <<>> /\ ServerGone /\ UNCHANGED <<s2c, told>>
ResponseFails ==
  \/ s2c # <<>> /\ Head(s2c) = "err" /\ s2c' = Tail(s2c) /\ told' = told \cup {i}
  \/ s2c = <<>> /\ ServerGone /\ UNCHANGED <<s2c, told>>

\* What the server answers; over a broken connection it is lost.  (A write that fails
\* instead ends the level, as the end of the client's stream then does anyway.)
Answer(answers) == s2c' = IF up THEN s2c \o answers ELSE s2c
Respond(answer) == Answer(<<answer>>)

-----------------------------------------------------------------------------
(* The client.                                                             *)

WasDir == <<>> \in DOMAIN dst0 /\ dst0[<<>>].kind = "dir"
Init ==
  /\ cpc = "expand" /\ i = 0 /\ told = {}
  /\ c2s = <<>> /\ s2c = <<>> /\ up = TRUE
  /\ mode \in Modes
  /\ dst0 \in Targets /\ dst = dst0
  /\ mode.reverse => WasDir
  /\ spc = "enter" /\ stack = <<[targ |-> <<>>, isdir |-> FALSE, setimes |-> FALSE]>>
  /\ file = [path |-> <<>>, size |-> 0, got |-> 0, wrerr |-> "no"]

\* pcp_expand_dirs; errx if a path that is checked cannot be read.
Expand ==
  /\ cpc = "expand"
  /\ cpc' = IF Checked \cap Unreadable = {} THEN "greet" ELSE "died"
  /\ told' = IF Checked \cap Unreadable = {} THEN told ELSE told \cup {i}
  /\ UNCHANGED <<i, c2s, s2c, up, serverVars, given>>

Greeted ==
  /\ cpc = "greet"
  /\ \/ ResponseOk /\ cpc' = "next" /\ i' = 1
     \/ ResponseFails /\ cpc' = "done" /\ UNCHANGED i
  /\ UNCHANGED <<c2s, up, serverVars, given>>

\* To the next entry, whatever became of this one: its result is not looked at.
Advance == cpc' = "next" /\ i' = i + 1

\* A record is written, unless the server's end is closed.
Send(record, then) ==
  IF ServerGone
    THEN Advance /\ UNCHANGED c2s
    ELSE cpc' = then /\ c2s' = Append(c2s, record) /\ UNCHANGED i

Control(entry) ==
  IF entry.path \in Dirs THEN Record("D", SentName(entry), 0)
                         ELSE Record("C", SentName(entry), Size[entry.path])
SendControl(entry) == Send(Control(entry), "control")

Finish ==
  /\ cpc = "next" /\ i > Len(List) /\ cpc' = "done"
  /\ UNCHANGED <<i, told, c2s, s2c, up, serverVars, given>>

SendExit ==
  /\ cpc = "next" /\ i \in DOMAIN List /\ List[i] = ExitMark
  /\ IF ServerGone THEN cpc' = "died" /\ told' = told \cup {i} /\ UNCHANGED c2s
                   ELSE cpc' = "exit" /\ c2s' = Append(c2s, Plain("E")) /\ UNCHANGED told
  /\ UNCHANGED <<i, s2c, up, serverVars, given>>

\* A refused E is fatal to the whole process of the client (errx).
Exited ==
  /\ cpc = "exit"
  /\ \/ ResponseOk /\ Advance
     \/ /\ s2c # <<>> /\ Head(s2c) = "err" /\ s2c' = Tail(s2c)
        /\ cpc' = "died" /\ told' = told \cup {i} /\ UNCHANGED i
     \/ /\ s2c = <<>> /\ ServerGone /\ UNCHANGED s2c
        /\ cpc' = "died" /\ told' = told \cup {i} /\ UNCHANGED i
  /\ UNCHANGED <<c2s, up, serverVars, given>>

\* pcp_sendfile: stat, then the times if wanted, then the mode, size and name.  What
\* follows of a directory that stat refused is sent all the same, its E too.
SendFile ==
  /\ cpc = "next" /\ i \in DOMAIN List /\ List[i] # ExitMark
  /\ \/ /\ UNCHANGED told
        /\ IF mode.preserve THEN Send(Plain("T"), "times") ELSE SendControl(List[i])
     \/ /\ May(IF List[i].path \in Files THEN "vanish" ELSE "statdir")
        /\ Advance /\ told' = told \cup {i} /\ UNCHANGED c2s
  /\ UNCHANGED <<s2c, up, serverVars, given>>

TimesAnswered ==
  /\ cpc = "times"
  /\ \/ ResponseOk /\ SendControl(List[i])
     \/ ResponseFails /\ Advance /\ UNCHANGED c2s
  /\ UNCHANGED <<up, serverVars, given>>

ControlAnswered ==
  /\ cpc = "control"
  /\ \/ /\ ResponseOk
        /\ IF List[i].path \in Dirs THEN Advance ELSE cpc' = "open" /\ UNCHANGED i
     \/ ResponseFails /\ Advance
  /\ UNCHANGED <<c2s, up, serverVars, given>>

\* _pcp_send_file_data: what the file holds now, which stat need not have seen; or some
\* of it and no mark at its end, when a read fails.
Lengths(n) == {n} \cup (IF May("shrink") THEN 0..n ELSE {})
                  \cup (IF May("grow") THEN {n + 1} ELSE {})

SendData ==
  /\ cpc = "open"
  /\ LET path == List[i].path IN
     \/ /\ path \in Unreadable \/ May("unlink") \/ ServerGone
        /\ told' = told \cup {i} /\ Advance /\ UNCHANGED c2s
     \/ /\ May("read") /\ path \notin Unreadable /\ ~ServerGone
        /\ \E n \in 0..Size[path] : c2s' = c2s \o Data(path, n)
        /\ told' = told \cup {i} /\ Advance
     \/ /\ path \notin Unreadable
        /\ \E n \in Lengths(Size[path]) :
             c2s' = IF ServerGone THEN c2s ELSE c2s \o Data(path, n) \o <<Plain("nul")>>
        /\ cpc' = "ack" /\ UNCHANGED <<i, told>>
  /\ UNCHANGED <<s2c, up, serverVars, given>>

Acknowledged ==
  /\ cpc = "ack" /\ (ResponseOk \/ ResponseFails) /\ Advance
  /\ UNCHANGED <<c2s, up, serverVars, given>>

Client == \/ Expand \/ Greeted \/ Finish \/ SendExit \/ Exited \/ SendFile
          \/ TimesAnswered \/ ControlAnswered \/ SendData \/ Acknowledged

-----------------------------------------------------------------------------
(* The server.                                                             *)

IsDir(path)  == path \in DOMAIN dst /\ dst[path].kind = "dir"
Directory    == [kind |-> "dir", data |-> <<>>]
Regular(data) == [kind |-> "file", data |-> data]
Place(path, node) == dst' = [p \in DOMAIN dst \cup {path} |->
                               IF p = path THEN node ELSE dst[p]]

Here == Last(stack)
SetHere(level) == stack' = Append(Front(stack), level)

\* _sink returns, having answered answers.  What its caller does then: after a
\* directory, the times of that directory, and an error if they cannot be set.
Return(answers) ==
  /\ stack' = IF Len(stack) = 1 THEN <<>>
               ELSE [Front(stack) EXCEPT ![Len(stack) - 1].setimes = FALSE]
  /\ spc' = IF Len(stack) = 1 THEN "done" ELSE "read"
  /\ \/ Answer(answers)
     \/ /\ May("dirtimes") /\ Len(stack) > 1 /\ stack[Len(stack) - 1].setimes
        /\ Answer(answers \o <<"err">>)

\* -y, which the remote server gets when there is more than one entry.
TargetIsDir == ~mode.reverse /\ Len(List) > 1

\* The beginning of _sink: its buffer, the target, and the first response.
Enter ==
  /\ spc = "enter"
  /\ \/ /\ May("alloc") \/ (TargetIsDir /\ ~IsDir(<<>>))
        /\ Return(<<"err">>)
     \/ /\ TargetIsDir => IsDir(<<>>)
        /\ SetHere([Here EXCEPT !.isdir = IsDir(Here.targ)])
        /\ spc' = "read" /\ Respond("ok")
  /\ UNCHANGED <<clientVars, c2s, up, file, dst, given>>

\* A control record that begins the next line.
Reads(kind) == spc = "read" /\ c2s # <<>> /\ Head(c2s).kind = kind /\ c2s' = Tail(c2s)

ReadEnd ==
  /\ spc = "read" /\ c2s = <<>> /\ ClientGone
  /\ Return(<<>>)
  /\ UNCHANGED <<clientVars, c2s, up, file, dst, given>>

ReadExit ==
  /\ Reads("E") /\ Return(<<"ok">>)
  /\ UNCHANGED <<clientVars, up, file, dst, given>>

ReadTimes ==
  /\ Reads("T") /\ Respond("ok")
  /\ SetHere([Here EXCEPT !.setimes = TRUE])
  /\ UNCHANGED <<clientVars, up, spc, file, dst, given>>

\* Any other line: "expected control record", and the level ends.  The line goes on
\* to the end of the next record; file data is taken to hold no newline and not to
\* look like a record.
LineEnds(k) == c2s[k].kind \in Controls \cup {"tail"}
ReadGarbage ==
  /\ spc = "read" /\ c2s # <<>> /\ Head(c2s).kind \notin Controls
  /\ \/ \E k \in DOMAIN c2s : /\ LineEnds(k) /\ \A j \in 1..(k - 1) : ~LineEnds(j)
                             /\ c2s' = SubSeq(c2s, k + 1, Len(c2s))
     \/ ClientGone /\ (\A k \in DOMAIN c2s : ~LineEnds(k)) /\ c2s' = <<>>
  /\ Return(<<"err">>)
  /\ UNCHANGED <<clientVars, up, file, dst, given>>

\* Where a file is put: below the target, or in its place if it is no directory.
DestinationFlat(record) ==   \* the first target, at every depth
  IF Here.isdir THEN stack[1].targ \o record.name ELSE Here.targ
Destination(record) == IF Here.isdir THEN Here.targ \o record.name ELSE Here.targ

RefuseLeaving == Return(<<"err">>) /\ UNCHANGED <<file, dst>>   \* a break for the continue
Refuse == spc' = "read" /\ Respond("err") /\ UNCHANGED <<stack, file, dst>>

ReadDirectory ==
  /\ Reads("D")
  /\ LET np == Destination(Head(c2s)) IN
     \/ /\ \/ May("alloc") /\ Here.isdir
           \/ np \in DOMAIN dst /\ ~IsDir(np)
           \/ np \notin DOMAIN dst /\ May("mkdir")
        /\ Refuse
     \/ /\ np \in DOMAIN dst => IsDir(np)
        /\ Place(np, Directory)
        /\ stack' = Append(stack, [targ |-> np, isdir |-> FALSE, setimes |-> FALSE])
        /\ spc' = "enter" /\ UNCHANGED <<s2c, file>>
  /\ UNCHANGED <<clientVars, up, given>>

\* A file is opened without truncating it, and acknowledged before _allocbuf.
ReadFile ==
  /\ Reads("C")
  /\ LET np == Destination(Head(c2s)) IN
     \/ /\ (May("alloc") /\ Here.isdir) \/ IsDir(np) \/ May("open")
        /\ Refuse
     \/ /\ ~IsDir(np)
        /\ Place(np, IF np \in DOMAIN dst THEN dst[np] ELSE Regular(<<>>))
        /\ \/ /\ spc' = "data" /\ Respond("ok")
              /\ file' = [path |-> np, size |-> Head(c2s).size, got |-> 0, wrerr |-> "no"]
           \/ /\ May("alloc")
              /\ spc' = "read" /\ Answer(<<"ok", "err">>) /\ UNCHANGED file
        /\ UNCHANGED stack
  /\ UNCHANGED <<clientVars, up, given>>

\* A cell of data, whatever it really is; after a failed write only counted.
Overwrite(data, k, cell) ==
  IF k \in DOMAIN data THEN [data EXCEPT ![k] = cell] ELSE Append(data, cell)

ReadData ==
  /\ spc = "data" /\ file.got < file.size
  /\ \/ /\ c2s # <<>> /\ c2s' = Tail(c2s)
        /\ \/ /\ file.wrerr = "no"
              /\ Place(file.path,
                       Regular(Overwrite(dst[file.path].data, file.got + 1, Head(c2s))))
              /\ file' = [file EXCEPT !.got = @ + 1]
           \/ /\ file.wrerr = "yes" \/ May("write")
              /\ file' = [file EXCEPT !.got = @ + 1, !.wrerr = "yes"]
              /\ UNCHANGED dst
        /\ UNCHANGED <<s2c, spc, stack>>
     \/ /\ c2s = <<>> /\ ClientGone
        /\ Return(<<"err">>) /\ UNCHANGED <<c2s, file, dst>>
  /\ UNCHANGED <<clientVars, up, given>>

\* ftruncate cuts the file to its size, or extends it with zeros.
Hole == Plain("hole")
ResizedUncut(data, size) ==   \* without ftruncate
  [k \in DOMAIN data \cup 1..size |-> IF k \in DOMAIN data THEN data[k] ELSE Hole]
Resized(data, size) == [k \in 1..size |-> IF k \in DOMAIN data THEN data[k] ELSE Hole]

Truncate ==
  /\ spc = "data" /\ file.got = file.size
  /\ spc' = "response"
  /\ \/ /\ Place(file.path, Regular(Resized(dst[file.path].data, file.size)))
        /\ UNCHANGED <<s2c, file>>
     \/ /\ May("truncate")
        /\ Respond("err") /\ file' = [file EXCEPT !.wrerr = "displayed"] /\ UNCHANGED dst
  /\ UNCHANGED <<clientVars, c2s, up, stack, given>>

\* The client's mark at the end of the data: one byte, zero or wrong.
EndMark ==
  /\ spc = "response" /\ c2s # <<>> /\ Head(c2s).kind = "nul" /\ c2s' = Tail(c2s)
  /\ spc' = "read"
  /\ \/ /\ Here.setimes /\ file.wrerr = "no"
        /\ SetHere([Here EXCEPT !.setimes = FALSE])
        /\ \/ Respond("ok")
           \/ May("times") /\ Respond("err")
     \/ /\ ~(Here.setimes /\ file.wrerr = "no")
        /\ Answer(CASE file.wrerr = "yes" -> <<"err">>
                    [] file.wrerr = "no" -> <<"ok">>
                    [] file.wrerr = "displayed" -> <<>>)
        /\ UNCHANGED stack
  /\ UNCHANGED <<clientVars, up, file, dst, given>>

NoEndMark ==
  /\ spc = "response"
  /\ \/ /\ c2s # <<>> /\ Head(c2s).kind # "nul"
        /\ c2s' = (IF Head(c2s).kind = "data" THEN <<Head(c2s)>> ELSE <<Plain("tail")>>)
                     \o Tail(c2s)
     \/ c2s = <<>> /\ ClientGone /\ UNCHANGED c2s
  /\ Return(<<"err">>)
  /\ UNCHANGED <<clientVars, up, file, dst, given>>

Server == \/ Enter \/ ReadEnd \/ ReadExit \/ ReadTimes \/ ReadGarbage \/ ReadDirectory
          \/ ReadFile \/ ReadData \/ Truncate \/ EndMark \/ NoEndMark

\* The connection breaks; of what is under way any first part still arrives.
Drop ==
  /\ May("drop") /\ up /\ up' = FALSE
  /\ \E m \in 0..Len(c2s), n \in 0..Len(s2c) :
       c2s' = SubSeq(c2s, 1, m) /\ s2c' = SubSeq(s2c, 1, n)
  /\ UNCHANGED <<clientVars, serverVars, given>>

Next == Client \/ Server \/ Drop

Spec == Init /\ [][Next]_vars

\* Each side takes its next step when it can: a read returns when there is something
\* to read or the other side is gone, and nothing else blocks.
FairSpec == Spec /\ WF_vars(Client) /\ WF_vars(Server)

-----------------------------------------------------------------------------
(* Properties.                                                             *)

Calls == [targ : Seq(Pieces), isdir : BOOLEAN, setimes : BOOLEAN]
Wrerr == {"no", "yes", "displayed"}

\* Both programs keep to their places and types.
TypeOK ==
  /\ cpc \in {"expand", "greet", "next", "exit", "times", "control", "open", "ack",
              "done", "died"}
  /\ i \in 0..(Len(List) + 1) /\ told \subseteq 0..Len(List)
  /\ c2s \in Seq(Cells) /\ s2c \in Seq({"ok", "err"}) /\ up \in BOOLEAN
  /\ spc \in {"enter", "read", "data", "response", "done"}
  /\ stack \in Seq(Calls) /\ (spc = "done") = (stack = <<>>)
  /\ file \in [path : Seq(Pieces), size : Nat, got : Nat, wrerr : Wrerr]
  /\ file.got <= file.size
  /\ \A p \in DOMAIN dst : dst[p] \in Nodes
  /\ mode \in Modes /\ dst0 \in Targets

Settled == cpc \in {"done", "died"} /\ spc = "done"

\* Where a source path belongs, and whether it is there.
Site(p) ==
  IF ~WasDir THEN <<>>
  ELSE [p EXCEPT ![1] = SentFor(p[1])]
Delivered(p) ==
  /\ Site(p) \in DOMAIN dst
  /\ dst[Site(p)] = Regular([k \in 1..Size[p] |-> DataCell(p, k)])
FileEntries == {k \in DOMAIN List : List[k].path \in Files}

\* Failures the protocol is built for: each is answered where an answer is expected.
Independent == {"vanish", "open", "write", "truncate", "times", "drop"}
\* Two more that the protocol is not built for: a directory that cannot be made because
\* a file is in its way, and a file below a directory that cannot be read.
InTheWay(d) == Site(d) \in DOMAIN dst0 \ {<<>>} /\ dst0[Site(d)].kind = "file"
Sound == /\ mode.faults \subseteq Independent /\ Unreadable \subseteq Checked
         /\ \A d \in Dirs : ~InTheWay(d)

\* A copy that ends, over a connection that lasts, without the client having printed
\* an error has stored every file, whatever failed (pcp_client.c:387 looks at no
\* result, so the messages are all the user gets); and whatever fails, _sink calls
\* itself no deeper than the list has directories to send.
SilenceMeansSuccess ==
  /\ Settled /\ up /\ told = {} => \A k \in FileEntries : Delivered(List[k].path)
  /\ Len(stack) <= Cardinality({k \in DOMAIN List : List[k].path \in Dirs}) + 1

\* With independent failures each file is stored as it is, or an error was printed for
\* this very file: one that failed does not harm another (pcp_server.c:372-457).
DeliveredOrReported ==
  Settled /\ up /\ Sound =>
    \A k \in FileEntries : Delivered(List[k].path) \/ told \cap {0, k} # {}

\* With independent failures a path holds only what it held before and what was sent
\* for it, cell by cell: the data of a file never lands in another, or after an E in
\* the wrong directory (pcp_server.c:257-260, 405-427).
OwnContent ==
  Sound => \A q \in DOMAIN dst : \A k \in DOMAIN dst[q].data :
    LET cell == dst[q].data[k] IN
    \/ cell = Hole
    \/ q \in DOMAIN dst0 /\ k \in DOMAIN dst0[q].data /\ cell = dst0[q].data[k]
    \/ \E p \in Files : Site(p) = q /\ cell = DataCell(p, k)

\* With independent failures the two sides stay in step: one answer to each request,
\* a record where the server looks for one, data of this file where it looks for data,
\* and as many calls of _sink as the client believes (pcp_client.c:128-132).
Depth == Cardinality({k \in 1..(i - 1) : List[k].path \in Dirs})
           - Cardinality({k \in 1..(i - 1) : List[k] = ExitMark})
InStep ==
  /\ TypeOK
  /\ Sound =>
       /\ cpc = "next" /\ up => s2c = <<>>
       /\ spc = "read" /\ c2s # <<>> => Head(c2s).kind \in Controls
       /\ spc = "data" /\ file.got < file.size /\ c2s # <<>> => Head(c2s).kind = "data"
       /\ cpc = "next" /\ up /\ ~ServerGone => Len(stack) = Depth + 1

\* With independent failures both sides come to an end.
Terminates == Sound => <>Settled

=============================================================================
