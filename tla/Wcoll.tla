------------------------------- MODULE Wcoll -------------------------------
(***************************************************************************)
(* Reading a file of target hosts (src/src/pdsh/wcoll.c): one line at a    *)
(* time, with #include files searched for in the directories of the path   *)
(* and each of them read once - as far as the path it was found under can  *)
(* tell. The files that are open are a stack, the C recursion of           *)
(* wcoll_ctx_read_file.                                                    *)
(*                                                                         *)
(* A line is what fgets returns for one: of more than 2047 characters,     *)
(* that is of LINEBUFSIZE, it is several, the rest of a long comment hosts *)
(* (wcoll.c:232). A host is a number, its place in the order hostlists     *)
(* sort by.                                                                *)
(***************************************************************************)
EXTENDS Naturals, SequencesExt

CONSTANTS
  Host,       \* the host names
  Name,       \* file names as they are written, and the paths they are found under
  Path,       \* search paths
  Resolve,    \* Resolve[p][n]: the path under which name n is found in p, or NoFile
  PathOf,     \* PathOf[n]: the search path that holds the directory of n only
  FileAt,     \* FileAt[n]: the file that can be read under the path n, or NoFile
  Text,       \* Text[f]: the lines of file f, as fgets returns them
  Stdin       \* the file that pdsh's standard input is

NoFile == "no file"

ASSUME WcollAssumption ==
  /\ Host \subseteq Nat /\ IsFiniteSet(Name) /\ Resolve \in [Path -> [Name -> Name \cup {NoFile}]]
  /\ PathOf \in [Name -> Path] /\ NoFile \notin Name \cup DOMAIN Text
  /\ FileAt \in [Name -> DOMAIN Text \cup {NoFile}] /\ "-" \in Name /\ Stdin \in DOMAIN Text
  /\ \A f \in DOMAIN Text : Text[f] \in Seq(ToSet(Text[f]))
  /\ \A f \in DOMAIN Text : \A k \in DOMAIN Text[f] : LET line == Text[f][k] IN
       \/ line.kind = "hosts" /\ line.hosts \in Seq(Host)
       \/ line.kind = "include" /\ line.name \in Name
       \/ line.kind = "comment"

VARIABLES
  reader,          \* "idle", "reading", "read" or "failed"
  path_list,       \* the search path of the context
  include_cache,   \* the paths of the files included so far
  stack,           \* the open files, each with the number of lines read
  hl,              \* the hosts read so far
  stdin_read,      \* standard input has been read to its end
  opened           \* the paths opened since the reading began: history
wcvars == <<reader, path_list, include_cache, stack, hl, stdin_read, opened>>

WcollInit ==
  /\ reader = "idle" /\ path_list = PathOf["-"] /\ include_cache = {} /\ stack = <<>>
  /\ hl = <<>> /\ stdin_read = FALSE /\ opened = <<>>

----------------------------------------------------------------------------
FileOf(n) == IF n = "-" THEN Stdin ELSE FileAt[n]
Frame(f) == [file |-> f, next |-> 1]
Top == Last(stack)
NotBelow(s) == s       \* mutant: the end of a file is not seen
Below(s) == Front(s)
Line == Text[Top.file][Top.next]
Stepped == [stack EXCEPT ![Len(stack)].next = @ + 1]

\* A file that cannot be read ends pdsh.
Fail == reader' = "failed" /\ UNCHANGED <<path_list, include_cache, stack, hl, stdin_read, opened>>

\* read_wcoll: the file itself does not go into the cache.
ReadWcoll(n) ==
  LET f == FileOf(n)
      again == n = "-" /\ stdin_read
  IN \/ f = NoFile /\ Fail
     \/ /\ f # NoFile /\ reader' = "reading" /\ path_list' = PathOf[n] /\ include_cache' = {}
        /\ stack' = (IF again THEN <<>> ELSE <<Frame(f)>>) /\ hl' = <<>>
        /\ opened' = (IF again THEN <<>> ELSE <<n>>) /\ UNCHANGED stdin_read

Readable(s) == s # NoFile /\ FileAt[s] # NoFile

\* read_wcoll_path, for a file of which only the name is known: it does.
ReadWcollPath(p, n) ==
  LET s == Resolve[p][n] IN
    \/ ~Readable(s) /\ Fail
    \/ /\ Readable(s) /\ reader' = "reading" /\ path_list' = p
       /\ stack' = <<Frame(FileAt[s])>> /\ include_cache' = {s} /\ hl' = <<>>
       /\ opened' = <<s>> /\ UNCHANGED stdin_read

Reading == reader = "reading" /\ stack # <<>> /\ Top.next <= Len(Text[Top.file])

ReadHosts ==
  /\ Reading /\ Line.kind = "hosts" /\ hl' = hl \o Line.hosts /\ stack' = Stepped
  /\ UNCHANGED <<reader, path_list, include_cache, stdin_read, opened>>

\* A comment, or an #include that names no file or more than one.
ReadComment ==
  /\ Reading /\ Line.kind = "comment" /\ stack' = Stepped
  /\ UNCHANGED <<reader, path_list, include_cache, hl, stdin_read, opened>>

LastCached(s) == opened # <<>> /\ s = opened[Len(opened)]     \* mutant: only the last one is compared
Cached(s) == s \in include_cache
ReadInclude ==
  /\ Reading /\ Line.kind = "include"
  /\ LET s == Resolve[path_list][Line.name] IN
       \/ /\ Cached(s) /\ stack' = Stepped
          /\ UNCHANGED <<reader, path_list, include_cache, hl, stdin_read, opened>>
       \/ ~Cached(s) /\ ~Readable(s) /\ Fail
       \/ /\ ~Cached(s) /\ Readable(s)
          /\ stack' = Append(Stepped, Frame(FileAt[s])) /\ include_cache' = include_cache \cup {s}
          /\ opened' = Append(opened, s) /\ UNCHANGED <<reader, path_list, hl, stdin_read>>

EndOfFile ==
  /\ reader = "reading" /\ stack # <<>> /\ Top.next > Len(Text[Top.file])
  /\ stack' = Below(stack) /\ stdin_read' = (stdin_read \/ Top.file = Stdin)
  /\ UNCHANGED <<reader, path_list, include_cache, hl, opened>>

EndReading ==
  /\ reader = "reading" /\ stack = <<>> /\ reader' = "read"
  /\ UNCHANGED <<path_list, include_cache, stack, hl, stdin_read, opened>>

WcollNext == ReadHosts \/ ReadComment \/ ReadInclude \/ EndOfFile \/ EndReading

----------------------------------------------------------------------------
Frames == [file : DOMAIN Text, next : Nat]
StackOK(s) ==
  s \in Seq(Frames) /\ \A k \in 1..Len(s) : s[k].next \in 1..(Len(Text[s[k].file]) + 1)
WcollTypeOK ==
  /\ reader \in {"idle", "reading", "read", "failed"} /\ path_list \in Path
  /\ include_cache \subseteq Name /\ hl \in Seq(Host) /\ opened \in Seq(Name)
  /\ stdin_read \in BOOLEAN
  /\ StackOK(stack)

\* wcoll_ctx_read_file's "Detect recursive #include": no path is opened a second time,
\* but for the first one, and so no more files are open than there are paths.
IncludedOnce ==
  /\ \A j, k \in DOMAIN opened : 1 < j /\ j < k => opened[j] # opened[k]
  /\ Len(stack) <= Cardinality(Name) + 1

\* Behind IncludedOnce: every path opened after the first is in the cache, and so is one
\* for every open file after the first.
OpenInv ==
  /\ WcollTypeOK
  /\ \A k \in DOMAIN opened : 1 < k => opened[k] \in include_cache
  /\ \A j, k \in DOMAIN opened : 1 < j /\ j < k => opened[j] # opened[k]
  /\ Len(stack) <= Cardinality(include_cache) + 1

Spelled(p, f) == {Resolve[p][Text[f][k].name] : k \in {j \in DOMAIN Text[f] : Text[f][j].kind = "include"}}
\* The paths that those of S lead to, S among them: as many steps as there are files.
Reached(p, S) ==
  LET steps == Cardinality(DOMAIN Text)
      reach[k \in 0..steps] ==
        IF k = 0 THEN S ELSE reach[k - 1] \cup UNION {Spelled(p, FileAt[s]) : s \in reach[k - 1]}
  IN  reach[steps]

Times(h, s) == Len(SelectSeq(s, LAMBDA g : g = h))
TimesIn(h, f) == FoldLeft(LAMBDA n, line : n + IF line.kind = "hosts" THEN Times(h, line.hosts) ELSE 0, 0, Text[f])

\* Every host of a file is read as often as the file is opened, and the files that are
\* included by those that were read have been read too, in whatever way they include
\* each other.
ReadsWhole == reader = "read" =>
  /\ \A h \in Host : Times(h, hl) = FoldLeft(LAMBDA n, s : n + TimesIn(h, FileOf(s)), 0, opened)
  /\ opened # <<>> => Reached(path_list, Spelled(path_list, FileOf(Head(opened)))) \subseteq ToSet(opened)

=============================================================================
