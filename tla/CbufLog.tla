------------------------------ MODULE CbufLog ------------------------------
(***************************************************************************)
(* What a circular buffer promises (src/src/pdsh/cbuf.h): a log of bytes   *)
(* cut in two, those read and kept for replay and those not read yet.      *)
(* Reading moves the cut forward, rewinding moves it back.  Writing        *)
(* appends; when the buffer is full the oldest bytes leave, replayed ones  *)
(* before unread ones, and unread ones only as the overwrite option says   *)
(* and after the buffer has grown as far as it may.                        *)
(***************************************************************************)
EXTENDS Integers, FiniteSets, Sequences

CONSTANTS
  Bytes, NL,       \* the bytes written, and the newline among them
  MinSize, MaxSize,
  MayFail,         \* growing may fail for lack of memory
  MaxWrite         \* bound on the length of one write

VARIABLES
  replay, unread,  \* the log, oldest byte first
  cut,             \* its first byte is not the first one ever written
  size,            \* how many bytes it can hold now
  overwrite

vars == <<replay, unread, cut, size, overwrite>>

Overwrites == {"NO_DROP", "WRAP_ONCE", "WRAP_MANY"}
Log == replay \o unread

Keep(n, s) == IF Len(s) <= n THEN s ELSE SubSeq(s, Len(s) - n + 1, Len(s))
Front(n, s) == SubSeq(s, 1, n)
Back(n, s) == SubSeq(s, n + 1, Len(s))
Strings == UNION {[1..n -> Bytes] : n \in 1..MaxWrite}

Init == replay = <<>> /\ unread = <<>> /\ cut = FALSE /\ size = MinSize
        /\ overwrite = "WRAP_MANY"

Flush == replay' = <<>> /\ unread' = <<>> /\ cut' = FALSE /\ UNCHANGED <<size, overwrite>>

SetOverwrite == overwrite' \in Overwrites /\ UNCHANGED <<replay, unread, cut, size>>

\* The cut moves; no byte does.
Move == \E n \in 0..Len(Log) :
          /\ replay' = Front(n, Log) /\ unread' = Back(n, Log)
          /\ UNCHANGED <<cut, size, overwrite>>

Grow == size' \in size..MaxSize /\ UNCHANGED <<replay, unread, cut, overwrite>>

\* n is the size when the bytes went in; the buffer may grow once more after growing
\* has failed.
Push(s) == \E n \in size..MaxSize :
  /\ size' \in n..MaxSize /\ (size' = n \/ MayFail)
  /\ overwrite = "NO_DROP" => Len(unread) + Len(s) <= n
  /\ overwrite = "WRAP_ONCE" => Len(s) <= n
  /\ Len(unread) + Len(s) > n => n = MaxSize \/ MayFail
  /\ unread' = Keep(n, unread \o s)
  /\ replay' = Keep(n - Len(unread'), replay)
  /\ cut' = (cut \/ Len(Log) + Len(s) > n)
  /\ UNCHANGED overwrite

Next == Flush \/ SetOverwrite \/ Move \/ Grow \/ \E s \in Strings : Push(s)

Spec == Init /\ [][Next]_vars

-----------------------------------------------------------------------------
(* Lines: what the arguments len and lines of the line operations select.  *)

NLs(s) == {i \in 1..Len(s) : s[i] = NL}

\* The largest element of a finite set of numbers, or zero.
Largest(S) == IF S = {} THEN 0 ELSE CHOOSE m \in S : \A n \in S : n <= m

CountTo(s, n) == Cardinality({i \in NLs(s) : i <= n})

\* How many bytes of u the first `lines' lines are, or, for -1, the lines that
\* fit in len bytes.  Only terminated lines count; too few of them give 0.
FirstLines(u, len, lines) ==
  Largest({n \in NLs(u) : IF lines = -1 THEN n <= len ELSE CountTo(u, n) = lines})

\* How many bytes of r the last `lines' lines are, or, for -1, the lines that fit
\* in len bytes.  The last line may be unterminated (the newline it lacks takes
\* one of the len bytes), the first must begin in r.
LastLines(r, len, lines) ==
  LET open == IF r # <<>> /\ r[Len(r)] # NL THEN 1 ELSE 0
      starts == {p \in 1..Len(r) : IF p = 1 THEN ~cut ELSE r[p - 1] = NL}
      linesFrom(p) == Cardinality({i \in NLs(r) : i >= p}) + open
      bytesFrom(p) == Len(r) - p + 1
  IN Largest({bytesFrom(p) : p \in {q \in starts :
                IF lines = -1 THEN bytesFrom(q) + open <= len ELSE linesFrom(q) = lines}})
=============================================================================
