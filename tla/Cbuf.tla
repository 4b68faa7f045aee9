-------------------------------- MODULE Cbuf --------------------------------
(***************************************************************************)
(* The circular buffers of pdsh (src/src/pdsh/cbuf.c): an array of size+1  *)
(* bytes with three indices.  Bytes from i_rep to i_out have been read and *)
(* can be replayed, those from i_out to i_in are unread, and one byte at   *)
(* least between i_in and i_rep is free.                                   *)
(*                                                                         *)
(* Every operation runs under the buffer's mutex, so it is one action.     *)
(* A buffer is a record; operations are functions of records, because some *)
(* operations of the code are sequences of others.                         *)
(***************************************************************************)
EXTENDS Integers, Sequences, FiniteSets

CONSTANTS
  Bytes, NL,       \* the bytes written, and the newline among them
  Junk,            \* what memory holds before it is written
  MinSize, MaxSize,
  Chunk,           \* CBUF_CHUNK
  Meta,            \* alloc - size: the sentinel and, with assertions, the cookies
  MayFail,         \* realloc may fail
  MaxWrite         \* bound on the length of one write

ASSUME CbufAssumption ==
  /\ NL \in Bytes /\ Junk \notin Bytes
  /\ MinSize \in Nat \ {0} /\ MaxSize \in Nat /\ MinSize <= MaxSize
  /\ Chunk \in Nat \ {0} /\ Meta \in Nat \ {0}
  /\ MayFail \in BOOLEAN
  /\ MaxWrite \in Nat \ {0}

VARIABLE cb

Overwrites == {"NO_DROP", "WRAP_ONCE", "WRAP_MANY"}
Strings == UNION {[1..n -> Bytes] : n \in 1..MaxWrite}

Smaller(a, b) == IF a <= b THEN a ELSE b
Larger(a, b)  == IF a <= b THEN b ELSE a
Keep(n, s) == IF Len(s) <= n THEN s ELSE SubSeq(s, Len(s) - n + 1, Len(s))

-----------------------------------------------------------------------------
(* Reading the indices. *)

Reused(c) == (c.i_out - c.i_rep + c.size + 1) % (c.size + 1)
Free(c)   == c.size - c.used

\* The n bytes from index i on, which is what the copying loops of the readers see.
Region(c, i, n) == [k \in 1..n |-> c.data[(i + k - 1) % (c.size + 1)]]

Unread(c) == Region(c, c.i_out, c.used)
Replay(c) == Region(c, c.i_rep, Reused(c))

-----------------------------------------------------------------------------
(* cbuf_create, cbuf_flush, cbuf_opt_set. *)

Created ==
  [size |-> MinSize, used |-> 0, overwrite |-> "WRAP_MANY", got_wrap |-> FALSE,
   i_in |-> 0, i_out |-> 0, i_rep |-> 0, data |-> [i \in 0..MinSize |-> Junk]]

Init == cb = Created

Flush == cb' = [cb EXCEPT !.used = 0, !.got_wrap = FALSE, !.i_in = 0, !.i_out = 0,
                          !.i_rep = 0]

OptSet(value) == cb' = [cb EXCEPT !.overwrite = value]

-----------------------------------------------------------------------------
(* Moving i_out: cbuf_dropper, cbuf_rewind. *)

Dropped(c, n) == [c EXCEPT !.used = @ - n, !.i_out = (@ + n) % (c.size + 1)]

\* Wrong: the unread bytes are not counted again.
RewoundUncounted(c, n) == [c EXCEPT !.i_out = (@ - n + c.size + 1) % (c.size + 1)]

Rewound(c, n) ==
  [c EXCEPT !.used = @ + n, !.i_out = (@ - n + c.size + 1) % (c.size + 1)]

-----------------------------------------------------------------------------
(* cbuf_grow: to a multiple of the chunk, at most to MaxSize.               *)

GrownSize(c, n) ==
  LET m == c.size + Meta + n
  IN Smaller(m + (Chunk - (m % Chunk)), MaxSize + Meta) - Meta

\* Wrong: the unread bytes behind i_rep stay where they were.
GrownToStale(c, s) ==
  LET d == s - c.size
      rep == IF c.i_rep > c.i_in THEN c.i_rep + d ELSE c.i_rep
  IN [c EXCEPT !.size = s, !.i_rep = rep,
               !.data = [i \in 0..s |-> IF c.i_rep > c.i_in /\ i >= rep THEN c.data[i - d]
                                        ELSE IF i <= c.size THEN c.data[i] ELSE Junk]]

\* Data that wraps around the old end moves to the new one.
GrownTo(c, s) ==
  LET d == s - c.size
      wraps == c.i_rep > c.i_in
      rep == IF wraps THEN c.i_rep + d ELSE c.i_rep
      out == IF wraps /\ c.i_out >= c.i_rep THEN c.i_out + d ELSE c.i_out
  IN [c EXCEPT !.size = s, !.i_out = out, !.i_rep = rep,
               !.data = [i \in 0..s |-> IF wraps /\ i >= rep THEN c.data[i - d]
                                        ELSE IF i <= c.size THEN c.data[i] ELSE Junk]]

\* The buffer after the attempt to make room for len bytes.
Grown(c, len) ==
  IF len > Free(c) /\ c.size < MaxSize
    THEN {GrownTo(c, GrownSize(c, len - Free(c)))} \cup (IF MayFail THEN {c} ELSE {})
    ELSE {c}

-----------------------------------------------------------------------------
(* cbuf_writer and cbuf_copier. *)

\* How many of len bytes the overwrite option lets in.
Accepted(c, len) ==
  CASE c.overwrite = "NO_DROP"   -> Smaller(len, Free(c))
    [] c.overwrite = "WRAP_ONCE" -> Smaller(len, c.size)
    [] OTHER                     -> len

\* The array with s written from i_in on, wrapping as often as it takes: cell i gets
\* the last byte that falls on it.
WrittenData(c, s) ==
  [i \in 0..c.size |->
     LET k == Len(s) - ((c.i_in + Len(s) + c.size - i) % (c.size + 1))
     IN IF k >= 1 THEN s[k] ELSE c.data[i]]

\* Bytes s have been copied in: advance i_in, and push what they overwrote.
Stored(c, s) ==
  LET n == Len(s)
      in == (c.i_in + n) % (c.size + 1)
      wraps == n > Free(c) - Reused(c)
      rep == IF wraps THEN (in + 1) % (c.size + 1) ELSE c.i_rep
  IN [c EXCEPT !.used = Smaller(@ + n, c.size), !.i_in = in, !.got_wrap = @ \/ wraps,
               !.i_rep = rep, !.i_out = IF n > Free(c) THEN rep ELSE @,
               !.data = WrittenData(c, s)]

\* What a write returns: the buffer, its return value, and *ndropped.
Result(c, ret, lost) == [cb |-> c, ret |-> ret, lost |-> lost]

\* Wrong: the loss is computed from the room that is left after the write.
WriterResultAfter(g, s) ==
  IF s = <<>> THEN Result(g, -1, 0)
  ELSE Result(Stored(g, s), Len(s), Larger(0, Len(s) - Free(Stored(g, s))))

\* cbuf_writer, when n bytes s of those asked for could be had.
WriterResult(g, s) ==
  IF s = <<>> THEN Result(g, -1, 0)
  ELSE Result(Stored(g, s), Len(s), Larger(0, Len(s) - Free(g)))

\* cbuf_writer from memory: all that is accepted of s is copied.
Written(c, s) ==
  {WriterResult(g, SubSeq(s, 1, Accepted(g, Len(s)))) : g \in Grown(c, Len(s))}

\* cbuf_copier: of more than size bytes only the last ones are copied.
Copied(c, s) ==
  {LET n == Accepted(g, Len(s))
   IN IF n = 0 THEN Result(g, -1, 0)
      ELSE Result(Stored(g, Keep(g.size, SubSeq(s, 1, n))), n, Larger(0, n - Free(g)))
   : g \in Grown(c, Len(s))}

\* cbuf_write_line, for a string s with or without its newline: all or nothing,
\* cut at the front to what the buffer holds, the newline written last.
WrittenLine(c, s) ==
  LET missing == s = <<>> \/ s[Len(s)] # NL
      len == IF missing THEN Len(s) + 1 ELSE Len(s)
      written(g) ==
        LET cutBytes == Larger(0, len - g.size)
            copied == IF Len(s) = cutBytes THEN {Result(g, 0, 0)}
                      ELSE Written(g, SubSeq(s, cutBytes + 1, Len(s)))
        IN UNION {IF missing
                    THEN {Result(v.cb, len, cutBytes + w.lost + v.lost) : v \in Written(w.cb, <<NL>>)}
                    ELSE {Result(w.cb, len, cutBytes + w.lost)} : w \in copied}
  IN UNION {IF Accepted(g, len) < len THEN {Result(g, -1, 0)} ELSE written(g)
              : g \in Grown(c, len)}

-----------------------------------------------------------------------------
(* Looking for lines.  Both loops visit byte(1), byte(2), ... until they    *)
(* have seen chars bytes (for lines = -1) or enough newlines.               *)

Largest(S) ==
  IF \E m \in S : \A n \in S : n <= m THEN CHOOSE m \in S : \A n \in S : n <= m ELSE 0

\* Wrong: the limits are not looked at.
VisitedAll(all, stops) == all

\* How many of `all' bytes the loop visits.
Visited(all, stops) ==
  IF stops = {} THEN all ELSE CHOOSE n \in stops : \A k \in stops : n <= k

Nothing == [m |-> 0, l |-> 0]

\* cbuf_find_unread_line: m bytes, l lines.
FindUnread(c, chars, lines) ==
  LET byte(n) == c.data[(c.i_out + n - 1) % (c.size + 1)]
      newlines(n) == {k \in 1..c.used : k <= n /\ byte(k) = NL}
      stops == {n \in 1..c.used : IF lines = -1 THEN n = chars
                                  ELSE Cardinality(newlines(n)) = lines}
      end == Visited(c.used, stops)
  IN IF lines = 0 \/ (lines = -1 /\ chars <= 0) \/ (lines > 0 /\ stops = {})
       THEN Nothing
       ELSE [m |-> Largest(newlines(end)), l |-> Cardinality(newlines(end))]

\* Wrong: the first byte still there is always taken for the start of a line.
WholeStartAlways(c, stops) == stops = {}

\* The loop reached a first byte that nothing has been written before.
WholeStart(c, stops) == ~c.got_wrap /\ stops = {}

\* cbuf_find_replay_line: backwards from i_out.  A line is complete with the newline
\* before it.  The newline at the very end is one more to pass; if it is missing
\* it takes one of the chars.
FindReplay(c, chars, lines) ==
  LET all == Reused(c)
      byte(n) == c.data[(c.i_out - n + c.size + 1) % (c.size + 1)]
      newlines(n) == {k \in 1..all : k <= n /\ byte(k) = NL}
      closed == byte(1) = NL
      stops == {n \in 1..all : IF lines = -1 THEN n = IF closed THEN chars + 1 ELSE chars
                               ELSE Cardinality(newlines(n)) = IF closed THEN lines + 1
                                                               ELSE lines}
      end == Visited(all, stops)
      whole == WholeStart(c, stops)
      passed == Cardinality(newlines(end)) + (IF whole THEN 1 ELSE 0)
      found == IF closed THEN passed - 1 ELSE passed
  IN IF lines = 0 \/ (lines = -1 /\ chars <= 0) \/ all = 0 \/ found < lines
       THEN Nothing
       ELSE [m |-> IF whole THEN all ELSE Larger(0, Largest(newlines(end)) - 1),
             l |-> found]

LinesUsed(c)   == FindUnread(c, c.size, -1).l
LinesReused(c) == FindReplay(c, c.size, -1).l

-----------------------------------------------------------------------------
(* The operations.  len = -1 stands for all there is.                       *)

\* cbuf_drop, and cbuf_read for len >= 0.
Drop(len) ==
  cb' = Dropped(cb, IF len = -1 THEN cb.used ELSE Smaller(len, cb.used))

\* cbuf_read_to_fd: the descriptor may take less, or nothing.
ReadToFd(len) ==
  \E n \in 0..(IF len = -1 THEN cb.used ELSE Smaller(len, cb.used)) : cb' = Dropped(cb, n)

Rewind(len) ==
  cb' = Rewound(cb, IF len = -1 THEN Reused(cb) ELSE Smaller(len, Reused(cb)))

DropLine(len, lines) == cb' = Dropped(cb, FindUnread(cb, len, lines).m)

\* cbuf_read_line: one of the len bytes is for the terminating zero.
ReadLine(len, lines) == cb' = Dropped(cb, FindUnread(cb, len - 1, lines).m)

RewindLine(len, lines) == cb' = Rewound(cb, FindReplay(cb, len, lines).m)

Write(s) == \E w \in Written(cb, s) : cb' = w.cb

WriteLine(s) == \E w \in WrittenLine(cb, s) : cb' = w.cb

\* cbuf_copy and cbuf_move, s being unread in the other buffer; of which cbuf_move
\* drops as many bytes as were copied (Drop).
CopyIn(s) == \E w \in Copied(cb, s) : cb' = w.cb

\* cbuf_write_from_fd: any part of what was asked for may arrive.
WriteFromFd(len) ==
  LET want == IF len # -1 THEN len
              ELSE IF Free(cb) = 0 THEN Smaller(cb.size, Chunk) ELSE Free(cb)
  IN \E g \in Grown(cb, want) : \E n \in 0..Accepted(g, want) :
       \E s \in [1..n -> Bytes] : cb' = WriterResult(g, s).cb

Next ==
  \/ Flush
  \/ \E value \in Overwrites : OptSet(value)
  \/ \E len \in -1..MaxSize : Drop(len) \/ ReadToFd(len) \/ Rewind(len)
  \/ \E len \in 0..MaxSize + 2, lines \in -1..MaxSize + 1 :
       DropLine(len, lines) \/ ReadLine(len, lines) \/ RewindLine(len, lines)
  \/ \E s \in Strings : Write(s) \/ WriteLine(s) \/ CopyIn(s)
  \/ WriteLine(<<>>)
  \/ \E len \in {-1} \cup 1..MaxWrite : WriteFromFd(len)

Spec == Init /\ [][Next]_cb

-----------------------------------------------------------------------------
(* Properties. *)

Arrays == UNION {[0..s -> Bytes \cup {Junk}] : s \in MinSize..MaxSize}
Buffers == [size : Nat, used : Nat, overwrite : Overwrites, got_wrap : BOOLEAN,
            i_in : Nat, i_out : Nat, i_rep : Nat, data : Arrays]

Fields(c) ==
  /\ c \in Buffers
  /\ c.size \in MinSize..MaxSize
  /\ c.used \in 0..c.size
  /\ c.i_in \in 0..c.size /\ c.i_out \in 0..c.size /\ c.i_rep \in 0..c.size
  /\ c.data \in [0..c.size -> Bytes \cup {Junk}]

Indices(c) ==
  /\ c.got_wrap \/ c.i_rep = 0
  /\ IF c.i_in >= c.i_out
       THEN c.i_rep > c.i_in \/ c.i_rep <= c.i_out
       ELSE c.i_rep > c.i_in /\ c.i_rep <= c.i_out
  /\ Free(c) = (c.i_out - c.i_in - 1 + (c.size + 1)) % (c.size + 1)

TypeOK == Fields(cb)

\* cbuf_is_valid, which the code asserts around every operation: the order of the
\* three indices, and that used agrees with them.
IndexValid == Indices(cb)

\* Whatever the indices do, the bytes behave as the log cbuf.h describes: nothing
\* unwritten is ever read, nothing is lost but the oldest, growing keeps it all.
Log == INSTANCE CbufLog WITH replay <- Replay(cb), unread <- Unread(cb),
         cut <- cb.got_wrap, size <- cb.size, overwrite <- cb.overwrite,
         MaxWrite <- Larger(MaxWrite + 1, MaxSize)   \* a newline more, or all the room
KeepsLog == Log!Spec

\* The loop over the unread bytes finds the lines that FirstLines defines.
ForwardLines ==
  /\ LinesUsed(cb) = Cardinality(Log!NLs(Unread(cb)))
  /\ \A len \in 0..MaxSize + 2, lines \in {-1} \cup 1..MaxSize + 1 :
       FindUnread(cb, len, lines).m = Log!FirstLines(Unread(cb), len, lines)

\* The loop back over the replay bytes finds the lines that LastLines defines, and
\* cbuf_lines_reused counts no line that cannot be rewound.
BackwardLines ==
  \A len \in 0..MaxSize + 2, lines \in {-1} \cup 1..MaxSize + 1 :
    /\ FindReplay(cb, len, lines).m = Log!LastLines(Replay(cb), len, lines)
    /\ lines \in 1..LinesReused(cb) => FindReplay(cb, 0, lines).m > 0

\* A write reports as dropped what went in or was there and is not there after it.
LossCounted ==
  \A s \in Strings : \A w \in Written(cb, s) \cup Copied(cb, s) \cup WrittenLine(cb, s) :
    w.lost = IF w.ret = -1 THEN 0 ELSE cb.used + w.ret - w.cb.used

=============================================================================
