----------------------------- MODULE CbufProofs -----------------------------
(***************************************************************************)
(* For every minimum and maximum size, every chunk size and writes of      *)
(* every length: the buffer's indices stay valid (cbuf_is_valid), the      *)
(* buffer implements the log CbufLog describes, writes report what they    *)
(* lose, and the searches for lines find the lines the log defines.        *)
(***************************************************************************)
EXTENDS Cbuf, TLAPS, SequenceTheorems, FiniteSetTheorems

Valid(c) == Fields(c) /\ Indices(c)

\* The remainder modulo the array's length is an index.
LEMMA ModRange == ASSUME NEW m \in Nat \ {0}, NEW x \in Int PROVE x % m \in 0..(m - 1)
  OBVIOUS

\* One way around the array is one subtraction.
LEMMA ModOnce ==
  ASSUME NEW m \in Nat \ {0}, NEW x \in 0..(2 * m - 1)
  PROVE  x % m = IF x < m THEN x ELSE x - m
<1>1. CASE x < m
  BY <1>1
<1>2. CASE x >= m
  BY <1>2
<1> QED
  BY <1>1, <1>2

\* What the fields of a valid buffer say about its numbers.
LEMMA Numbers ==
  ASSUME NEW c, Fields(c)
  PROVE  /\ c.size \in Nat \ {0} /\ c.size <= MaxSize /\ MinSize <= c.size
         /\ c.used \in 0..c.size /\ Free(c) \in 0..c.size
         /\ c.i_in \in 0..c.size /\ c.i_out \in 0..c.size /\ c.i_rep \in 0..c.size
  BY CbufAssumption DEF Fields, Free

\* Indices without remainders: u is the way from o to i, and r is not strictly
\* between o and the cell behind i.
Order(S, i, o, r, u) ==
  IF i >= o THEN (r > i \/ r <= o) /\ u = i - o
            ELSE r > i /\ r <= o /\ u = i - o + S + 1

Linear(c) ==
  /\ c.got_wrap \/ c.i_rep = 0
  /\ Order(c.size, c.i_in, c.i_out, c.i_rep, c.used)

Way(S, a, b) == IF a <= b THEN b - a ELSE b - a + S + 1

\* n more bytes in, where the first of them still fit beside the replay bytes.
LEMMA OrderWithin ==
  ASSUME NEW S \in Nat, NEW i \in 0..S, NEW o \in 0..S, NEW r \in 0..S, NEW u \in 0..S,
         NEW n \in Nat \ {0}, NEW e \in 0..S,
         Order(S, i, o, r, u), n + u + Way(S, r, o) <= S,
         e = IF i + n < S + 1 THEN i + n ELSE i + n - (S + 1)
  PROVE  Order(S, e, o, r, u + n)
<1>1. CASE i >= o
  <2>1. CASE i + n < S + 1
    BY <1>1, <2>1 DEF Order, Way
  <2>2. CASE i + n >= S + 1
    BY <1>1, <2>2 DEF Order, Way
  <2> QED
    BY <2>1, <2>2
<1>2. CASE i < o
  BY <1>2 DEF Order, Way
<1> QED
  BY <1>1, <1>2

\* n more bytes in, over some replay bytes: those left start behind the new i.
LEMMA OrderOver ==
  ASSUME NEW S \in Nat, NEW i \in 0..S, NEW o \in 0..S, NEW r \in 0..S, NEW u \in 0..S,
         NEW n \in Nat \ {0}, NEW e \in 0..S, NEW x \in 0..S,
         Order(S, i, o, r, u), n + u <= S, n + u + Way(S, r, o) > S,
         e = IF i + n < S + 1 THEN i + n ELSE i + n - (S + 1),
         x = IF e = S THEN 0 ELSE e + 1
  PROVE  Order(S, e, o, x, u + n)
<1>1. CASE i >= o
  <2>1. CASE i + n < S + 1
    BY <1>1, <2>1 DEF Order, Way
  <2>2. CASE i + n >= S + 1
    BY <1>1, <2>2 DEF Order, Way
  <2> QED
    BY <2>1, <2>2
<1>2. CASE i < o
  BY <1>2 DEF Order, Way
<1> QED
  BY <1>1, <1>2

LEMMA IndicesLinear == ASSUME NEW c, Fields(c) PROVE Indices(c) <=> Linear(c)
<1> DEFINE m == c.size + 1
           x == c.i_out - c.i_in - 1 + (c.size + 1)
<1>1. m \in Nat \ {0} /\ x \in 0..(2 * m - 1)
  BY Numbers
<1>2. x % m = IF x < m THEN x ELSE x - m
  BY <1>1, ModOnce
<1>3. x % m = IF c.i_in >= c.i_out THEN c.i_out - c.i_in + c.size
              ELSE c.i_out - c.i_in - 1
  BY <1>2, Numbers
<1> HIDE DEF x, m
<1>4. Free(c) = x % m <=> c.used = IF c.i_in >= c.i_out THEN c.i_in - c.i_out
                                   ELSE c.i_in - c.i_out + c.size + 1
  BY <1>3, Numbers DEF Free
<1> QED
  BY <1>4 DEF x, m, Indices, Linear, Order

\* The replay bytes of a valid buffer are those between i_rep and i_out, and with
\* the unread bytes they fit in the buffer.
LEMMA ReusedIs ==
  ASSUME NEW c, Valid(c)
  PROVE  /\ Reused(c) = IF c.i_rep <= c.i_out THEN c.i_out - c.i_rep
                        ELSE c.i_out - c.i_rep + c.size + 1
         /\ Reused(c) \in 0..Free(c)
<1> DEFINE m == c.size + 1
           x == c.i_out - c.i_rep + c.size + 1
<1>1. Fields(c) /\ Linear(c)
  BY IndicesLinear DEF Valid
<1>2. m \in Nat \ {0} /\ x \in 0..(2 * m - 1)
  BY <1>1, Numbers
<1>3. Reused(c) = IF x < m THEN x ELSE x - m
  BY <1>2, ModOnce DEF Reused
<1>4. Reused(c) = IF c.i_rep <= c.i_out THEN c.i_out - c.i_rep
                  ELSE c.i_out - c.i_rep + c.size + 1
  BY <1>1, <1>3, Numbers
<1> QED
  BY <1>1, <1>4, Numbers DEF Linear, Order, Free

\* A buffer is determined by its fields.
LEMMA ValidIf ==
  ASSUME NEW c, Fields(c), Linear(c) PROVE Valid(c)
  BY IndicesLinear DEF Valid

-----------------------------------------------------------------------------
(* Each operation on a valid buffer leaves a valid buffer. *)

\* Reading or dropping n bytes.
LEMMA DropKeeps ==
  ASSUME NEW c, Valid(c), NEW n \in 0..c.used
  PROVE  Valid(Dropped(c, n))
<1> DEFINE d == Dropped(c, n)
           m == c.size + 1
           x == c.i_out + n
           out == x % m
<1>1. Fields(c) /\ Linear(c)
  BY IndicesLinear DEF Valid
<1>2. m \in Nat \ {0} /\ x \in 0..(2 * m - 1)
  BY <1>1, Numbers
<1>3. out = IF x < m THEN x ELSE x - m
  BY <1>2, ModOnce
<1>4. d = [c EXCEPT !.used = c.used - n, !.i_out = out]
  BY DEF Dropped
<1> HIDE DEF d, out
<1>5. out \in 0..c.size /\ c.used - n \in 0..c.size
  BY <1>1, <1>2, <1>3, Numbers
<1>6. /\ d.size = c.size /\ d.overwrite = c.overwrite /\ d.got_wrap = c.got_wrap
      /\ d.i_in = c.i_in /\ d.i_rep = c.i_rep /\ d.data = c.data
      /\ d.used = c.used - n /\ d.i_out = out
      /\ d \in Buffers
  <2>1. c \in Buffers /\ out \in Nat /\ c.used - n \in Nat
    BY <1>1, <1>5, Numbers DEF Fields
  <2> QED
    BY <1>4, <2>1 DEF Buffers
<1>7. Fields(d)
  <2>1. d.data \in [0..d.size -> Bytes \cup {Junk}]
    BY <1>1, <1>6, Zenon DEF Fields
  <2> QED
    BY <1>1, <1>5, <1>6, <2>1 DEF Fields
<1>8. Linear(d)
  BY <1>1, <1>3, <1>5, <1>6, Numbers DEF Linear, Order
<1> QED
  BY <1>7, <1>8, ValidIf DEF d

\* Rewinding n bytes.
LEMMA RewindKeeps ==
  ASSUME NEW c, Valid(c), NEW n \in 0..Reused(c)
  PROVE  Valid(Rewound(c, n))
<1> DEFINE d == Rewound(c, n)
           m == c.size + 1
           x == c.i_out - n + c.size + 1
           out == x % m
<1>1. Fields(c) /\ Linear(c)
  BY IndicesLinear DEF Valid
<1>2. m \in Nat \ {0} /\ x \in 0..(2 * m - 1)
  BY <1>1, Numbers, ReusedIs
<1>3. out = IF x < m THEN x ELSE x - m
  BY <1>2, ModOnce
<1>4. d = [c EXCEPT !.used = c.used + n, !.i_out = out]
  BY DEF Rewound
<1> HIDE DEF d, out
<1>5. out \in 0..c.size /\ c.used + n \in 0..c.size /\ n \in Nat
  BY <1>1, <1>2, <1>3, Numbers, ReusedIs DEF Free
<1>6. /\ d.size = c.size /\ d.overwrite = c.overwrite /\ d.got_wrap = c.got_wrap
      /\ d.i_in = c.i_in /\ d.i_rep = c.i_rep /\ d.data = c.data
      /\ d.used = c.used + n /\ d.i_out = out
      /\ d \in Buffers
  <2>1. c \in Buffers /\ out \in Nat /\ c.used + n \in Nat
    BY <1>1, <1>5, Numbers DEF Fields
  <2> QED
    BY <1>4, <2>1 DEF Buffers
<1>7. Fields(d)
  <2>1. d.data \in [0..d.size -> Bytes \cup {Junk}]
    BY <1>1, <1>6, Zenon DEF Fields
  <2> QED
    BY <1>1, <1>5, <1>6, <2>1 DEF Fields
<1>8. Linear(d)
  BY <1>1, <1>3, <1>5, <1>6, Numbers, ReusedIs DEF Linear, Order
<1> QED
  BY <1>7, <1>8, ValidIf DEF d

LEMMA GrownSizeIs ==
  ASSUME NEW c, Fields(c), c.size < MaxSize, NEW n \in Nat \ {0}
  PROVE  GrownSize(c, n) \in (c.size + 1)..MaxSize
<1> DEFINE m == c.size + Meta + n
<1>1. m \in Nat /\ m = c.size + Meta + n /\ c.size \in Nat /\ Meta \in Nat /\ Chunk \in Nat \ {0} /\ MaxSize \in Nat
  <2>1. c.size \in Nat
    BY Numbers
  <2>2. Meta \in Nat /\ Chunk \in Nat \ {0} /\ MaxSize \in Nat
    BY CbufAssumption
  <2> QED
    BY <2>1, <2>2
<1> HIDE DEF m
<1>2. m % Chunk \in 0..(Chunk - 1)
  <2>1. m \in Int /\ Chunk \in Nat \ {0}
    BY <1>1
  <2> QED
    BY <2>1, ModRange, Zenon
<1>3. m + (Chunk - (m % Chunk)) >= m + 1
  BY <1>1, <1>2
<1> QED
  BY <1>1, <1>2, <1>3 DEF GrownSize, Smaller, m

\* Moving the data that wraps around the old end.
LEMMA GrowKeeps ==
  ASSUME NEW c, Valid(c), NEW s \in (c.size + 1)..MaxSize
  PROVE  /\ Valid(GrownTo(c, s))
         /\ GrownTo(c, s).used = c.used /\ GrownTo(c, s).size = s
<1> DEFINE g == GrownTo(c, s)
           wraps == c.i_rep > c.i_in
           rep == IF wraps THEN c.i_rep + (s - c.size) ELSE c.i_rep
           out == IF wraps /\ c.i_out >= c.i_rep THEN c.i_out + (s - c.size) ELSE c.i_out
           new == [i \in 0..s |-> IF wraps /\ i >= rep THEN c.data[i - (s - c.size)]
                                  ELSE IF i <= c.size THEN c.data[i] ELSE Junk]
<1>1. Fields(c) /\ Linear(c)
  BY IndicesLinear DEF Valid
<1>2. /\ s \in Nat /\ s > c.size /\ s \in MinSize..MaxSize
      /\ rep \in 0..s /\ out \in 0..s /\ c.i_in \in 0..s /\ c.used \in 0..s
  BY <1>1, Numbers, CbufAssumption
<1>3. g = [c EXCEPT !.size = s, !.i_out = out, !.i_rep = rep, !.data = new]
  BY DEF GrownTo
<1>4. new \in [0..s -> Bytes \cup {Junk}]
  <2>1. c.data \in [0..c.size -> Bytes \cup {Junk}]
    BY <1>1 DEF Fields
  <2>2. ASSUME NEW i \in 0..s PROVE new[i] \in Bytes \cup {Junk}
    <3>1. CASE wraps /\ i >= rep
      <4>1. i - (s - c.size) \in 0..c.size
        BY <1>1, <1>2, <3>1, Numbers
      <4> QED
        BY <2>1, <3>1, <4>1
    <3>2. CASE ~(wraps /\ i >= rep) /\ i <= c.size
      <4>1. i \in 0..c.size
        BY <1>1, <3>2, Numbers
      <4> QED
        BY <2>1, <3>2, <4>1
    <3> QED
      BY <3>1, <3>2
  <2> HIDE DEF rep, wraps
  <2> QED
    BY <2>2
<1> HIDE DEF g, new
<1>5. /\ g.size = s /\ g.overwrite = c.overwrite /\ g.got_wrap = c.got_wrap
      /\ g.i_in = c.i_in /\ g.i_rep = rep /\ g.data = new
      /\ g.used = c.used /\ g.i_out = out
      /\ g \in Buffers
  <2>1. new \in Arrays
    BY <1>2, <1>4 DEF Arrays
  <2>2. c \in Buffers /\ s \in Nat /\ out \in Nat /\ rep \in Nat
    BY <1>1, <1>2 DEF Fields
  <2> HIDE DEF out, rep
  <2> QED
    BY <1>3, <2>1, <2>2 DEF Buffers
<1>6. Fields(g)
  BY <1>2, <1>4, <1>5 DEF Fields
<1>7. Linear(g)
  BY <1>1, <1>2, <1>5, Numbers DEF Linear, Order
<1> QED
  BY <1>5, <1>6, <1>7, ValidIf DEF g

\* Whatever realloc does, the attempt to make room leaves a valid buffer.
LEMMA GrownKeeps ==
  ASSUME NEW c, Valid(c), NEW len \in Nat, NEW g \in Grown(c, len)
  PROVE  Valid(g)
<1>1. CASE len > Free(c) /\ c.size < MaxSize
  <2>1. GrownSize(c, len - Free(c)) \in (c.size + 1)..MaxSize
    <3>1. Fields(c) /\ len - Free(c) \in Nat \ {0}
      BY <1>1, Numbers DEF Valid
    <3> QED
      BY <1>1, <3>1, GrownSizeIs
  <2>2. g \in {GrownTo(c, GrownSize(c, len - Free(c))), c}
    BY <1>1, Zenon DEF Grown
  <2> QED
    BY <2>1, <2>2, GrowKeeps
<1>2. CASE ~(len > Free(c) /\ c.size < MaxSize)
  BY <1>2 DEF Grown
<1> QED
  BY <1>1, <1>2

\* Copying bytes in, however often they wrap.
LEMMA StoreKeeps ==
  ASSUME NEW c, Valid(c), NEW s \in Seq(Bytes), s # <<>>
  PROVE  Valid(Stored(c, s))
<1> DEFINE d == Stored(c, s)
           n == Len(s)
           m == c.size + 1
           x == c.i_in + n
           in == x % m
           wraps == n > Free(c) - Reused(c)
           next == (in + 1) % m
           rep == IF wraps THEN next ELSE c.i_rep
           out == IF n > Free(c) THEN rep ELSE c.i_out
           used == Smaller(c.used + n, c.size)
           got == c.got_wrap \/ wraps
           new == WrittenData(c, s)
<1>1. Fields(c) /\ Linear(c)
  BY IndicesLinear DEF Valid
<1>2. /\ n \in Nat \ {0} /\ m \in Nat \ {0} /\ m = c.size + 1 /\ c.size \in Nat
      /\ x \in Nat /\ x = c.i_in + n /\ c.i_in \in 0..c.size /\ c.used \in Nat
      /\ Free(c) \in Nat /\ Reused(c) \in 0..Free(c)
  BY <1>1, Numbers, ReusedIs
<1> HIDE DEF m, x
<1>3. in \in 0..c.size
  <2>1. x \in Int /\ m \in Nat \ {0}
    BY <1>2
  <2>2. in \in 0..(m - 1)
    BY <2>1, ModRange, Zenon
  <2> HIDE DEF in
  <2> QED
    BY <1>2, <2>2
<1>4. n <= Free(c) => in = IF x < m THEN x ELSE x - m
  <2>1. n <= Free(c) => x \in 0..(2 * m - 1)
    <3>1. Free(c) \in 0..c.size
      BY <1>1, Numbers
    <3> QED
      BY <1>2, <3>1
  <2>2. m \in Nat \ {0}
    BY <1>2
  <2>3. x \in 0..(2 * m - 1) => in = IF x < m THEN x ELSE x - m
    BY <2>2, ModOnce, Zenon
  <2> QED
    BY <2>1, <2>3, Zenon
<1>5. next = IF in = c.size THEN 0 ELSE in + 1
  <2> HIDE DEF in
  <2> DEFINE y == in + 1
  <2>1. y = in + 1 /\ y \in 0..(2 * m - 1)
    BY <1>2, <1>3
  <2>2. m \in Nat \ {0}
    BY <1>2
  <2> HIDE DEF y
  <2>3. y % m = IF y < m THEN y ELSE y - m
    BY <2>1, <2>2, ModOnce, Zenon
  <2>4. next = y % m
    BY <2>1
  <2>5. next = IF y < m THEN y ELSE y - m
    BY <2>3, <2>4, Zenon
  <2> HIDE DEF next, in
  <2> QED
    <3>1. CASE in = c.size
      <4>1. ~(y < m) /\ y - m = 0
        BY SMTT(60), <1>2, <2>1, <3>1
      <4> QED
        BY <2>5, <3>1, <4>1, Zenon
    <3>2. CASE in # c.size
      <4>1. y < m /\ y = in + 1
        BY SMTT(60), <1>2, <1>3, <2>1, <3>2
      <4> QED
        BY <2>5, <3>2, <4>1, Zenon
    <3> QED
      BY <3>1, <3>2
<1>6. new \in [0..c.size -> Bytes \cup {Junk}]
  <2>1. c.data \in [0..c.size -> Bytes \cup {Junk}]
    BY <1>1 DEF Fields
  <2>2. ASSUME NEW i \in 0..c.size PROVE new[i] \in Bytes \cup {Junk}
    <3> DEFINE y == c.i_in + n + c.size - i
               k == n - (y % m)
    <3>1. y \in Int
      BY <1>1, <1>2, Numbers
    <3>2. new[i] = IF k >= 1 THEN s[k] ELSE c.data[i]
      BY DEF WrittenData, m
    <3> HIDE DEF y, new
    <3>3. k \in Int /\ k <= n
      <4>1. y % m \in 0..(m - 1)
        BY <1>2, <3>1, ModRange
      <4> QED
        BY <1>2, <4>1
    <3> HIDE DEF k
    <3>4. k >= 1 => s[k] \in Bytes
      BY <3>3
    <3> QED
      BY <2>1, <3>2, <3>4
  <2>3. new = [i \in 0..c.size |-> new[i]]
    BY DEF WrittenData
  <2> HIDE DEF new
  <2> QED
    BY <2>2, <2>3
<1>7. d = [c EXCEPT !.used = used, !.i_in = in, !.got_wrap = got, !.i_rep = rep,
                    !.i_out = out, !.data = new]
  BY DEF Stored, m, x
<1>8. used \in 0..c.size /\ used = IF n > Free(c) THEN c.size ELSE c.used + n
  BY <1>1, <1>2, Numbers DEF Smaller, Free
<1>9. got \in BOOLEAN
  BY <1>1 DEF Fields, Buffers
<1>10. rep \in 0..c.size /\ out \in 0..c.size
  BY <1>1, <1>3, <1>5, Numbers
<1> HIDE DEF d, new, used, in, next
<1>11. /\ d.size = c.size /\ d.overwrite = c.overwrite /\ d.got_wrap = got
       /\ d.i_in = in /\ d.i_rep = rep /\ d.data = new
       /\ d.used = used /\ d.i_out = out
       /\ d \in Buffers
  <2>1. new \in Arrays
    BY <1>1, <1>6 DEF Arrays, Fields
  <2>2. /\ c \in Buffers /\ used \in Nat /\ in \in Nat /\ out \in Nat /\ rep \in Nat
        /\ got \in BOOLEAN
    BY <1>1, <1>3, <1>8, <1>9, <1>10, Numbers DEF Fields
  <2> HIDE DEF out, rep, got
  <2> QED
    BY <1>7, <2>1, <2>2 DEF Buffers
<1>12. Fields(d)
  <2>1. d.data \in [0..d.size -> Bytes \cup {Junk}]
    BY <1>6, <1>11, Zenon
  <2> QED
    BY <1>1, <1>3, <1>8, <1>10, <1>11, <2>1 DEF Fields
<1>13. d.got_wrap <=> c.got_wrap \/ wraps
  BY <1>9, <1>11, Zenon
<1>14. /\ Order(c.size, c.i_in, c.i_out, c.i_rep, c.used)
       /\ Reused(c) = Way(c.size, c.i_rep, c.i_out)
       /\ c.i_out \in 0..c.size /\ c.i_rep \in 0..c.size /\ c.used \in 0..c.size
  BY <1>1, Numbers, ReusedIs DEF Linear, Way
<1>15. Linear(d)
  <2>1. CASE n > Free(c)
    <3>1. wraps
      BY <1>2, <2>1
    <3>2. d.i_rep = next /\ d.i_out = next /\ d.used = c.size
      BY <1>8, <1>11, <2>1, <3>1
    <3> QED
      BY <1>1, <1>3, <1>5, <1>11, <1>13, <3>1, <3>2, Numbers DEF Linear, Order
  <2>2. CASE n <= Free(c) /\ wraps
    <3>1. /\ d.i_rep = next /\ d.i_out = c.i_out /\ d.used = c.used + n
          /\ d.i_in = in /\ d.size = c.size
      BY <1>2, <1>8, <1>11, <2>2
    <3>2. in = IF c.i_in + n < c.size + 1 THEN c.i_in + n ELSE c.i_in + n - (c.size + 1)
      BY <1>2, <1>4, <2>2
    <3>3. d.got_wrap
      BY <1>13, <2>2, Zenon
    <3>4. /\ n + c.used <= c.size
          /\ n + c.used + Way(c.size, c.i_rep, c.i_out) > c.size
      BY SMTT(60), <1>2, <1>14, <2>2 DEF Free
    <3>5. next \in 0..c.size
      BY <1>2, <1>3, <1>5
    <3>6. Order(c.size, in, c.i_out, next, c.used + n)
      <4> HIDE DEF n, wraps
      <4> QED
        BY <1>2, <1>3, <1>5, <1>14, <3>2, <3>4, <3>5, OrderOver
    <3> QED
      BY <3>1, <3>3, <3>6 DEF Linear
  <2>3. CASE n <= Free(c) /\ ~wraps
    <3>1. /\ d.i_rep = c.i_rep /\ d.i_out = c.i_out /\ d.used = c.used + n
          /\ d.i_in = in /\ d.size = c.size
      BY <1>2, <1>8, <1>11, <2>3
    <3>2. in = IF c.i_in + n < c.size + 1 THEN c.i_in + n ELSE c.i_in + n - (c.size + 1)
      BY <1>2, <1>4, <2>3
    <3>3. d.got_wrap \/ d.i_rep = 0
      BY <1>1, <1>13, <3>1, Zenon DEF Linear
    <3>4. n + c.used + Way(c.size, c.i_rep, c.i_out) <= c.size
      BY <1>2, <1>14, <2>3 DEF Free
    <3>5. Order(c.size, in, c.i_out, c.i_rep, c.used + n)
      <4> HIDE DEF n, wraps
      <4> QED
        BY <1>2, <1>3, <1>14, <3>2, <3>4, OrderWithin
    <3> QED
      BY <3>1, <3>3, <3>5 DEF Linear
  <2> QED
    BY <1>2, <2>1, <2>2, <2>3
<1> QED
  BY <1>12, <1>15, ValidIf DEF d
-----------------------------------------------------------------------------
(* The writers. *)

LEMMA AcceptedIs ==
  ASSUME NEW g, Fields(g), NEW len \in Nat
  PROVE  Accepted(g, len) \in 0..len
<1>1. Free(g) \in Nat /\ g.size \in Nat
  BY Numbers
<1>2. /\ Smaller(len, Free(g)) \in 0..len
      /\ Smaller(len, g.size) \in 0..len
      /\ len \in 0..len
  BY <1>1 DEF Smaller
<1> QED
  BY <1>2, Zenon DEF Accepted

LEMMA ResultKeeps ==
  ASSUME NEW g, Valid(g), NEW s \in Seq(Bytes)
  PROVE  Valid(WriterResult(g, s).cb)
<1>1. CASE s = <<>>
  BY <1>1 DEF WriterResult, Result
<1>2. CASE s # <<>>
  <2>1. Valid(Stored(g, s))
    BY <1>2, StoreKeeps
  <2>2. WriterResult(g, s).cb = Stored(g, s)
    BY <1>2 DEF WriterResult, Result
  <2> QED
    BY <2>1, <2>2, Zenon
<1> QED
  BY <1>1, <1>2

LEMMA WrittenKeeps ==
  ASSUME NEW c, Valid(c), NEW s \in Seq(Bytes), NEW w \in Written(c, s)
  PROVE  Valid(w.cb)
<1>1. PICK g \in Grown(c, Len(s)) : w = WriterResult(g, SubSeq(s, 1, Accepted(g, Len(s))))
  BY Zenon DEF Written
<1>2. Valid(g)
  BY GrownKeeps
<1>3. Accepted(g, Len(s)) \in 0..Len(s)
  BY <1>2, AcceptedIs DEF Valid
<1>4. SubSeq(s, 1, Accepted(g, Len(s))) \in Seq(Bytes)
  BY <1>3
<1> QED
  BY <1>1, <1>2, <1>4, ResultKeeps, Zenon

LEMMA CopiedKeeps ==
  ASSUME NEW c, Valid(c), NEW s \in Seq(Bytes), NEW w \in Copied(c, s)
  PROVE  Valid(w.cb)
<1>1. PICK g \in Grown(c, Len(s)) :
        w = LET n == Accepted(g, Len(s))
            IN IF n = 0 THEN Result(g, -1, 0)
               ELSE Result(Stored(g, Keep(g.size, SubSeq(s, 1, n))), n, Larger(0, n - Free(g)))
  BY Zenon DEF Copied
<1> DEFINE n == Accepted(g, Len(s))
           t == SubSeq(s, 1, n)
           k == Keep(g.size, t)
<1>2. Valid(g) /\ Fields(g)
  BY GrownKeeps DEF Valid
<1>3. n \in 0..Len(s) /\ g.size \in Nat \ {0}
  BY <1>2, AcceptedIs, Numbers
<1>4. t \in Seq(Bytes) /\ Len(t) = n
  BY <1>3
<1> HIDE DEF n, t
<1>5. n # 0 => k \in Seq(Bytes) /\ k # <<>>
  <2> SUFFICES ASSUME n # 0 PROVE k \in Seq(Bytes) /\ k # <<>>
    OBVIOUS
  <2>1. CASE Len(t) <= g.size
    BY <1>3, <1>4, <2>1 DEF Keep
  <2>2. CASE Len(t) > g.size
    <3>1. Len(t) \in Nat /\ g.size \in Nat \ {0} /\ ~(Len(t) <= g.size)
      BY <1>3, <1>4, <2>2
    <3>2. k = SubSeq(t, Len(t) - g.size + 1, Len(t))
      BY <3>1, Zenon DEF Keep
    <3>3. SubSeq(t, Len(t) - g.size + 1, Len(t)) \in Seq(Bytes)
          /\ Len(SubSeq(t, Len(t) - g.size + 1, Len(t))) = g.size
      BY <1>4, <3>1
    <3> HIDE DEF k
    <3>4. k \in Seq(Bytes) /\ Len(k) # 0
      <4>1. Len(k) = g.size
        BY <3>2, <3>3, Zenon
      <4> QED
        BY <3>1, <3>2, <3>3, <4>1
    <3> QED
      BY <3>4
  <2> QED
    BY <1>3, <1>4, <2>1, <2>2
<1> HIDE DEF k
<1>6. w.cb = IF n = 0 THEN g ELSE Stored(g, k)
  BY <1>1 DEF Result, n, t, k
<1>7. n # 0 => Valid(Stored(g, k))
  BY <1>2, <1>5, StoreKeeps
<1> QED
  BY <1>2, <1>6, <1>7

LEMMA WrittenLineKeeps ==
  ASSUME NEW c, Valid(c), NEW s \in Seq(Bytes), NEW w \in WrittenLine(c, s)
  PROVE  Valid(w.cb)
<1> DEFINE missing == s = <<>> \/ s[Len(s)] # NL
           len == IF missing THEN Len(s) + 1 ELSE Len(s)
           cutBytes(g) == Larger(0, len - g.size)
           copied(g) == IF Len(s) = cutBytes(g) THEN {Result(g, 0, 0)}
                        ELSE Written(g, SubSeq(s, cutBytes(g) + 1, Len(s)))
           ended(g, v) ==
             IF missing
               THEN {Result(u.cb, len, cutBytes(g) + v.lost + u.lost) : u \in Written(v.cb, <<NL>>)}
               ELSE {Result(v.cb, len, cutBytes(g) + v.lost)}
           written(g) == UNION {ended(g, v) : v \in copied(g)}
<1>1. w \in UNION {IF Accepted(g, len) < len THEN {Result(g, -1, 0)} ELSE written(g)
                    : g \in Grown(c, len)}
  BY DEF WrittenLine
<1> HIDE DEF written, len
<1>2. PICK g \in Grown(c, len) :
        w \in IF Accepted(g, len) < len THEN {Result(g, -1, 0)} ELSE written(g)
  BY <1>1, Zenon
<1>3. len \in Nat
  BY DEF len
<1>4. Valid(g)
  BY <1>3, GrownKeeps
<1>5. CASE w = Result(g, -1, 0)
  BY <1>4, <1>5 DEF Result
<1>6. CASE w \in written(g)
  <2> HIDE DEF copied, ended
  <2>1. PICK v \in copied(g) : w \in ended(g, v)
    BY <1>6, Zenon DEF written
  <2>2. Valid(v.cb)
    <3> HIDE DEF cutBytes
    <3>1. CASE v = Result(g, 0, 0)
      BY <1>4, <3>1 DEF Result
    <3>2. CASE v \in Written(g, SubSeq(s, cutBytes(g) + 1, Len(s)))
      <4>1. g.size \in Nat
        BY <1>4, Numbers DEF Valid
      <4>2. cutBytes(g) \in Nat
        BY <1>3, <4>1 DEF cutBytes, Larger
      <4>3. SubSeq(s, cutBytes(g) + 1, Len(s)) \in Seq(Bytes)
        BY <4>2
      <4> QED
        BY <1>4, <3>2, <4>3, WrittenKeeps
    <3> QED
      BY <3>1, <3>2 DEF copied
  <2>3. CASE missing
    <3>1. PICK u \in Written(v.cb, <<NL>>) : w.cb = u.cb
      <4>1. PICK u \in Written(v.cb, <<NL>>) :
              w = Result(u.cb, len, cutBytes(g) + v.lost + u.lost)
        BY <2>1, <2>3, Zenon DEF ended
      <4> QED
        BY <4>1 DEF Result
    <3>2. <<NL>> \in Seq(Bytes)
      BY CbufAssumption
    <3>3. Valid(u.cb)
      BY <2>2, <3>1, <3>2, WrittenKeeps
    <3> QED
      BY <3>1, <3>3
  <2>4. CASE ~missing
    <3>1. w = Result(v.cb, len, cutBytes(g) + v.lost)
      BY <2>1, <2>4 DEF ended
    <3> QED
      BY <2>2, <3>1 DEF Result
  <2> QED
    BY <2>3, <2>4
<1> QED
  BY <1>2, <1>5, <1>6

-----------------------------------------------------------------------------
(* The searches for lines stay within the bytes they search. *)

LEMMA LargestIs == ASSUME NEW S PROVE Largest(S) \in S \cup {0}
  BY Zenon DEF Largest

LEMMA FindUnreadIs ==
  ASSUME NEW c, Fields(c), NEW chars, NEW lines
  PROVE  FindUnread(c, chars, lines).m \in 0..c.used
<1> DEFINE byte(n) == c.data[(c.i_out + n - 1) % (c.size + 1)]
           newlines(n) == {k \in 1..c.used : k <= n /\ byte(k) = NL}
           stops == {n \in 1..c.used : IF lines = -1 THEN n = chars
                                       ELSE Cardinality(newlines(n)) = lines}
           end == Visited(c.used, stops)
           none == lines = 0 \/ (lines = -1 /\ chars <= 0) \/ (lines > 0 /\ stops = {})
<1>1. FindUnread(c, chars, lines) =
        IF none THEN Nothing
        ELSE [m |-> Largest(newlines(end)), l |-> Cardinality(newlines(end))]
  BY DEF FindUnread
<1>2. newlines(end) \subseteq 1..c.used
  <2> HIDE DEF byte, end
  <2> QED
    OBVIOUS
<1> HIDE DEF none, newlines, end
<1>3. FindUnread(c, chars, lines).m = IF none THEN 0 ELSE Largest(newlines(end))
  BY <1>1 DEF Nothing
<1>4. c.used \in Nat
  BY Numbers
<1>5. Largest(newlines(end)) \in newlines(end) \cup {0}
  BY LargestIs
<1>6. Largest(newlines(end)) \in 0..c.used
  BY <1>2, <1>4, <1>5
<1> QED
  BY <1>3, <1>4, <1>6

LEMMA FindReplayIs ==
  ASSUME NEW c, Valid(c), NEW chars, NEW lines
  PROVE  FindReplay(c, chars, lines).m \in 0..Reused(c)
<1> DEFINE all == Reused(c)
           byte(n) == c.data[(c.i_out - n + c.size + 1) % (c.size + 1)]
           newlines(n) == {k \in 1..all : k <= n /\ byte(k) = NL}
           closed == byte(1) = NL
           stops == {n \in 1..all : IF lines = -1 THEN n = IF closed THEN chars + 1 ELSE chars
                                    ELSE Cardinality(newlines(n)) = IF closed THEN lines + 1
                                                                    ELSE lines}
           end == Visited(all, stops)
           whole == WholeStart(c, stops)
           passed == Cardinality(newlines(end)) + (IF whole THEN 1 ELSE 0)
           found == IF closed THEN passed - 1 ELSE passed
           none == lines = 0 \/ (lines = -1 /\ chars <= 0) \/ all = 0 \/ found < lines
           found_m == IF whole THEN all ELSE Larger(0, Largest(newlines(end)) - 1)
<1>1. FindReplay(c, chars, lines) = IF none THEN Nothing ELSE [m |-> found_m, l |-> found]
  BY DEF FindReplay
<1>2. newlines(end) \subseteq 1..all
  <2> HIDE DEF byte, end, all
  <2> QED
    OBVIOUS
<1>3. all \in Nat
  <2>1. Free(c) \in Nat
    BY Numbers DEF Valid
  <2> QED
    BY <2>1, ReusedIs
<1> HIDE DEF none, newlines, end, all, whole, found
<1>4. Largest(newlines(end)) \in newlines(end) \cup {0}
  BY LargestIs
<1>5. found_m \in 0..all
  <2> DEFINE l == Largest(newlines(end))
  <2>1. l \in 0..all
    BY <1>2, <1>3, <1>4
  <2> HIDE DEF l
  <2>2. Larger(0, l - 1) \in 0..all
    BY <1>3, <2>1 DEF Larger
  <2> QED
    BY <1>3, <2>2 DEF l
<1> HIDE DEF found_m
<1>6. FindReplay(c, chars, lines).m = IF none THEN 0 ELSE found_m
  BY <1>1 DEF Nothing
<1> QED
  BY <1>3, <1>5, <1>6 DEF all

-----------------------------------------------------------------------------
(* The invariant. *)

LEMMA CreatedValid == Valid(Created)
<1> DEFINE c == Created
           empty == [i \in 0..MinSize |-> Junk]
<1>1. MinSize \in Nat \ {0} /\ MaxSize \in Nat /\ MinSize <= MaxSize
  BY CbufAssumption
<1>2. empty \in [0..MinSize -> Bytes \cup {Junk}]
  OBVIOUS
<1>3. empty \in Arrays
  BY <1>1, <1>2 DEF Arrays
<1>4. /\ c = [size |-> MinSize, used |-> 0, overwrite |-> "WRAP_MANY", got_wrap |-> FALSE,
              i_in |-> 0, i_out |-> 0, i_rep |-> 0, data |-> empty]
      /\ c.size = MinSize /\ c.used = 0 /\ c.i_in = 0 /\ c.i_out = 0 /\ c.i_rep = 0
      /\ c.data = empty /\ c.got_wrap = FALSE
  BY DEF Created
<1> HIDE DEF c, empty
<1>5. c \in Buffers
  BY <1>1, <1>3, <1>4 DEF Buffers, Overwrites
<1>6. c.data \in [0..c.size -> Bytes \cup {Junk}]
  BY <1>2, <1>4, Zenon
<1>7. Fields(c)
  BY <1>1, <1>4, <1>5, <1>6 DEF Fields
<1>8. Linear(c)
  BY <1>1, <1>4 DEF Linear, Order
<1> QED
  BY <1>7, <1>8, ValidIf DEF c

LEMMA FlushKeeps ==
  ASSUME Valid(cb), Flush PROVE Valid(cb')
<1>1. Fields(cb)
  BY DEF Valid
<1>2. cb' = [cb EXCEPT !.used = 0, !.got_wrap = FALSE, !.i_in = 0, !.i_out = 0, !.i_rep = 0]
  BY DEF Flush
<1>3. /\ cb'.size = cb.size /\ cb'.used = 0 /\ cb'.got_wrap = FALSE
      /\ cb'.i_in = 0 /\ cb'.i_out = 0 /\ cb'.i_rep = 0 /\ cb'.data = cb.data
      /\ cb' \in Buffers
  <2>1. cb \in Buffers
    BY <1>1 DEF Fields
  <2> QED
    BY <1>2, <2>1 DEF Buffers
<1>4. cb'.data \in [0..cb'.size -> Bytes \cup {Junk}]
  BY <1>1, <1>3, Zenon DEF Fields
<1>5. Fields(cb')
  BY <1>1, <1>3, <1>4, Numbers DEF Fields
<1>6. Linear(cb')
  BY <1>1, <1>3, Numbers DEF Linear, Order
<1> QED
  BY <1>5, <1>6, ValidIf

LEMMA OptSetKeeps ==
  ASSUME Valid(cb), NEW value \in Overwrites, OptSet(value) PROVE Valid(cb')
<1>1. Fields(cb) /\ Linear(cb)
  BY IndicesLinear DEF Valid
<1>2. /\ cb'.size = cb.size /\ cb'.used = cb.used /\ cb'.got_wrap = cb.got_wrap
      /\ cb'.i_in = cb.i_in /\ cb'.i_out = cb.i_out /\ cb'.i_rep = cb.i_rep
      /\ cb'.data = cb.data /\ cb' \in Buffers
  <2>1. cb \in Buffers /\ cb' = [cb EXCEPT !.overwrite = value]
    BY <1>1 DEF Fields, OptSet
  <2> QED
    BY <2>1 DEF Buffers
<1>3. cb'.data \in [0..cb'.size -> Bytes \cup {Junk}]
  BY <1>1, <1>2, Zenon DEF Fields
<1>4. Fields(cb')
  BY <1>1, <1>2, <1>3 DEF Fields
<1>5. Linear(cb')
  BY <1>1, <1>2, Zenon DEF Linear
<1> QED
  BY <1>4, <1>5, ValidIf

\* The bytes of a write are a sequence, as the lemmas about the writers want it.
LEMMA StringsAreSequences == ASSUME NEW s \in Strings PROVE s \in Seq(Bytes)
  BY CbufAssumption DEF Strings

LEMMA WriteFromFdKeeps ==
  ASSUME Valid(cb), NEW len \in {-1} \cup 1..MaxWrite, WriteFromFd(len)
  PROVE  Valid(cb')
<1> DEFINE want == IF len # -1 THEN len
                   ELSE IF Free(cb) = 0 THEN Smaller(cb.size, Chunk) ELSE Free(cb)
<1>1. want \in Nat
  <2>1. Free(cb) \in Nat /\ cb.size \in Nat
    BY Numbers DEF Valid
  <2>2. Chunk \in Nat /\ MaxWrite \in Nat
    BY CbufAssumption
  <2> QED
    BY <2>1, <2>2 DEF Smaller
<1>2. \E g \in Grown(cb, want) : \E n \in 0..Accepted(g, want) :
        \E s \in [1..n -> Bytes] : cb' = WriterResult(g, s).cb
  BY Zenon DEF WriteFromFd
<1> HIDE DEF want
<1>3. PICK g \in Grown(cb, want) : \E n \in 0..Accepted(g, want) :
        \E s \in [1..n -> Bytes] : cb' = WriterResult(g, s).cb
  BY <1>2, Zenon
<1>4. Valid(g)
  BY <1>1, GrownKeeps
<1>5. PICK n \in 0..Accepted(g, want) :
        \E s \in [1..n -> Bytes] : cb' = WriterResult(g, s).cb
  BY <1>3, Zenon
<1>6. PICK s \in [1..n -> Bytes] : cb' = WriterResult(g, s).cb
  BY <1>5, Zenon
<1>7. s \in Seq(Bytes)
  <2>1. Accepted(g, want) \in 0..want
    BY <1>1, <1>4, AcceptedIs DEF Valid
  <2>2. n \in Nat
    BY <1>1, <2>1
  <2> QED
    BY <2>2
<1> QED
  BY <1>4, <1>6, <1>7, ResultKeeps

\* The inductive invariant: TypeOK and IndexValid together.
IndInv == Valid(cb)

LEMMA NextKeeps == IndInv /\ [Next]_cb => IndInv'
<1> SUFFICES ASSUME Valid(cb), [Next]_cb PROVE Valid(cb')
  BY DEF IndInv
<1> USE DEF Valid
<1>1. /\ cb.used \in Nat /\ Reused(cb) \in Nat
  BY Numbers, ReusedIs
<1> HIDE DEF Valid
<1>2. CASE Flush
  BY <1>2, FlushKeeps
<1>3. ASSUME NEW value \in Overwrites, OptSet(value) PROVE Valid(cb')
  BY <1>3, OptSetKeeps
<1>4. ASSUME NEW len \in -1..MaxSize, Drop(len) PROVE Valid(cb')
  <2> DEFINE n == IF len = -1 THEN cb.used ELSE Smaller(len, cb.used)
  <2>1. n \in 0..cb.used
    BY <1>1, CbufAssumption DEF Smaller
  <2>2. cb' = Dropped(cb, n)
    BY <1>4 DEF Drop
  <2> QED
    BY <2>1, <2>2, DropKeeps
<1>5. ASSUME NEW len \in -1..MaxSize, ReadToFd(len) PROVE Valid(cb')
  <2> DEFINE most == IF len = -1 THEN cb.used ELSE Smaller(len, cb.used)
  <2>1. most \in 0..cb.used
    BY <1>1, CbufAssumption DEF Smaller
  <2>2. \E n \in 0..most : cb' = Dropped(cb, n)
    BY <1>5 DEF ReadToFd
  <2> HIDE DEF most
  <2>3. PICK n \in 0..cb.used : cb' = Dropped(cb, n)
    BY <1>1, <2>1, <2>2
  <2> QED
    BY <2>3, DropKeeps
<1>6. ASSUME NEW len \in -1..MaxSize, Rewind(len) PROVE Valid(cb')
  <2> DEFINE n == IF len = -1 THEN Reused(cb) ELSE Smaller(len, Reused(cb))
  <2>1. n \in 0..Reused(cb)
    BY <1>1, CbufAssumption DEF Smaller
  <2>2. cb' = Rewound(cb, n)
    BY <1>6 DEF Rewind
  <2> QED
    BY <2>1, <2>2, RewindKeeps
<1>7. ASSUME NEW len, NEW lines, DropLine(len, lines) \/ ReadLine(len, lines)
      PROVE  Valid(cb')
  <2>1. PICK chars : cb' = Dropped(cb, FindUnread(cb, chars, lines).m)
    BY <1>7, Zenon DEF DropLine, ReadLine
  <2>2. FindUnread(cb, chars, lines).m \in 0..cb.used
    BY FindUnreadIs DEF Valid
  <2> QED
    BY <2>1, <2>2, DropKeeps
<1>8. ASSUME NEW len, NEW lines, RewindLine(len, lines) PROVE Valid(cb')
  <2>1. FindReplay(cb, len, lines).m \in 0..Reused(cb)
    BY FindReplayIs
  <2> QED
    BY <1>8, <2>1, RewindKeeps DEF RewindLine
<1>9. ASSUME NEW s \in Seq(Bytes), Write(s) \/ WriteLine(s) \/ CopyIn(s) PROVE Valid(cb')
  <2>1. CASE Write(s)
    BY <2>1, WrittenKeeps DEF Write
  <2>2. CASE WriteLine(s)
    BY <2>2, WrittenLineKeeps DEF WriteLine
  <2>3. CASE CopyIn(s)
    BY <2>3, CopiedKeeps DEF CopyIn
  <2> QED
    BY <1>9, <2>1, <2>2, <2>3
<1>10. CASE WriteLine(<<>>)
  <2>1. <<>> \in Seq(Bytes)
    OBVIOUS
  <2> QED
    BY <1>9, <1>10, <2>1
<1>11. ASSUME NEW len \in {-1} \cup 1..MaxWrite, WriteFromFd(len) PROVE Valid(cb')
  BY <1>11, WriteFromFdKeeps
<1>12. CASE cb' = cb
  BY <1>12
<1>13. CASE Next
  <2>1. ASSUME NEW s \in Strings, Write(s) \/ WriteLine(s) \/ CopyIn(s) PROVE Valid(cb')
    BY <1>9, <2>1, StringsAreSequences, Zenon
  <2> QED
    BY <1>2, <1>3, <1>4, <1>5, <1>6, <1>7, <1>8, <1>10, <1>11, <1>13, <2>1, Zenon DEF Next
<1> QED
  BY <1>12, <1>13

\* The fields keep their types and bounds: indices within the array, used within the
\* size, and the size within what cbuf_create was given.
THEOREM CbufTypeCorrect == Spec => []TypeOK
<1>1. Init => IndInv
  BY CreatedValid DEF Init, IndInv
<1>2. IndInv => TypeOK
  BY DEF Valid, IndInv, TypeOK
<1> QED
  BY <1>1, <1>2, NextKeeps, PTL DEF Spec

\* The condition of cbuf_is_valid, which the code asserts on entry to and exit from
\* every operation, can never fail.
THEOREM IndicesValid == Spec => []IndexValid
<1>1. Init => IndInv
  BY CreatedValid DEF Init, IndInv
<1>2. IndInv => IndexValid
  BY DEF Valid, IndInv, IndexValid
<1> QED
  BY <1>1, <1>2, NextKeeps, PTL DEF Spec

-----------------------------------------------------------------------------
(* The buffer implements the log.  A byte's age is its distance back from  *)
(* i_in: unread bytes are the youngest, replay bytes the next older ones,  *)
(* and wrapping and growing leave the ages of all bytes held alone.        *)

\* Adding less than the modulus to a number wraps its remainder at most once.
LEMMA ModShift ==
  ASSUME NEW m \in Nat \ {0}, NEW a \in Int, NEW d \in 0..(m - 1)
  PROVE  (a + d) % m = IF (a % m) + d < m THEN (a % m) + d ELSE (a % m) + d - m
<1>1. a % m \in 0..(m - 1)
  BY ModRange
<1>2. PICK q \in Int : a = m * q + (a % m)
  <2>1. a = m * (a \div m) + (a % m) /\ a \div m \in Int
    OBVIOUS
  <2> QED
    BY <2>1
<1>3. (a + d) % m \in 0..(m - 1)
  BY ModRange
<1>4. PICK p \in Int : a + d = m * p + ((a + d) % m)
  <2>1. a + d \in Int /\ a + d = m * ((a + d) \div m) + ((a + d) % m) /\ (a + d) \div m \in Int
    OBVIOUS
  <2> QED
    BY <2>1
<1>5. PICK r \in 0..(m - 1) : r = a % m
  BY <1>1
<1>6. PICK s \in 0..(m - 1) : s = (a + d) % m
  BY <1>3
<1>7. m * q + r + d = m * p + s
  BY <1>2, <1>4, <1>5, <1>6
<1>8. m * (p - q) = r + d - s
  BY <1>7
<1>9. p - q \in {0, 1}
  <2>1. ~(p - q >= 2)
    <3> SUFFICES ASSUME p - q >= 2 PROVE FALSE
      OBVIOUS
    <3>1. PICK k \in Nat : p - q = k + 2
      <4>1. p - q - 2 \in Nat
        OBVIOUS
      <4> QED
        BY <4>1
    <3>2. m * (k + 2) = m * k + m + m /\ m * k \in Nat
      OBVIOUS
    <3> QED
      BY <1>8, <3>1, <3>2
  <2>2. ~(p - q <= -1)
    <3> SUFFICES ASSUME p - q <= -1 PROVE FALSE
      OBVIOUS
    <3>1. PICK k \in Nat : p - q = -1 - k
      <4>1. -1 - (p - q) \in Nat
        OBVIOUS
      <4> QED
        BY <4>1
    <3>2. m * (-1 - k) = -(m * k) - m /\ m * k \in Nat
      OBVIOUS
    <3> QED
      BY <1>8, <3>1, <3>2
  <2> QED
    BY <2>1, <2>2
<1>10. s = r + d \/ s = r + d - m
  BY <1>8, <1>9
<1> QED
  BY <1>5, <1>6, <1>10

\* The bytes of a buffer by age: the newest is the first behind i_in.
Cell(c, e) == IF e <= c.i_in THEN c.i_in - e ELSE c.i_in - e + c.size + 1
Aged(c, e) == c.data[Cell(c, e)]
Held(c) == c.used + Reused(c)

\* The counts of a valid buffer.
LEMMA HeldIs ==
  ASSUME NEW c, Valid(c)
  PROVE  /\ Held(c) \in 0..c.size /\ c.used \in 0..c.size /\ Reused(c) \in 0..c.size
         /\ c.used + Reused(c) = Held(c) /\ c.size \in Nat \ {0}
         /\ Free(c) = c.size - c.used
  BY Numbers, ReusedIs DEF Valid, Held, Free

\* A byte of any age up to the size is in the array.
LEMMA CellIs ==
  ASSUME NEW c, Fields(c), NEW e \in 1..c.size
  PROVE  Cell(c, e) \in 0..c.size /\ Aged(c, e) \in Bytes \cup {Junk}
<1>1. Cell(c, e) \in 0..c.size
  BY Numbers DEF Cell
<1>2. c.data \in [0..c.size -> Bytes \cup {Junk}]
  BY DEF Fields
<1> QED
  BY <1>1, <1>2 DEF Aged

\* The fields of a valid buffer, as numbers.
LEMMA PlainNumbers ==
  ASSUME NEW c, Valid(c)
  PROVE  \E S \in Nat \ {0} : \E i, o, r, u, R \in 0..S :
           /\ S = c.size /\ i = c.i_in /\ o = c.i_out /\ r = c.i_rep /\ u = c.used
           /\ R = Reused(c) /\ R = Way(S, r, o) /\ Order(S, i, o, r, u) /\ u + R <= S
<1>1. Fields(c) /\ Order(c.size, c.i_in, c.i_out, c.i_rep, c.used)
  BY IndicesLinear DEF Valid, Linear
<1>2. /\ c.size \in Nat \ {0} /\ c.i_in \in 0..c.size /\ c.i_out \in 0..c.size
      /\ c.i_rep \in 0..c.size /\ c.used \in 0..c.size
  BY <1>1, Numbers
<1>3. Reused(c) \in 0..c.size /\ c.used + Reused(c) <= c.size
  BY HeldIs
<1>4. Reused(c) = Way(c.size, c.i_rep, c.i_out)
  BY ReusedIs, Zenon DEF Way
<1> QED
  BY <1>1, <1>2, <1>3, <1>4, Zenon

\* The unread bytes are the youngest, the oldest of them first.
LEMMA UnreadByAge ==
  ASSUME NEW c, Valid(c)
  PROVE  Unread(c) = [k \in 1..c.used |-> Aged(c, c.used - k + 1)]
<1>1. PICK S \in Nat \ {0} : \E i, o, r, u, R \in 0..S :
        /\ S = c.size /\ i = c.i_in /\ o = c.i_out /\ r = c.i_rep /\ u = c.used
        /\ R = Reused(c) /\ R = Way(S, r, o) /\ Order(S, i, o, r, u) /\ u + R <= S
  BY PlainNumbers, Zenon
<1>2. PICK i, o, r, u, R \in 0..S :
        /\ S = c.size /\ i = c.i_in /\ o = c.i_out /\ r = c.i_rep /\ u = c.used
        /\ R = Reused(c) /\ R = Way(S, r, o) /\ Order(S, i, o, r, u) /\ u + R <= S
  BY <1>1, Zenon
<1>3. ASSUME NEW k \in 1..u
      PROVE  (o + k - 1) % (S + 1) = IF u - k + 1 <= i THEN i - (u - k + 1)
                                     ELSE i - (u - k + 1) + S + 1
  <2> DEFINE x == o + k - 1
             m == S + 1
  <2>1. m \in Nat \ {0} /\ x \in 0..(2 * m - 1) /\ x = o + k - 1 /\ m = S + 1
    BY <1>2
  <2> HIDE DEF x, m
  <2>2. x % m = IF x < m THEN x ELSE x - m
    BY <2>1, ModOnce
  <2>3. (IF x < m THEN x ELSE x - m) = IF u - k + 1 <= i THEN i - (u - k + 1)
                                       ELSE i - (u - k + 1) + S + 1
    BY <1>2, <2>1 DEF Order
  <2> QED
    BY <2>2, <2>3 DEF x, m
<1> QED
  BY <1>2, <1>3, Zenon DEF Unread, Region, Aged, Cell

\* The bytes kept for replay are the next older ones.
LEMMA ReplayByAge ==
  ASSUME NEW c, Valid(c)
  PROVE  Replay(c) = [k \in 1..Reused(c) |-> Aged(c, Held(c) - k + 1)]
<1>1. PICK S \in Nat \ {0} : \E i, o, r, u, R \in 0..S :
        /\ S = c.size /\ i = c.i_in /\ o = c.i_out /\ r = c.i_rep /\ u = c.used
        /\ R = Reused(c) /\ R = Way(S, r, o) /\ Order(S, i, o, r, u) /\ u + R <= S
  BY PlainNumbers, Zenon
<1>2. PICK i, o, r, u, R \in 0..S :
        /\ S = c.size /\ i = c.i_in /\ o = c.i_out /\ r = c.i_rep /\ u = c.used
        /\ R = Reused(c) /\ R = Way(S, r, o) /\ Order(S, i, o, r, u) /\ u + R <= S
  BY <1>1, Zenon
<1>3. ASSUME NEW k \in 1..R
      PROVE  (r + k - 1) % (S + 1) = IF u + R - k + 1 <= i THEN i - (u + R - k + 1)
                                     ELSE i - (u + R - k + 1) + S + 1
  <2> DEFINE x == r + k - 1
             m == S + 1
  <2>1. m \in Nat \ {0} /\ x \in 0..(2 * m - 1) /\ x = r + k - 1 /\ m = S + 1
    BY <1>2
  <2> HIDE DEF x, m
  <2>2. x % m = IF x < m THEN x ELSE x - m
    BY <2>1, ModOnce
  <2>3. (IF x < m THEN x ELSE x - m) = IF u + R - k + 1 <= i THEN i - (u + R - k + 1)
                                       ELSE i - (u + R - k + 1) + S + 1
    BY <1>2, <2>1 DEF Order, Way
  <2> QED
    BY <2>2, <2>3 DEF x, m
<1>4. ASSUME NEW k \in 1..Reused(c)
      PROVE  (c.i_rep + k - 1) % (c.size + 1) = Cell(c, Held(c) - k + 1)
  <2>1. Held(c) = u + R
    BY <1>2 DEF Held
  <2> QED
    BY <1>2, <1>3, <2>1 DEF Cell
<1> QED
  BY <1>4, Zenon DEF Replay, Region, Aged

\* The bytes between i_rep and i_in are those held.
LEMMA HeldIsWay ==
  ASSUME NEW c, Valid(c)
  PROVE  Held(c) = Way(c.size, c.i_rep, c.i_in)
<1>1. PICK S \in Nat \ {0} : \E i, o, r, u, R \in 0..S :
        /\ S = c.size /\ i = c.i_in /\ o = c.i_out /\ r = c.i_rep /\ u = c.used
        /\ R = Reused(c) /\ R = Way(S, r, o) /\ Order(S, i, o, r, u) /\ u + R <= S
  BY PlainNumbers, Zenon
<1>2. PICK i, o, r, u, R \in 0..S :
        /\ S = c.size /\ i = c.i_in /\ o = c.i_out /\ r = c.i_rep /\ u = c.used
        /\ R = Reused(c) /\ R = Way(S, r, o) /\ Order(S, i, o, r, u) /\ u + R <= S
  BY <1>1, Zenon
<1>3. u + R = Way(S, r, i)
  BY <1>2 DEF Way, Order
<1> QED
  BY <1>2, <1>3, Zenon DEF Held

\* What copying bytes in does to each field.
LEMMA StoredFields ==
  ASSUME NEW c, Valid(c), NEW s \in Seq(Bytes)
  PROVE  LET d == Stored(c, s)
             in == (c.i_in + Len(s)) % (c.size + 1)
             wraps == Len(s) > Free(c) - Reused(c)
             rep == IF wraps THEN (in + 1) % (c.size + 1) ELSE c.i_rep
         IN /\ d.size = c.size /\ d.overwrite = c.overwrite
            /\ d.used = Smaller(c.used + Len(s), c.size) /\ d.i_in = in
            /\ d.got_wrap = (c.got_wrap \/ wraps) /\ d.i_rep = rep
            /\ d.i_out = (IF Len(s) > Free(c) THEN rep ELSE c.i_out)
            /\ d.data = WrittenData(c, s)
<1> DEFINE in == (c.i_in + Len(s)) % (c.size + 1)
           wraps == Len(s) > Free(c) - Reused(c)
           rep == IF wraps THEN (in + 1) % (c.size + 1) ELSE c.i_rep
           out == IF Len(s) > Free(c) THEN rep ELSE c.i_out
           used == Smaller(c.used + Len(s), c.size)
           got == c.got_wrap \/ wraps
           new == WrittenData(c, s)
<1>1. Stored(c, s) = [c EXCEPT !.used = used, !.i_in = in, !.got_wrap = got, !.i_rep = rep,
                               !.i_out = out, !.data = new]
  BY DEF Stored
<1>2. c \in Buffers
  BY DEF Valid, Fields
<1> HIDE DEF used, in, got, rep, out, new
<1>3. LET d == Stored(c, s) IN
      /\ d.size = c.size /\ d.overwrite = c.overwrite /\ d.used = used /\ d.i_in = in
      /\ d.got_wrap = got /\ d.i_rep = rep /\ d.i_out = out /\ d.data = new
  BY <1>1, <1>2 DEF Buffers
<1> QED
  BY <1>3, Zenon DEF used, in, got, rep, out, new

\* The bytes copied in are the newest, and those before them have grown older.
LEMMA StoredBytes ==
  ASSUME NEW c, Valid(c), NEW s \in Seq(Bytes), s # <<>>, NEW e \in 1..c.size
  PROVE  Aged(Stored(c, s), e) = IF e <= Len(s) THEN s[Len(s) - e + 1]
                                 ELSE Aged(c, e - Len(s))
<1> DEFINE d == Stored(c, s)
           j == Cell(d, e)
<1>1. PICK S \in Nat \ {0} : S = c.size
  BY HeldIs
<1>2. PICK i \in 0..S : i = c.i_in
  BY <1>1, Numbers DEF Valid
<1>3. PICK n \in Nat \ {0} : n = Len(s)
  OBVIOUS
<1>4. PICK m \in Nat \ {0} : m = S + 1
  OBVIOUS
<1>5. PICK a \in Nat : a = i + n
  OBVIOUS
<1>6. PICK in \in 0..S : in = a % m
  <2>1. a \in Int
    OBVIOUS
  <2>2. a % m \in 0..(m - 1)
    BY <2>1, ModRange, Zenon
  <2> QED
    BY <1>4, <2>2
<1>7. d.size = S /\ d.i_in = in /\ d.data = WrittenData(c, s)
  <2>1. (c.i_in + Len(s)) % (c.size + 1) = in
    BY <1>1, <1>2, <1>3, <1>4, <1>5, <1>6
  <2> QED
    BY <1>1, <2>1, StoredFields, Zenon
<1>8. j = IF e <= in THEN in - e ELSE in - e + m
  BY <1>4, <1>7 DEF Cell
<1> HIDE DEF j
<1>9. e \in 1..S /\ j \in 0..S /\ S - j \in 0..(m - 1)
  <2>1. e \in 1..S
    BY <1>1
  <2>2. j \in 0..S
    BY <1>4, <1>8, <2>1
  <2> QED
    BY <1>4, <2>1, <2>2
<1>10. (a + (S - j)) % m = e - 1
  <2>1. PICK f \in 0..(m - 1) : f = S - j
    BY <1>9
  <2>2. (a + f) % m = IF (a % m) + f < m THEN (a % m) + f ELSE (a % m) + f - m
    <3>1. a \in Int
      OBVIOUS
    <3> QED
      BY <3>1, ModShift, Zenon
  <2>3. (IF in + f < m THEN in + f ELSE in + f - m) = e - 1
    BY <1>4, <1>8, <1>9, <2>1
  <2> QED
    BY <1>6, <2>1, <2>2, <2>3
<1>11. (i + n + S - j) % m = e - 1
  <2>1. i + n + S - j = a + (S - j)
    BY <1>5, <1>9
  <2> QED
    BY <1>10, <2>1
<1>12. d.data[j] = IF n - (e - 1) >= 1 THEN s[n - (e - 1)] ELSE c.data[j]
  <2>1. d.data = [x \in 0..S |->
                    LET k == n - ((i + n + S - x) % m)
                    IN IF k >= 1 THEN s[k] ELSE c.data[x]]
    BY <1>1, <1>2, <1>3, <1>4, <1>7, Zenon DEF WrittenData
  <2> QED
    BY <1>9, <1>11, <2>1
<1>13. e > n => j = Cell(c, e - n)
  <2> SUFFICES ASSUME e > n PROVE j = Cell(c, e - n)
    OBVIOUS
  <2>1. a % m = IF a < m THEN a ELSE a - m
    <3>1. a \in 0..(2 * m - 1)
      BY <1>4, <1>5, <1>9
    <3> QED
      BY <3>1, ModOnce
  <2>2. j = IF e - n <= i THEN i - (e - n) ELSE i - (e - n) + S + 1
    BY <1>4, <1>5, <1>6, <1>8, <1>9, <2>1, SMTT(30)
  <2> QED
    BY <1>1, <1>2, <2>2 DEF Cell
<1>14. CASE e <= n
  <2>1. n - (e - 1) = n - e + 1 /\ n - (e - 1) >= 1
    BY <1>9, <1>14
  <2> QED
    BY <1>3, <1>12, <1>14, <2>1 DEF Aged, j
<1>15. CASE ~(e <= n)
  <2>1. ~(n - (e - 1) >= 1) /\ e > n
    BY <1>9, <1>15
  <2>2. d.data[j] = c.data[j]
    BY <1>12, <2>1
  <2> QED
    BY <1>3, <1>13, <1>15, <2>1, <2>2 DEF Aged, j
<1> QED
  BY <1>14, <1>15

\* The bytes x were appended when the size was n: unread ones give way last.
Pushed(c, d, x, n) ==
  /\ n \in c.size..d.size
  /\ d.used = Smaller(c.used + Len(x), n)
  /\ Reused(d) = Smaller(Reused(c), n - d.used)
  /\ \A e \in 1..Held(d) : Aged(d, e) = IF e <= Len(x) THEN x[Len(x) - e + 1]
                                        ELSE Aged(c, e - Len(x))
  /\ d.got_wrap <=> c.got_wrap \/ Held(c) + Len(x) > n
  /\ d.overwrite = c.overwrite

\* Copying bytes in appends them at the size there is.
LEMMA StoredPushes ==
  ASSUME NEW c, Valid(c), NEW s \in Seq(Bytes), s # <<>>
  PROVE  Pushed(c, Stored(c, s), s, c.size)
<1> DEFINE d == Stored(c, s)
<1>1. PICK S \in Nat \ {0} : \E i, o, r, u, R \in 0..S :
        /\ S = c.size /\ i = c.i_in /\ o = c.i_out /\ r = c.i_rep /\ u = c.used
        /\ R = Reused(c) /\ R = Way(S, r, o) /\ Order(S, i, o, r, u) /\ u + R <= S
  BY PlainNumbers, Zenon
<1>2. PICK i, o, r, u, R \in 0..S :
        /\ S = c.size /\ i = c.i_in /\ o = c.i_out /\ r = c.i_rep /\ u = c.used
        /\ R = Reused(c) /\ R = Way(S, r, o) /\ Order(S, i, o, r, u) /\ u + R <= S
  BY <1>1, Zenon
<1>3. PICK n \in Nat \ {0} : n = Len(s)
  OBVIOUS
<1>4. PICK m \in Nat \ {0} : m = S + 1
  OBVIOUS
<1>5. PICK a \in Nat : a = i + n
  OBVIOUS
<1>6. PICK in \in 0..S : in = a % m
  <2>1. a \in Int
    OBVIOUS
  <2>2. a % m \in 0..(m - 1)
    BY <2>1, ModRange, Zenon
  <2> QED
    BY <1>4, <2>2
<1>7. PICK x \in 0..S : x = (in + 1) % m /\ x = IF in = S THEN 0 ELSE in + 1
  <2>1. PICK y \in Nat : y = in + 1
    OBVIOUS
  <2>2. y \in 0..(2 * m - 1)
    BY <1>4, <2>1
  <2>3. y % m = IF y < m THEN y ELSE y - m
    BY <2>2, ModOnce, Zenon
  <2>4. (IF y < m THEN y ELSE y - m) = IF in = S THEN 0 ELSE in + 1
    BY <1>4, <2>1
  <2> QED
    BY <2>1, <2>3, <2>4
<1>8. Free(c) = S - u
  BY <1>2 DEF Free
<1>9. PICK wraps \in BOOLEAN : wraps <=> n + u + R > S
  OBVIOUS
<1>10. /\ d.size = S /\ d.overwrite = c.overwrite /\ d.used = Smaller(u + n, S)
       /\ d.i_rep = IF wraps THEN x ELSE r
       /\ d.i_out = IF n > S - u THEN IF wraps THEN x ELSE r ELSE o
       /\ d.got_wrap = (c.got_wrap \/ wraps)
  <2>1. (Len(s) > Free(c) - Reused(c)) <=> wraps
    BY <1>2, <1>3, <1>8, <1>9, SMTT(30)
  <2>2. (((c.i_in + Len(s)) % (c.size + 1)) + 1) % (c.size + 1) = x
    <3>1. c.size + 1 = m /\ c.i_in + Len(s) = a
      BY <1>2, <1>3, <1>4, <1>5, Zenon
    <3> QED
      BY <1>6, <1>7, <3>1, Zenon
  <2>3. c.used + Len(s) = u + n /\ Free(c) = S - u
    BY <1>2, <1>3, <1>8
  <2> HIDE DEF d
  <2>4. /\ d.size = c.size /\ d.overwrite = c.overwrite
        /\ d.used = Smaller(c.used + Len(s), c.size)
        /\ d.got_wrap = (c.got_wrap \/ Len(s) > Free(c) - Reused(c))
        /\ d.i_rep = (IF Len(s) > Free(c) - Reused(c)
                      THEN (((c.i_in + Len(s)) % (c.size + 1)) + 1) % (c.size + 1) ELSE c.i_rep)
        /\ d.i_out = (IF Len(s) > Free(c) THEN d.i_rep ELSE c.i_out)
    BY StoredFields, ZenonT(30) DEF d
  <2> QED
    BY <1>2, <1>3, <2>1, <2>2, <2>3, <2>4, ZenonT(30)
<1>11. Valid(d)
  BY StoreKeeps
<1> HIDE DEF d
<1>12. Reused(d) = Way(S, d.i_rep, d.i_out)
  BY <1>10, <1>11, ReusedIs, Zenon DEF Way
<1>13. Reused(d) = Smaller(R, S - d.used)
  <2>1. CASE n > S - u
    <3>1. wraps /\ d.i_rep = x /\ d.i_out = x /\ d.used = S
      BY <1>9, <1>10, <2>1 DEF Smaller
    <3> QED
      BY <1>12, <3>1 DEF Way, Smaller
  <2>2. CASE ~(n > S - u)
    <3>1. in = IF a < m THEN a ELSE a - m
      <4>1. a \in 0..(2 * m - 1)
        BY <1>4, <1>5, <2>2
      <4> QED
        BY <1>6, <4>1, ModOnce, Zenon
    <3>2. in = IF i + n < S + 1 THEN i + n ELSE i + n - (S + 1)
      BY <1>4, <1>5, <3>1
    <3>3. PICK y \in 0..S : y = IF wraps THEN x ELSE r
      OBVIOUS
    <3>4. y = IF n + u + R > S THEN IF in = S THEN 0 ELSE in + 1 ELSE r
      BY <1>7, <1>9, <3>3
    <3>5. n + u <= S
      BY <2>2
    <3>6. R = Way(S, r, o) /\ Order(S, i, o, r, u) /\ u + R <= S
      BY <1>2
    <3>7. Way(S, y, o) = Smaller(R, S - (u + n))
      <4>1. CASE n + u + R > S /\ i >= o
        BY <3>6, <3>2, <3>4, <3>5, <4>1 DEF Order, Way, Smaller
      <4>2. CASE n + u + R > S /\ i < o
        BY <3>6, <3>2, <3>4, <3>5, <4>2 DEF Order, Way, Smaller
      <4>3. CASE n + u + R <= S
        BY <3>6, <3>4, <3>5, <4>3 DEF Smaller
      <4> QED
        BY <4>1, <4>2, <4>3
    <3>8. d.i_rep = y /\ d.i_out = o /\ d.used = u + n
      BY <1>10, <2>2, <3>3 DEF Smaller
    <3> QED
      BY <1>12, <3>7, <3>8
  <2> QED
    BY <2>1, <2>2
<1>14. ASSUME NEW e \in 1..Held(d)
       PROVE  Aged(d, e) = IF e <= n THEN s[n - e + 1] ELSE Aged(c, e - n)
  <2>1. Held(d) \in 0..S
    BY <1>10, <1>11, HeldIs
  <2>2. e \in 1..c.size
    BY <1>2, <2>1
  <2> QED
    BY <1>3, <2>2, StoredBytes DEF d
<1>15. Held(c) + n > S <=> wraps
  BY <1>2, <1>9 DEF Held
<1>16. S \in c.size..d.size
  BY <1>2, <1>10
<1> QED
  BY <1>2, <1>3, <1>10, <1>13, <1>14, <1>15, <1>16, Zenon DEF Pushed, d

\* Growing moves bytes about but every byte held keeps its age.
LEMMA GrownToPushes ==
  ASSUME NEW c, Valid(c), NEW s \in (c.size + 1)..MaxSize
  PROVE  Pushed(c, GrownTo(c, s), <<>>, s) /\ GrownTo(c, s).size = s
<1> DEFINE g == GrownTo(c, s)
           shift == s - c.size
           wraps == c.i_rep > c.i_in
           rep == IF wraps THEN c.i_rep + shift ELSE c.i_rep
           out == IF wraps /\ c.i_out >= c.i_rep THEN c.i_out + shift ELSE c.i_out
           new == [j \in 0..s |-> IF wraps /\ j >= rep THEN c.data[j - shift]
                                  ELSE IF j <= c.size THEN c.data[j] ELSE Junk]
<1>1. /\ g.size = s /\ g.used = c.used /\ g.overwrite = c.overwrite /\ g.got_wrap = c.got_wrap
      /\ g.i_in = c.i_in /\ g.i_rep = rep /\ g.data = new
  <2>1. g = [c EXCEPT !.size = s, !.i_out = out, !.i_rep = rep, !.data = new]
    BY DEF GrownTo
  <2>2. c \in Buffers
    BY DEF Valid, Fields
  <2> HIDE DEF g, rep, out, new
  <2> QED
    BY <2>1, <2>2 DEF Buffers
<1>2. Valid(g)
  BY GrowKeeps
<1> HIDE DEF g
<1>3. PICK S \in Nat \ {0} : \E i, o, r, u, R \in 0..S :
        /\ S = c.size /\ i = c.i_in /\ o = c.i_out /\ r = c.i_rep /\ u = c.used
        /\ R = Reused(c) /\ R = Way(S, r, o) /\ Order(S, i, o, r, u) /\ u + R <= S
  BY PlainNumbers, Zenon
<1>4. PICK i, o, r, u, R \in 0..S :
        /\ S = c.size /\ i = c.i_in /\ o = c.i_out /\ r = c.i_rep /\ u = c.used
        /\ R = Reused(c) /\ R = Way(S, r, o) /\ Order(S, i, o, r, u) /\ u + R <= S
  BY <1>3, Zenon
<1>5. s \in Nat /\ s > S /\ s \in S..s
  <2>1. s \in (S + 1)..MaxSize
    BY <1>4
  <2>2. MaxSize \in Nat
    BY CbufAssumption
  <2> QED
    BY <2>1, <2>2
<1>6. PICK q \in Nat : q = IF r > i THEN r + (s - S) ELSE r
  <2>1. r \in Nat /\ r + (s - S) \in Nat
    BY <1>5
  <2> QED
    BY <2>1
<1>7. rep = q
  BY <1>4, <1>6, Zenon
<1>8. Held(c) = Way(S, r, i) /\ Held(c) = u + R
  BY <1>4, HeldIsWay, Zenon DEF Held
<1>9. Held(g) = Way(s, q, i)
  BY <1>1, <1>2, <1>4, <1>7, HeldIsWay, Zenon
<1>10. Way(s, q, i) = Way(S, r, i)
  BY <1>5, <1>6 DEF Way
<1>11. Reused(g) = R /\ Held(g) = u + R
  <2>1. Held(g) = u + R
    BY <1>8, <1>9, <1>10
  <2>2. g.used + Reused(g) = Held(g) /\ Reused(g) \in 0..g.size
    BY <1>2, HeldIs
  <2>3. g.used = u /\ g.size \in Nat
    BY <1>1, <1>4, <1>5
  <2> QED
    BY <2>1, <2>2, <2>3
<1>12. ASSUME NEW e \in 1..Held(g) PROVE Aged(g, e) = Aged(c, e)
  <2>1. e \in 1..(u + R) /\ u + R = Way(S, r, i)
    BY <1>8, <1>11
  <2>2. CASE e <= i
    <3>1. PICK j \in 0..S : j = i - e
      BY <2>1, <2>2
    <3>2. Cell(g, e) = j /\ Cell(c, e) = j
      BY <1>1, <1>4, <2>2, <3>1 DEF Cell
    <3>3. j \in 0..s /\ ~(r > i /\ j >= q) /\ j <= S
      BY <1>5, <1>6, <2>1, <3>1
    <3>4. new[j] = c.data[j]
      BY <1>4, <1>7, <3>3
    <3> QED
      BY <1>1, <3>2, <3>4, Zenon DEF Aged
  <2>3. CASE e > i
    <3>1. PICK j \in 0..S : j = i - e + S + 1
      BY <1>4, <2>1, <2>3
    <3>2. PICK k \in 0..s : k = i - e + s + 1
      BY <1>4, <1>5, <2>1, <2>3
    <3>3. Cell(g, e) = k /\ Cell(c, e) = j
      <4>1. g.i_in = i /\ g.size = s /\ c.i_in = i /\ c.size = S /\ ~(e <= i)
        BY <1>1, <1>4, <2>1, <2>3
      <4> QED
        BY <3>1, <3>2, <4>1, Zenon DEF Cell
    <3>4. r > i /\ k >= q /\ k - (s - S) = j
      BY <1>5, <1>6, <2>1, <2>3, <3>1, <3>2 DEF Way
    <3>5. new[k] = c.data[k - (s - S)]
      BY <1>4, <1>7, <3>4
    <3> QED
      BY <1>1, <3>3, <3>4, <3>5 DEF Aged
  <2> QED
    BY <1>4, <2>1, <2>2, <2>3
<1>13. PICK n \in Nat : n = 0 /\ n = Len(<<>>)
  OBVIOUS
<1>14. g.used = Smaller(c.used + n, s) /\ Reused(g) = Smaller(Reused(c), s - g.used)
  BY <1>1, <1>4, <1>5, <1>11, <1>13 DEF Smaller
<1>15. ~(Held(c) + n > s)
  BY <1>4, <1>5, <1>8, <1>13
<1>16. ASSUME NEW e \in 1..Held(g)
       PROVE  Aged(g, e) = IF e <= n THEN <<>>[n - e + 1] ELSE Aged(c, e - n)
  <2>1. ~(e <= n) /\ e - n = e
    BY <1>11, <1>13
  <2> QED
    BY <1>12, <2>1
<1>17. s \in c.size..g.size
  BY <1>1, <1>4, <1>5
<1>18. Pushed(c, g, <<>>, s)
  BY <1>1, <1>13, <1>14, <1>15, <1>16, <1>17, Zenon DEF Pushed
<1> QED
  BY <1>1, <1>18 DEF g

\* A buffer left alone has had nothing appended.
LEMMA NothingPushed ==
  ASSUME NEW c, Valid(c) PROVE Pushed(c, c, <<>>, c.size)
<1>1. PICK n \in Nat : n = 0 /\ n = Len(<<>>)
  OBVIOUS
<1>2. c.size \in c.size..c.size
  BY HeldIs
<1>3. c.used = Smaller(c.used + n, c.size) /\ Reused(c) = Smaller(Reused(c), c.size - c.used)
  BY <1>1, HeldIs DEF Smaller
<1>4. ~(Held(c) + n > c.size)
  BY <1>1, HeldIs
<1>5. ASSUME NEW e \in 1..Held(c)
      PROVE  Aged(c, e) = IF e <= n THEN <<>>[n - e + 1] ELSE Aged(c, e - n)
  <2>1. ~(e <= n) /\ e - n = e
    BY <1>1
  <2> QED
    BY <2>1
<1> QED
  BY <1>1, <1>2, <1>3, <1>4, <1>5, Zenon DEF Pushed

\* Making room keeps every byte, whatever realloc does.
LEMMA GrownPushes ==
  ASSUME NEW c, Valid(c), NEW len \in Nat, NEW g \in Grown(c, len)
  PROVE  Pushed(c, g, <<>>, g.size)
<1>1. CASE len > Free(c) /\ c.size < MaxSize
  <2>1. GrownSize(c, len - Free(c)) \in (c.size + 1)..MaxSize
    <3>1. Fields(c) /\ len - Free(c) \in Nat \ {0}
      BY <1>1, Numbers DEF Valid
    <3> QED
      BY <1>1, <3>1, GrownSizeIs
  <2>2. g \in {GrownTo(c, GrownSize(c, len - Free(c))), c}
    BY <1>1, Zenon DEF Grown
  <2> QED
    BY <2>1, <2>2, GrownToPushes, NothingPushed
<1>2. CASE ~(len > Free(c) /\ c.size < MaxSize)
  BY <1>2, NothingPushed DEF Grown
<1> QED
  BY <1>1, <1>2

\* Appending x and then y is appending both at once: if x had to push bytes out of n, then
\* y was appended to what had been left.
LEMMA PushedTwice ==
  ASSUME NEW c, NEW d, NEW f, Valid(c), Valid(d), Valid(f),
         NEW x \in Seq(Bytes), NEW y \in Seq(Bytes), NEW n, NEW k,
         Pushed(c, d, x, n), Pushed(d, f, y, k)
  PROVE  Pushed(c, f, x \o y, Smaller(n + Len(y), k))
<1>1. PICK a \in Nat, b \in Nat : a = Len(x) /\ b = Len(y)
  OBVIOUS
<1>2. PICK u, R, u1, R1, u2, R2 \in Nat :
        /\ u = c.used /\ R = Reused(c) /\ u1 = d.used /\ R1 = Reused(d)
        /\ u2 = f.used /\ R2 = Reused(f)
  <2>1. /\ c.used \in Nat /\ Reused(c) \in Nat /\ d.used \in Nat /\ Reused(d) \in Nat
        /\ f.used \in Nat /\ Reused(f) \in Nat
    BY HeldIs
  <2> QED
    BY <2>1, Zenon
<1>3. PICK S, S1, S2 \in Nat : S = c.size /\ S1 = d.size /\ S2 = f.size
  <2>1. c.size \in Nat /\ d.size \in Nat /\ f.size \in Nat
    BY HeldIs
  <2> QED
    BY <2>1, Zenon
<1>4. n \in S..S1 /\ k \in S1..S2 /\ u <= S
  BY <1>2, <1>3, HeldIs DEF Pushed
<1>5. /\ u1 = Smaller(u + a, n) /\ R1 = Smaller(R, n - u1)
      /\ u2 = Smaller(u1 + b, k) /\ R2 = Smaller(R1, k - u2)
  BY <1>1, <1>2 DEF Pushed
<1>6. PICK N \in Nat : N = Smaller(n + b, k)
  BY <1>4 DEF Smaller
<1>7. N \in S..S2
  BY <1>4, <1>6 DEF Smaller
<1>8. u2 = Smaller(u + (a + b), N)
  BY <1>4, <1>5, <1>6 DEF Smaller
<1>9. R2 = Smaller(R, N - u2)
  BY <1>4, <1>5, <1>6 DEF Smaller
<1>10. (u + R + a > n \/ u1 + R1 + b > k) <=> u + R + (a + b) > N
  BY <1>4, <1>5, <1>6 DEF Smaller
<1>11. Held(c) = u + R /\ Held(d) = u1 + R1 /\ Held(f) = u2 + R2
  BY <1>2 DEF Held
<1>12. f.got_wrap <=> c.got_wrap \/ Held(c) + (a + b) > N
  <2>1. f.got_wrap <=> c.got_wrap \/ Held(c) + a > n \/ Held(d) + b > k
    BY <1>1, Zenon DEF Pushed
  <2> QED
    BY <1>10, <1>11, <2>1
<1>13. x \o y \in Seq(Bytes) /\ Len(x \o y) = a + b
  BY <1>1
<1>14. ASSUME NEW e \in 1..Held(f)
       PROVE  Aged(f, e) = IF e <= a + b THEN (x \o y)[a + b - e + 1] ELSE Aged(c, e - (a + b))
  <2>1. Aged(f, e) = IF e <= b THEN y[b - e + 1] ELSE Aged(d, e - b)
    BY <1>1 DEF Pushed
  <2>2. e \in Nat \ {0} /\ e <= u2 + R2
    BY <1>11
  <2>3. CASE e <= b
    <3>1. (x \o y)[a + b - e + 1] = y[b - e + 1]
      BY <1>1, <2>2, <2>3
    <3> QED
      BY <2>1, <2>2, <2>3, <3>1
  <2>4. CASE ~(e <= b)
    <3>1. e - b \in 1..(u1 + R1)
      BY <1>4, <1>5, <2>2, <2>4 DEF Smaller
    <3>2. PICK w \in Nat : w = e - b
      BY <3>1
    <3>3. w \in 1..Held(d)
      BY <1>11, <3>1, <3>2
    <3>4. Aged(d, w) = IF w <= a THEN x[a - w + 1] ELSE Aged(c, w - a)
      BY <1>1, <3>3 DEF Pushed
    <3>5. w <= a => (x \o y)[a + b - e + 1] = x[a - w + 1]
      BY <1>1, <3>1, <3>2
    <3>6. (w <= a <=> e <= a + b) /\ w - a = e - (a + b)
      BY <2>2, <3>2
    <3> QED
      BY <2>1, <2>4, <3>2, <3>4, <3>5, <3>6
  <2> QED
    BY <2>3, <2>4
<1>15. f.overwrite = c.overwrite
  BY DEF Pushed
<1>16. PICK L \in Nat : L = a + b
  OBVIOUS
<1>17. PICK z \in Seq(Bytes) : z = x \o y /\ Len(z) = L
  BY <1>13, <1>16
<1>18. Pushed(c, f, z, N)
  <2>1. N \in c.size..f.size
    BY <1>3, <1>7
  <2>2. f.used = Smaller(c.used + L, N) /\ Reused(f) = Smaller(Reused(c), N - f.used)
    BY <1>2, <1>8, <1>9, <1>16
  <2>3. f.got_wrap <=> c.got_wrap \/ Held(c) + L > N
    BY <1>12, <1>16, Zenon
  <2>4. \A e \in 1..Held(f) : Aged(f, e) = IF e <= L THEN z[L - e + 1] ELSE Aged(c, e - L)
    BY <1>14, <1>16, <1>17
  <2> QED
    BY <1>15, <1>17, <2>1, <2>2, <2>3, <2>4, Zenon DEF Pushed
<1> QED
  BY <1>1, <1>6, <1>17, <1>18

-----------------------------------------------------------------------------
(* From ages to the sequences of CbufLog. *)

\* What a cell may hold.
Memory == Bytes \cup {Junk}

\* The last n elements of a sequence.
LEMMA KeepIs ==
  ASSUME NEW s \in Seq(Memory), NEW n \in Nat
  PROVE  LET L == Smaller(Len(s), n) IN
         /\ Log!Keep(n, s) \in Seq(Memory) /\ Len(Log!Keep(n, s)) = L
         /\ \A k \in 1..L : Log!Keep(n, s)[k] = s[Len(s) - L + k]
<1> DEFINE L == Smaller(Len(s), n)
<1>1. PICK l \in Nat : l = Len(s)
  OBVIOUS
<1>2. CASE l <= n
  <2>1. Log!Keep(n, s) = s /\ L = l
    BY <1>1, <1>2 DEF Log!Keep, Smaller
  <2> QED
    BY <1>1, <2>1
<1>3. CASE ~(l <= n)
  <2>1. Log!Keep(n, s) = SubSeq(s, l - n + 1, l) /\ L = n
    BY <1>1, <1>3 DEF Log!Keep, Smaller
  <2>2. PICK m \in Int : m = l - n + 1
    OBVIOUS
  <2>3. \A k \in m..l : s[k] \in Memory
    BY <1>1, <1>3, <2>2
  <2>4. PICK t : t = SubSeq(s, m, l)
    OBVIOUS
  <2>5. /\ t \in Seq(Memory) /\ Len(t) = IF m <= l THEN l - m + 1 ELSE 0
        /\ \A k \in 1..(l - m + 1) : t[k] = s[m + k - 1]
    BY <2>3, <2>4, SubSeqProperties
  <2>6. Len(t) = n /\ \A k \in 1..n : t[k] = s[l - n + k]
    BY <1>3, <2>2, <2>5
  <2> QED
    BY <1>1, <2>1, <2>2, <2>4, <2>5, <2>6
<1> QED
  BY <1>2, <1>3

\* The unread bytes as a sequence.
LEMMA UnreadIs ==
  ASSUME NEW c, Valid(c)
  PROVE  /\ Unread(c) \in Seq(Memory) /\ Len(Unread(c)) = c.used
         /\ \A k \in 1..c.used : Unread(c)[k] = Aged(c, c.used - k + 1)
<1>1. PICK u \in Nat : u = c.used /\ u <= c.size
  BY HeldIs
<1>2. Unread(c) = [k \in 1..u |-> Aged(c, u - k + 1)]
  BY <1>1, UnreadByAge
<1>3. ASSUME NEW k \in 1..u PROVE Aged(c, u - k + 1) \in Memory
  <2>1. u - k + 1 \in 1..c.size
    BY <1>1, HeldIs
  <2> QED
    BY <2>1, CellIs DEF Memory, Valid
<1> QED
  BY <1>1, <1>2, <1>3

\* The replay bytes as a sequence.
LEMMA ReplayIs ==
  ASSUME NEW c, Valid(c)
  PROVE  /\ Replay(c) \in Seq(Memory) /\ Len(Replay(c)) = Reused(c)
         /\ \A k \in 1..Reused(c) : Replay(c)[k] = Aged(c, Held(c) - k + 1)
<1>1. PICK R, H \in Nat : R = Reused(c) /\ H = Held(c) /\ H <= c.size /\ R <= H
  <2>1. Reused(c) \in Nat /\ Held(c) \in Nat /\ Held(c) <= c.size /\ Reused(c) <= Held(c)
    BY HeldIs
  <2> QED
    BY <2>1, Zenon
<1>2. Replay(c) = [k \in 1..R |-> Aged(c, H - k + 1)]
  BY <1>1, ReplayByAge
<1>3. ASSUME NEW k \in 1..R PROVE Aged(c, H - k + 1) \in Memory
  <2>1. H - k + 1 \in 1..c.size
    BY <1>1, HeldIs
  <2> QED
    BY <2>1, CellIs DEF Memory, Valid
<1> QED
  BY <1>1, <1>2, <1>3

\* Sequences given by the age of their elements, A before and B after x was appended.
ByAge(U, A) == \A k \in 1..Len(U) : U[k] = A[Len(U) - k + 1]
Older(A, B, x, m) ==
  \A e \in 1..m : B[e] = IF e <= Len(x) THEN x[Len(x) - e + 1] ELSE A[e - Len(x)]
\* The youngest bytes after x was appended to U are the last of U and x.
LEMMA KeptUnread ==
  ASSUME NEW U \in Seq(Memory), NEW V \in Seq(Memory), NEW x \in Seq(Memory), NEW n \in Nat,
         NEW A, NEW B, Len(V) = Smaller(Len(U) + Len(x), n),
         ByAge(U, A), ByAge(V, B), Older(A, B, x, Len(V))
  PROVE  V = Log!Keep(n, U \o x)
<1> USE DEF ByAge, Older
<1>1. PICK u, v, a \in Nat : u = Len(U) /\ v = Len(V) /\ a = Len(x)
  <2>1. Len(U) \in Nat /\ Len(V) \in Nat /\ Len(x) \in Nat
    OBVIOUS
  <2> QED
    BY <2>1, Zenon
<1>2. PICK z \in Seq(Memory) : z = U \o x
  BY ConcatProperties, Zenon
<1>3. Len(z) = u + a /\ \A j \in 1..(u + a) : z[j] = IF j <= u THEN U[j] ELSE x[j - u]
  <2>1. /\ Len(U \o x) = Len(U) + Len(x)
        /\ \A j \in 1..Len(U) + Len(x) : (U \o x)[j] = IF j <= Len(U) THEN U[j] ELSE x[j - Len(U)]
    BY ConcatProperties, Zenon
  <2> QED
    BY <1>1, <1>2, <2>1, Zenon
<1>4. v = Smaller(Len(z), n)
  BY <1>1, <1>3
<1>5. PICK K \in Seq(Memory) : /\ K = Log!Keep(n, z) /\ Len(K) = v
                               /\ \A k \in 1..v : K[k] = z[Len(z) - v + k]
  <2>1. LET L == Smaller(Len(z), n) IN
        /\ Log!Keep(n, z) \in Seq(Memory) /\ Len(Log!Keep(n, z)) = L
        /\ \A k \in 1..L : Log!Keep(n, z)[k] = z[Len(z) - L + k]
    BY KeepIs, Zenon
  <2> QED
    BY <1>4, <2>1, Zenon
<1>6. v <= u + a
  BY <1>3, <1>4 DEF Smaller
<1>7. ASSUME NEW k \in 1..v PROVE V[k] = K[k]
  <2>1. PICK e \in 1..v, j \in 1..(u + a) : e = v - k + 1 /\ j = u + a - v + k
    BY <1>6
  <2>2. V[k] = IF e <= a THEN x[a - e + 1] ELSE A[e - a]
    BY <1>1, <2>1
  <2>3. K[k] = IF j <= u THEN U[j] ELSE x[j - u]
    BY <1>3, <1>5, <2>1
  <2>4. j <= u => U[j] = A[u - j + 1]
    <3>1. \A l \in 1..u : U[l] = A[u - l + 1]
      BY <1>1, Zenon
    <3> QED
      BY <2>1, <3>1, SMTT(30)
  <2>5. (e <= a <=> ~(j <= u)) /\ a - e + 1 = j - u /\ e - a = u - j + 1
    BY <2>1
  <2> QED
    BY <2>2, <2>3, <2>4, <2>5
<1> HIDE DEF Log!Keep
<1>8. Len(V) = Len(K) /\ \A k \in 1..Len(V) : V[k] = K[k]
  BY <1>1, <1>5, <1>7
<1>9. V = K
  BY <1>8, SeqEqual, Zenon
<1> QED
  BY <1>2, <1>5, <1>9

\* What is still kept for replay is the end of what was.
LEMMA KeptReplay ==
  ASSUME NEW P \in Seq(Memory), NEW Q \in Seq(Memory), NEW room \in Nat, NEW t \in Nat,
         NEW A, NEW B, Len(Q) = Smaller(Len(P), room),
         \A k \in 1..Len(P) : P[k] = A[t + Len(P) - k + 1],
         \A k \in 1..Len(Q) : Q[k] = A[t + Len(Q) - k + 1]
  PROVE  Q = Log!Keep(room, P)
<1>1. PICK p, q \in Nat : p = Len(P) /\ q = Len(Q)
  <2>1. Len(P) \in Nat /\ Len(Q) \in Nat
    OBVIOUS
  <2> QED
    BY <2>1, Zenon
<1>2. PICK K \in Seq(Memory) : /\ K = Log!Keep(room, P) /\ Len(K) = q
                               /\ \A k \in 1..q : K[k] = P[Len(P) - q + k]
  <2>1. LET L == Smaller(Len(P), room) IN
        /\ Log!Keep(room, P) \in Seq(Memory) /\ Len(Log!Keep(room, P)) = L
        /\ \A k \in 1..L : Log!Keep(room, P)[k] = P[Len(P) - L + k]
    BY KeepIs, Zenon
  <2>2. q = Smaller(Len(P), room)
    BY <1>1
  <2> QED
    BY <2>1, <2>2, Zenon
<1>3. q <= p
  BY <1>1 DEF Smaller
<1>4. ASSUME NEW k \in 1..q PROVE Q[k] = K[k]
  <2>1. PICK j \in 1..p : j = p - q + k
    BY <1>3
  <2>2. K[k] = A[t + p - j + 1]
    BY <1>1, <1>2, <2>1
  <2>3. Q[k] = A[t + q - k + 1]
    <3>1. k \in 1..Len(Q)
      BY <1>1
    <3>2. Q[k] = A[t + Len(Q) - k + 1]
      BY <3>1, Zenon
    <3>3. t + Len(Q) - k + 1 = t + q - k + 1
      BY <1>1
    <3> QED
      BY <3>2, <3>3, Zenon
  <2>4. t + p - j + 1 = t + q - k + 1
    BY <2>1
  <2> QED
    BY <2>2, <2>3, <2>4, Zenon
<1>5. Len(Q) = Len(K) /\ \A k \in 1..Len(Q) : Q[k] = K[k]
  BY <1>1, <1>2, <1>4
<1>6. Q = K
  BY <1>5, SeqEqual, Zenon
<1> QED
  BY <1>2, <1>6

\* Bytes appended to the buffer are appended to the log.
LEMMA LogPush ==
  ASSUME Valid(cb), Valid(cb'), NEW x \in Seq(Bytes), NEW n, Pushed(cb, cb', x, n),
         n = cb'.size \/ MayFail,
         cb.overwrite = "NO_DROP" => cb.used + Len(x) <= n,
         cb.overwrite = "WRAP_ONCE" => Len(x) <= n,
         cb.used + Len(x) > n => n = MaxSize \/ MayFail
  PROVE  Log!Push(x)
<1>1. PICK c, d : c = cb /\ d = cb'
  OBVIOUS
<1>2. PICK a, u, R, u1, R1 \in Nat :
        /\ a = Len(x) /\ u = c.used /\ R = Reused(c) /\ u1 = d.used /\ R1 = Reused(d)
  <2>1. c.used \in Nat /\ Reused(c) \in Nat /\ d.used \in Nat /\ Reused(d) \in Nat
    BY <1>1, HeldIs
  <2>2. Len(x) \in Nat
    OBVIOUS
  <2> QED
    BY <2>1, <2>2, Zenon
<1>3. PICK U, P, V, Q \in Seq(Memory) :
        /\ U = Unread(c) /\ P = Replay(c) /\ V = Unread(d) /\ Q = Replay(d)
  <2>1. /\ Unread(c) \in Seq(Memory) /\ Replay(c) \in Seq(Memory)
        /\ Unread(d) \in Seq(Memory) /\ Replay(d) \in Seq(Memory)
    BY <1>1, UnreadIs, ReplayIs
  <2> QED
    BY <2>1, Zenon
<1>4. n \in c.size..d.size /\ n \in Nat /\ n \in c.size..MaxSize /\ d.size \in n..MaxSize
  <2>1. c.size \in Nat /\ d.size \in Nat /\ d.size <= MaxSize /\ MaxSize \in Nat
    BY <1>1, Numbers, CbufAssumption DEF Valid
  <2>2. n \in c.size..d.size
    BY <1>1 DEF Pushed
  <2> QED
    BY <2>1, <2>2
<1>5. /\ u1 = Smaller(u + a, n) /\ R1 = Smaller(R, n - u1)
      /\ d.got_wrap <=> c.got_wrap \/ Held(c) + a > n
      /\ d.overwrite = c.overwrite
  BY <1>1, <1>2, Zenon DEF Pushed
<1>6. Held(c) = u + R /\ Held(d) = u1 + R1
  BY <1>2 DEF Held
<1>7. Len(U) = u /\ Len(P) = R /\ Len(V) = u1 /\ Len(Q) = R1
  BY <1>1, <1>2, <1>3, UnreadIs, ReplayIs, Zenon
<1>8. PICK A, B : A = [e \in Nat |-> Aged(c, e)] /\ B = [e \in Nat |-> Aged(d, e)]
  OBVIOUS
<1>9. \A e \in 1..(u1 + R1) : B[e] = IF e <= a THEN x[a - e + 1] ELSE A[e - a]
  <2> SUFFICES ASSUME NEW e \in 1..(u1 + R1)
               PROVE  B[e] = IF e <= a THEN x[a - e + 1] ELSE A[e - a]
    OBVIOUS
  <2>1. Aged(d, e) = IF e <= a THEN x[a - e + 1] ELSE Aged(c, e - a)
    BY <1>1, <1>2, <1>6, Zenon DEF Pushed
  <2>2. e \in Nat /\ (~(e <= a) => e - a \in Nat)
    OBVIOUS
  <2> QED
    BY <1>8, <2>1, <2>2
<1>10. V = Log!Keep(n, U \o x)
  <2>1. ByAge(U, A)
    <3> SUFFICES ASSUME NEW k \in 1..u PROVE U[k] = A[u - k + 1]
      BY <1>7 DEF ByAge
    <3>1. U[k] = Aged(c, u - k + 1)
      BY <1>1, <1>2, <1>3, UnreadIs, Zenon
    <3>2. u - k + 1 \in Nat
      OBVIOUS
    <3> QED
      BY <1>8, <3>1, <3>2
  <2>2. ByAge(V, B)
    <3> SUFFICES ASSUME NEW k \in 1..u1 PROVE V[k] = B[u1 - k + 1]
      BY <1>7 DEF ByAge
    <3>1. V[k] = Aged(d, u1 - k + 1)
      BY <1>1, <1>2, <1>3, UnreadIs, Zenon
    <3>2. u1 - k + 1 \in Nat
      OBVIOUS
    <3> QED
      BY <1>8, <3>1, <3>2
  <2>3. Older(A, B, x, Len(V))
    <3>1. \A e \in 1..u1 : e \in 1..(u1 + R1)
      OBVIOUS
    <3> QED
      BY <1>2, <1>7, <1>9, <3>1, Zenon DEF Older
  <2>4. x \in Seq(Memory)
    <3>1. Bytes \subseteq Memory
      BY DEF Memory
    <3> QED
      BY <3>1, SeqMonotonic, Zenon
  <2>5. Len(V) = Smaller(Len(U) + Len(x), n)
    BY <1>2, <1>5, <1>7, Zenon
  <2> QED
    BY <1>4, <2>1, <2>2, <2>3, <2>4, <2>5, KeptUnread, Zenon
<1>11. u1 \in 0..n
  BY <1>4, <1>5 DEF Smaller
<1>12. Q = Log!Keep(n - Len(V), P)
  <2>1. PICK room \in Nat : room = n - u1
    BY <1>4, <1>11
  <2>2. \A k \in 1..Len(P) : P[k] = A[u + Len(P) - k + 1]
    <3> SUFFICES ASSUME NEW k \in 1..R PROVE P[k] = A[u + R - k + 1]
      BY <1>7
    <3>1. P[k] = Aged(c, u + R - k + 1)
      <4>1. PICK h : h = Held(c) /\ P[k] = Aged(c, h - k + 1)
        BY <1>1, <1>2, <1>3, ReplayIs, Zenon
      <4>2. h = u + R
        BY <1>6, <4>1, Zenon
      <4>3. h - k + 1 = u + R - k + 1
        BY <4>2
      <4> QED
        BY <4>1, <4>3, Zenon
    <3>2. u + R - k + 1 \in Nat
      OBVIOUS
    <3> QED
      BY <1>8, <3>1, <3>2
  <2>3. \A k \in 1..Len(Q) : Q[k] = A[u + Len(Q) - k + 1]
    <3> SUFFICES ASSUME NEW k \in 1..R1 PROVE Q[k] = A[u + R1 - k + 1]
      BY <1>7
    <3>1. Q[k] = Aged(d, u1 + R1 - k + 1)
      <4>1. PICK h : h = Held(d) /\ Q[k] = Aged(d, h - k + 1)
        BY <1>1, <1>2, <1>3, ReplayIs, Zenon
      <4>2. h = u1 + R1
        BY <1>6, <4>1, Zenon
      <4>3. h - k + 1 = u1 + R1 - k + 1
        BY <4>2
      <4> QED
        BY <4>1, <4>3, Zenon
    <3>2. u1 = u + a
      <4>1. u1 = Smaller(u + a, n) /\ R1 = Smaller(R, n - u1)
        BY <1>5, Zenon
      <4> QED
        BY <1>4, <1>11, <4>1, SMTT(30) DEF Smaller
    <3>3. PICK e \in 1..(u1 + R1) : e = u1 + R1 - k + 1
      OBVIOUS
    <3>4. ~(e <= a) /\ e - a = u + R1 - k + 1 /\ e \in Nat
      BY <3>2, <3>3
    <3> QED
      BY <1>8, <1>9, <3>1, <3>3, <3>4
  <2>4. Len(Q) = Smaller(Len(P), room)
    BY <1>5, <1>7, <2>1
  <2>5. Q = Log!Keep(room, P)
    BY <2>2, <2>3, <2>4, KeptReplay, Zenon
  <2> QED
    BY <1>7, <2>1, <2>5
<1>13. d.got_wrap = (c.got_wrap \/ Len(P \o U) + Len(x) > n)
  <2>1. Len(P \o U) = R + u
    BY <1>7, ConcatProperties, Zenon
  <2>2. Len(P \o U) + Len(x) = Held(c) + a
    BY <1>2, <1>6, <2>1
  <2>3. d.got_wrap \in BOOLEAN /\ c.got_wrap \in BOOLEAN
    BY <1>1 DEF Valid, Fields, Buffers
  <2> QED
    BY <1>5, <2>2, <2>3, Zenon
<1>14. Log!Log = P \o U
  BY <1>1, <1>3 DEF Log!Log
<1>15. Unread(cb) = U /\ Replay(cb) = P /\ Unread(cb)' = V /\ Replay(cb)' = Q
  BY <1>1, <1>3
<1>16. /\ cb.overwrite = "NO_DROP" => Len(Unread(cb)) + Len(x) <= n
       /\ cb.overwrite = "WRAP_ONCE" => Len(x) <= n
       /\ Len(Unread(cb)) + Len(x) > n => n = MaxSize \/ MayFail
       /\ cb'.size = n \/ MayFail
  BY <1>1, <1>2, <1>7, <1>15
<1> HIDE DEF Log!Keep
<1> QED
  BY <1>1, <1>4, <1>5, <1>10, <1>12, <1>13, <1>14, <1>15, <1>16 DEF Log!Push

\* A part of a sequence.
LEMMA PartIs ==
  ASSUME NEW W \in Seq(Memory), NEW h \in Nat, NEW t \in Nat, h + t <= Len(W)
  PROVE  \E X \in Seq(Memory) : /\ X = SubSeq(W, h + 1, h + t) /\ Len(X) = t
                                /\ \A k \in 1..t : X[k] = W[h + k]
<1>1. PICK m, n \in Int : m = h + 1 /\ n = h + t
  OBVIOUS
<1>2. \A k \in m..n : W[k] \in Memory
  BY <1>1
<1>3. PICK X : X = SubSeq(W, m, n)
  OBVIOUS
<1>4. /\ X \in Seq(Memory) /\ Len(X) = IF m <= n THEN n - m + 1 ELSE 0
      /\ \A k \in 1..(n - m + 1) : X[k] = W[m + k - 1]
  BY <1>2, <1>3, SubSeqProperties
<1>5. Len(X) = t /\ \A k \in 1..t : X[k] = W[h + k]
  BY <1>1, <1>4
<1> QED
  BY <1>1, <1>3, <1>4, <1>5

\* Moving i_out moves the cut of the log and no byte of it.
LEMMA LogMove ==
  ASSUME Valid(cb), Valid(cb'), cb'.size = cb.size, cb'.i_in = cb.i_in, cb'.i_rep = cb.i_rep,
         cb'.data = cb.data, cb'.got_wrap = cb.got_wrap, cb'.overwrite = cb.overwrite
  PROVE  Log!Move
<1>1. PICK c, d : c = cb /\ d = cb'
  OBVIOUS
<1>2. PICK u, R, H, u1, R1 \in Nat :
        /\ u = c.used /\ R = Reused(c) /\ H = Held(c) /\ u1 = d.used /\ R1 = Reused(d)
  <2>1. /\ c.used \in Nat /\ Reused(c) \in Nat /\ d.used \in Nat /\ Reused(d) \in Nat
        /\ Held(c) \in Nat
    BY <1>1, HeldIs
  <2> QED
    BY <2>1, Zenon
<1>3. Held(d) = H
  BY <1>1, <1>2, HeldIsWay, Zenon
<1>4. H = u + R /\ H = u1 + R1
  BY <1>2, <1>3 DEF Held
<1>5. \A e : Aged(d, e) = Aged(c, e)
  BY <1>1, Zenon DEF Aged, Cell
<1>6. PICK U, P, V, Q \in Seq(Memory) :
        /\ U = Unread(c) /\ P = Replay(c) /\ V = Unread(d) /\ Q = Replay(d)
  <2>1. /\ Unread(c) \in Seq(Memory) /\ Replay(c) \in Seq(Memory)
        /\ Unread(d) \in Seq(Memory) /\ Replay(d) \in Seq(Memory)
    BY <1>1, UnreadIs, ReplayIs
  <2> QED
    BY <2>1, Zenon
<1>7. Len(U) = u /\ Len(P) = R /\ Len(V) = u1 /\ Len(Q) = R1
  BY <1>1, <1>2, <1>6, UnreadIs, ReplayIs, Zenon
<1>8. PICK A : A = [e \in Int |-> Aged(c, e)]
  OBVIOUS
<1>9. /\ \A k \in 1..u : U[k] = A[u - k + 1]
      /\ \A k \in 1..u1 : V[k] = A[u1 - k + 1]
      /\ \A k \in 1..R : P[k] = A[H - k + 1]
      /\ \A k \in 1..R1 : Q[k] = A[H - k + 1]
  <2>1. ASSUME NEW k \in 1..u PROVE U[k] = A[u - k + 1]
    <3>1. U[k] = Aged(c, u - k + 1)
      BY <1>1, <1>2, <1>6, UnreadIs, Zenon
    <3> QED
      BY <1>8, <3>1
  <2>2. ASSUME NEW k \in 1..u1 PROVE V[k] = A[u1 - k + 1]
    <3>1. V[k] = Aged(d, u1 - k + 1)
      BY <1>1, <1>2, <1>6, UnreadIs, Zenon
    <3> QED
      BY <1>5, <1>8, <3>1
  <2>3. ASSUME NEW k \in 1..R PROVE P[k] = A[H - k + 1]
    <3>1. P[k] = Aged(c, H - k + 1)
      BY <1>1, <1>2, <1>6, ReplayIs, Zenon
    <3> QED
      BY <1>8, <3>1
  <2>4. ASSUME NEW k \in 1..R1 PROVE Q[k] = A[H - k + 1]
    <3>1. Q[k] = Aged(d, H - k + 1)
      BY <1>1, <1>2, <1>3, <1>6, ReplayIs, Zenon
    <3> QED
      BY <1>5, <1>8, <3>1
  <2> QED
    BY <2>1, <2>2, <2>3, <2>4
<1>10. PICK W \in Seq(Memory) : W = P \o U
  BY ConcatProperties, Zenon
<1>11. Len(W) = H /\ \A k \in 1..H : W[k] = A[H - k + 1]
  <2>1. Len(W) = R + u /\ \A k \in 1..(R + u) : W[k] = IF k <= R THEN P[k] ELSE U[k - R]
    BY <1>7, <1>10, ConcatProperties, Zenon
  <2>2. ASSUME NEW k \in 1..H PROVE W[k] = A[H - k + 1]
    <3>1. CASE k <= R
      BY <1>4, <1>9, <2>1, <3>1
    <3>2. CASE ~(k <= R)
      <4>1. PICK l \in 1..u : l = k - R
        BY <1>4, <3>2
      <4>2. W[k] = U[l]
        BY <1>4, <2>1, <3>2, <4>1
      <4>3. U[l] = A[u - l + 1] /\ u - l + 1 = H - k + 1
        BY <1>4, <1>9, <4>1
      <4> QED
        BY <4>2, <4>3
    <3> QED
      BY <3>1, <3>2
  <2> QED
    BY <1>4, <2>1, <2>2
<1>12. Q = SubSeq(W, 1, R1)
  <2>1. PICK X \in Seq(Memory) : /\ X = SubSeq(W, 0 + 1, 0 + R1) /\ Len(X) = R1
                                 /\ \A k \in 1..R1 : X[k] = W[0 + k]
    <3>1. 0 \in Nat /\ 0 + R1 <= Len(W)
      BY <1>4, <1>11
    <3> QED
      BY <3>1, PartIs, Zenon
  <2>2. ASSUME NEW k \in 1..R1 PROVE Q[k] = X[k]
    <3>1. k \in 1..H /\ 0 + k = k
      BY <1>4
    <3> QED
      BY <1>9, <1>11, <2>1, <3>1
  <2>3. Len(Q) = Len(X) /\ \A k \in 1..Len(Q) : Q[k] = X[k]
    BY <1>7, <2>1, <2>2
  <2>4. Q = X
    BY <2>3, SeqEqual, Zenon
  <2> QED
    BY <2>1, <2>4
<1>13. V = SubSeq(W, R1 + 1, H)
  <2>1. PICK X \in Seq(Memory) : /\ X = SubSeq(W, R1 + 1, R1 + u1) /\ Len(X) = u1
                                 /\ \A k \in 1..u1 : X[k] = W[R1 + k]
    <3>1. R1 + u1 <= Len(W)
      BY <1>4, <1>11
    <3> QED
      BY <3>1, PartIs, Zenon
  <2>2. ASSUME NEW k \in 1..u1 PROVE V[k] = X[k]
    <3>1. PICK j \in 1..H : j = R1 + k
      BY <1>4
    <3>2. X[k] = A[H - j + 1]
      BY <1>11, <2>1, <3>1, Zenon
    <3>3. H - j + 1 = u1 - k + 1
      BY <1>4, <3>1
    <3>4. X[k] = A[u1 - k + 1]
      BY <3>2, <3>3, Zenon
    <3> QED
      BY <1>9, <3>4, Zenon
  <2>3. Len(V) = Len(X) /\ \A k \in 1..Len(V) : V[k] = X[k]
    BY <1>7, <2>1, <2>2
  <2>4. V = X
    BY <2>3, SeqEqual, Zenon
  <2>5. R1 + u1 = H
    BY <1>4
  <2> QED
    BY <2>1, <2>4, <2>5, Zenon
<1>14. Log!Log = W /\ R1 \in 0..Len(W)
  BY <1>1, <1>4, <1>6, <1>10, <1>11 DEF Log!Log
<1>15. Unread(cb)' = V /\ Replay(cb)' = Q
  BY <1>1, <1>6
<1>16. Q = Log!Front(R1, W) /\ V = Log!Back(R1, W)
  BY <1>11, <1>12, <1>13 DEF Log!Front, Log!Back
<1> HIDE DEF Log!Front, Log!Back
<1> QED
  BY <1>14, <1>15, <1>16 DEF Log!Move

-----------------------------------------------------------------------------
(* Growing, emptying, reading and rewinding, as steps of the log. *)

\* The room asked for, as far as MaxSize allows.
LEMMA GrownSizeLarge ==
  ASSUME NEW c, Fields(c), c.size < MaxSize, NEW n \in Nat \ {0}
  PROVE  GrownSize(c, n) >= Smaller(c.size + n, MaxSize)
<1>1. PICK S, M, C, X \in Nat : S = c.size /\ M = Meta /\ C = Chunk /\ X = MaxSize /\ C # 0
  <2>1. c.size \in Nat
    BY Numbers
  <2>2. Meta \in Nat /\ Chunk \in Nat /\ Chunk # 0 /\ MaxSize \in Nat
    BY CbufAssumption
  <2> QED
    BY <2>1, <2>2, Zenon
<1>2. PICK m \in Nat : m = S + M + n
  OBVIOUS
<1>3. m % C \in 0..(C - 1)
  <2>1. m \in Int /\ C \in Nat \ {0}
    BY <1>1
  <2> QED
    BY <2>1, ModRange, Zenon
<1>4. PICK q \in 0..(C - 1) : q = m % C
  BY <1>3
<1>5. GrownSize(c, n) = Smaller(m + (C - q), X + M) - M
  BY <1>1, <1>2, <1>4 DEF GrownSize
<1>6. Smaller(m + (C - q), X + M) - M >= Smaller(S + n, X)
  BY <1>2, <1>4 DEF Smaller
<1> QED
  BY <1>1, <1>5, <1>6

\* Growing keeps what is unread, and leaves the room asked for unless it may not.
LEMMA GrownRoom ==
  ASSUME NEW c, Valid(c), NEW len \in Nat, NEW g \in Grown(c, len)
  PROVE  /\ Valid(g) /\ g.used = c.used /\ g.overwrite = c.overwrite /\ c.size <= g.size
         /\ len <= Free(g) \/ g.size = MaxSize \/ MayFail
         /\ len <= Free(c) \/ c.size = MaxSize => g = c
<1>1. Valid(g) /\ Pushed(c, g, <<>>, g.size)
  BY GrownKeeps, GrownPushes
<1>2. c.used \in 0..c.size /\ c.size \in Nat /\ c.size <= MaxSize /\ MaxSize \in Nat /\ g.size \in Nat
  BY <1>1, Numbers, CbufAssumption DEF Valid
<1>3. c.size <= g.size /\ g.overwrite = c.overwrite /\ g.used = c.used
  <2>1. g.size \in c.size..g.size /\ g.used = Smaller(c.used + Len(<<>>), g.size)
        /\ g.overwrite = c.overwrite
    BY <1>1, Zenon DEF Pushed
  <2>2. Len(<<>>) = 0
    OBVIOUS
  <2> QED
    BY <1>2, <2>1, <2>2 DEF Smaller
<1>4. len <= Free(c) \/ c.size = MaxSize => g = c
  <2>1. len <= Free(c) \/ c.size = MaxSize => ~(len > Free(c) /\ c.size < MaxSize)
    BY <1>2 DEF Free
  <2> QED
    BY <2>1, Zenon DEF Grown
<1>5. len <= Free(g) \/ g.size = MaxSize \/ MayFail
  <2>1. CASE ~(len > Free(c) /\ c.size < MaxSize)
    <3>1. g = c
      BY <2>1, Zenon DEF Grown
    <3> QED
      BY <1>2, <2>1, <3>1 DEF Free
  <2>2. CASE (len > Free(c) /\ c.size < MaxSize) /\ ~MayFail
    <3>1. PICK n \in Nat \ {0} : n = len - Free(c)
      BY <1>2, <2>2 DEF Free
    <3>2. g = GrownTo(c, GrownSize(c, n))
      BY <2>2, <3>1 DEF Grown
    <3>3. GrownSize(c, n) \in (c.size + 1)..MaxSize /\ GrownSize(c, n) >= Smaller(c.size + n, MaxSize)
      <4>1. Fields(c)
        BY DEF Valid
      <4> QED
        BY <2>2, <4>1, GrownSizeIs, GrownSizeLarge
    <3>4. g.size = GrownSize(c, n)
      BY <3>2, <3>3, GrowKeeps
    <3> QED
      BY <1>2, <1>3, <3>1, <3>3, <3>4 DEF Free, Smaller
  <2> QED
    BY <2>1, <2>2
<1> QED
  BY <1>1, <1>3, <1>4, <1>5

\* A longer array is all that growing changes in the log.
LEMMA LogGrow ==
  ASSUME Valid(cb), Valid(cb'), Pushed(cb, cb', <<>>, cb'.size)
  PROVE  Log!Grow
<1>1. PICK c, d : c = cb /\ d = cb'
  OBVIOUS
<1>2. PICK u, R, u1, R1, S, S1 \in Nat :
        /\ u = c.used /\ R = Reused(c) /\ u1 = d.used /\ R1 = Reused(d)
        /\ S = c.size /\ S1 = d.size
  <2>1. c.used \in Nat /\ Reused(c) \in Nat /\ d.used \in Nat /\ Reused(d) \in Nat
        /\ c.size \in Nat /\ d.size \in Nat
    BY <1>1, HeldIs
  <2> QED
    BY <2>1, Zenon
<1>3. u + R <= S /\ S <= S1
  BY <1>1, <1>2, HeldIs DEF Pushed
<1>4. u1 = u /\ R1 = R
  <2>1. u1 = Smaller(u + Len(<<>>), S1) /\ R1 = Smaller(R, S1 - u1)
    BY <1>1, <1>2, Zenon DEF Pushed
  <2>2. Len(<<>>) = 0
    OBVIOUS
  <2> QED
    BY <1>2, <1>3, <2>1, <2>2 DEF Smaller
<1>5. Held(c) = u + R /\ Held(d) = u + R
  BY <1>2, <1>4 DEF Held
<1>6. \A e \in 1..(u + R) : Aged(d, e) = Aged(c, e)
  <2> SUFFICES ASSUME NEW e \in 1..(u + R) PROVE Aged(d, e) = Aged(c, e)
    OBVIOUS
  <2>1. Aged(d, e) = IF e <= Len(<<>>) THEN <<>>[Len(<<>>) - e + 1] ELSE Aged(c, e - Len(<<>>))
    BY <1>1, <1>2, <1>5, Zenon DEF Pushed
  <2>2. ~(e <= Len(<<>>)) /\ e - Len(<<>>) = e
    OBVIOUS
  <2> QED
    BY <2>1, <2>2, Zenon
<1>7. Unread(d) = Unread(c)
  <2>1. ASSUME NEW k \in 1..u PROVE Aged(d, u - k + 1) = Aged(c, u - k + 1)
    <3>1. u - k + 1 \in 1..(u + R)
      OBVIOUS
    <3> QED
      BY <1>6, <3>1
  <2>2. Unread(c) = [k \in 1..u |-> Aged(c, u - k + 1)]
    BY <1>1, <1>2, UnreadByAge, Zenon
  <2>3. Unread(d) = [k \in 1..u |-> Aged(d, u - k + 1)]
    <3>1. d.used = u
      BY <1>2, <1>4
    <3>2. Unread(d) = [k \in 1..d.used |-> Aged(d, d.used - k + 1)]
      BY <1>1, UnreadByAge, Zenon
    <3> QED
      BY <3>1, <3>2
  <2> QED
    BY <2>1, <2>2, <2>3, Zenon
<1>8. Replay(d) = Replay(c)
  <2>1. ASSUME NEW k \in 1..R PROVE Aged(d, (u + R) - k + 1) = Aged(c, (u + R) - k + 1)
    <3>1. (u + R) - k + 1 \in 1..(u + R)
      OBVIOUS
    <3> QED
      BY <1>6, <3>1
  <2>2. Replay(c) = [k \in 1..R |-> Aged(c, (u + R) - k + 1)]
    <3>1. Replay(c) = [k \in 1..Reused(c) |-> Aged(c, Held(c) - k + 1)]
      BY <1>1, ReplayByAge, Zenon
    <3> QED
      BY <1>2, <1>5, <3>1
  <2>3. Replay(d) = [k \in 1..R |-> Aged(d, (u + R) - k + 1)]
    <3>1. Replay(d) = [k \in 1..Reused(d) |-> Aged(d, Held(d) - k + 1)]
      BY <1>1, ReplayByAge, Zenon
    <3> QED
      BY <1>2, <1>4, <1>5, <3>1
  <2> QED
    BY <2>1, <2>2, <2>3, Zenon
<1>9. d.got_wrap = c.got_wrap
  <2>1. d.got_wrap <=> c.got_wrap \/ Held(c) + Len(<<>>) > S1
    BY <1>1, <1>2, Zenon DEF Pushed
  <2>2. ~(Held(c) + Len(<<>>) > S1)
    BY <1>3, <1>5
  <2>3. d.got_wrap \in BOOLEAN /\ c.got_wrap \in BOOLEAN
    BY <1>1 DEF Valid, Fields, Buffers
  <2>4. d.got_wrap <=> c.got_wrap
    BY <2>1, <2>2, Zenon
  <2> QED
    BY <2>3, <2>4
<1>10. d.overwrite = c.overwrite
  BY <1>1, Zenon DEF Pushed
<1>11. d.size \in c.size..MaxSize
  <2>1. d.size <= MaxSize /\ MaxSize \in Nat
    BY <1>1, Numbers, CbufAssumption DEF Valid
  <2> QED
    BY <1>2, <1>3, <2>1
<1>12. Unread(cb)' = Unread(d) /\ Replay(cb)' = Replay(d)
  BY <1>1
<1> QED
  BY <1>1, <1>7, <1>8, <1>9, <1>10, <1>11, <1>12 DEF Log!Grow

\* Emptying the buffer empties the log.
LEMMA LogFlush == ASSUME Valid(cb), Flush PROVE Log!Flush
<1>1. PICK c, d : c = cb /\ d = cb'
  OBVIOUS
<1>2. Valid(d)
  BY <1>1, FlushKeeps
<1>3. /\ d.used = 0 /\ d.i_in = 0 /\ d.i_out = 0 /\ d.i_rep = 0 /\ d.got_wrap = FALSE
      /\ d.size = c.size /\ d.overwrite = c.overwrite
  <2>1. d = [c EXCEPT !.used = 0, !.got_wrap = FALSE, !.i_in = 0, !.i_out = 0, !.i_rep = 0]
    BY <1>1 DEF Flush
  <2>2. c \in Buffers
    BY <1>1 DEF Valid, Fields
  <2> QED
    BY <2>1, <2>2 DEF Buffers
<1>4. Reused(d) = 0
  BY <1>2, <1>3, ReusedIs
<1>5. Unread(d) = <<>> /\ Replay(d) = <<>>
  <2>1. Len(Unread(d)) = 0 /\ Len(Replay(d)) = 0
    BY <1>2, <1>3, <1>4, UnreadIs, ReplayIs
  <2>2. Unread(d) \in Seq(Memory) /\ Replay(d) \in Seq(Memory)
    BY <1>2, UnreadIs, ReplayIs
  <2> QED
    BY <2>1, <2>2, EmptySeq, Zenon
<1>6. Unread(cb)' = Unread(d) /\ Replay(cb)' = Replay(d)
  BY <1>1
<1> QED
  BY <1>1, <1>3, <1>5, <1>6 DEF Log!Flush

\* What is read depends on the fields but not on the option.
LEMMA LogSet ==
  ASSUME Valid(cb), NEW value \in Overwrites, OptSet(value) PROVE Log!SetOverwrite
<1>1. PICK c, d : c = cb /\ d = cb'
  OBVIOUS
<1>2. /\ d.used = c.used /\ d.i_in = c.i_in /\ d.i_out = c.i_out /\ d.i_rep = c.i_rep
      /\ d.got_wrap = c.got_wrap /\ d.size = c.size /\ d.data = c.data
      /\ d.overwrite \in Overwrites
  <2>1. d = [c EXCEPT !.overwrite = value]
    BY <1>1 DEF OptSet
  <2>2. c \in Buffers
    BY <1>1 DEF Valid, Fields
  <2> QED
    BY <2>1, <2>2 DEF Buffers
<1>3. Unread(d) = Unread(c) /\ Replay(d) = Replay(c)
  BY <1>2 DEF Unread, Replay, Region, Reused
<1>4. Unread(cb)' = Unread(d) /\ Replay(cb)' = Replay(d)
  BY <1>1
<1> QED
  BY <1>1, <1>2, <1>3, <1>4 DEF Log!SetOverwrite, Log!Overwrites, Overwrites

\* Reading and dropping move the cut.
LEMMA DropMoves ==
  ASSUME Valid(cb), NEW n \in 0..cb.used, cb' = Dropped(cb, n) PROVE Log!Move
<1>1. Valid(cb')
  BY DropKeeps
<1>2. /\ cb'.size = cb.size /\ cb'.i_in = cb.i_in /\ cb'.i_rep = cb.i_rep /\ cb'.data = cb.data
      /\ cb'.got_wrap = cb.got_wrap /\ cb'.overwrite = cb.overwrite
  <2>1. PICK u, o : cb' = [cb EXCEPT !.used = u, !.i_out = o]
    BY DEF Dropped
  <2>2. cb \in Buffers
    BY DEF Valid, Fields
  <2> QED
    BY <2>1, <2>2 DEF Buffers
<1> QED
  BY <1>1, <1>2, LogMove

\* And so does rewinding.
LEMMA RewindMoves ==
  ASSUME Valid(cb), NEW n \in 0..Reused(cb), cb' = Rewound(cb, n) PROVE Log!Move
<1>1. Valid(cb')
  BY RewindKeeps
<1>2. /\ cb'.size = cb.size /\ cb'.i_in = cb.i_in /\ cb'.i_rep = cb.i_rep /\ cb'.data = cb.data
      /\ cb'.got_wrap = cb.got_wrap /\ cb'.overwrite = cb.overwrite
  <2>1. PICK u, o : cb' = [cb EXCEPT !.used = u, !.i_out = o]
    BY DEF Rewound
  <2>2. cb \in Buffers
    BY DEF Valid, Fields
  <2> QED
    BY <2>1, <2>2 DEF Buffers
<1> QED
  BY <1>1, <1>2, LogMove

\* What a writer accepts.
LEMMA AcceptedFits ==
  ASSUME NEW g, Valid(g), NEW len \in Nat
  PROVE  /\ Accepted(g, len) \in 0..len
         /\ g.overwrite = "NO_DROP" => Accepted(g, len) = Smaller(len, Free(g))
         /\ g.overwrite = "WRAP_ONCE" => Accepted(g, len) = Smaller(len, g.size)
         /\ g.overwrite = "WRAP_MANY" => Accepted(g, len) = len
  BY AcceptedIs DEF Valid, Accepted

\* Bytes stored after an attempt to make room have been appended at the size it gave.
LEMMA GrownStored ==
  ASSUME NEW c, Valid(c), NEW len \in Nat, NEW g \in Grown(c, len),
         NEW t \in Seq(Bytes), t # <<>>
  PROVE  /\ Valid(Stored(g, t)) /\ Stored(g, t).size = g.size
         /\ Pushed(c, Stored(g, t), t, g.size)
<1>1. Valid(g) /\ Pushed(c, g, <<>>, g.size)
  BY GrownKeeps, GrownPushes
<1>2. PICK f : f = Stored(g, t)
  OBVIOUS
<1>3. Valid(f) /\ Pushed(g, f, t, g.size) /\ f.size = g.size
  BY <1>1, <1>2, StoreKeeps, StoredPushes, StoredFields
<1>4. <<>> \in Seq(Bytes)
  OBVIOUS
<1>5. Pushed(c, f, <<>> \o t, Smaller(g.size + Len(t), g.size))
  BY <1>1, <1>3, <1>4, PushedTwice, Zenon
<1>6. <<>> \o t = t /\ Smaller(g.size + Len(t), g.size) = g.size
  <2>1. g.size \in Nat /\ Len(t) \in Nat \ {0}
    BY <1>1, HeldIs
  <2> QED
    BY <2>1 DEF Smaller
<1> QED
  BY <1>2, <1>3, <1>5, <1>6, Zenon

-----------------------------------------------------------------------------
(* The writers, as steps of the log. *)

\* What a write of len bytes stores is pushed.
LEMMA LogStored ==
  ASSUME Valid(cb), NEW len \in Nat, NEW g \in Grown(cb, len), NEW t \in Seq(Bytes), t # <<>>,
         Len(t) <= Accepted(g, len), cb' = Stored(g, t)
  PROVE  Log!Push(t)
<1>1. PICK n : n = g.size
  OBVIOUS
<1>2. Valid(cb') /\ cb'.size = n /\ Pushed(cb, cb', t, n)
  BY <1>1, GrownStored, Zenon
<1>3. /\ Valid(g) /\ g.used = cb.used /\ g.overwrite = cb.overwrite
      /\ len <= Free(g) \/ n = MaxSize \/ MayFail
  BY <1>1, GrownRoom
<1>4. PICK a, A, S, u \in Nat :
        a = Len(t) /\ A = Accepted(g, len) /\ S = g.size /\ u = cb.used /\ a <= A /\ A <= len
  <2>1. Accepted(g, len) \in 0..len
    BY <1>3, AcceptedFits
  <2>2. Accepted(g, len) \in Nat /\ Len(t) \in Nat /\ g.size \in Nat /\ cb.used \in Nat
    BY <1>3, <2>1, HeldIs
  <2> QED
    BY <2>1, <2>2
<1>5. Free(g) = S - u
  BY <1>3, <1>4 DEF Free
<1>6. cb.overwrite = "NO_DROP" => u + a <= n
  <2>1. cb.overwrite = "NO_DROP" => A = Smaller(len, S - u)
    BY <1>3, <1>4, <1>5, AcceptedFits
  <2> QED
    BY <1>1, <1>4, <2>1 DEF Smaller
<1>7. cb.overwrite = "WRAP_ONCE" => a <= n
  <2>1. cb.overwrite = "WRAP_ONCE" => A = Smaller(len, S)
    BY <1>3, <1>4, AcceptedFits
  <2> QED
    BY <1>1, <1>4, <2>1 DEF Smaller
<1>8. u + a > n => n = MaxSize \/ MayFail
  BY <1>1, <1>3, <1>4, <1>5
<1> QED
  BY <1>2, <1>4, <1>6, <1>7, <1>8, LogPush

\* What the log may be given.
LEMMA LogStrings ==
  ASSUME NEW t \in Seq(Bytes), t # <<>>, Len(t) <= MaxWrite + 1 \/ Len(t) <= MaxSize
  PROVE  t \in Log!Strings
<1>1. Len(t) \in Nat \ {0} /\ t \in [1..Len(t) -> Bytes]
  OBVIOUS
<1>2. Len(t) \in 1..Larger(MaxWrite + 1, MaxSize)
  <2>1. MaxWrite \in Nat /\ MaxSize \in Nat
    BY CbufAssumption
  <2> QED
    BY <1>1, <2>1 DEF Larger
<1> QED
  BY <1>1, <1>2 DEF Log!Strings

\* So a writer takes a step of the log.
LEMMA LogWriter ==
  ASSUME Valid(cb), NEW len \in Nat, NEW g \in Grown(cb, len), NEW t \in Seq(Bytes),
         Len(t) <= Accepted(g, len), cb' = IF t = <<>> THEN g ELSE Stored(g, t),
         Len(t) <= MaxWrite + 1 \/ Len(t) <= MaxSize
  PROVE  Log!Next
<1>1. CASE t = <<>>
  <2>1. cb' = g
    BY <1>1
  <2>2. Valid(cb') /\ Pushed(cb, cb', <<>>, cb'.size)
    BY <2>1, GrownKeeps, GrownPushes
  <2>3. Log!Grow
    BY <2>2, LogGrow
  <2> QED
    BY <2>3, Zenon DEF Log!Next
<1>2. CASE t # <<>>
  <2>1. cb' = Stored(g, t)
    BY <1>2
  <2>2. Log!Push(t) /\ t \in Log!Strings
    BY <1>2, <2>1, LogStored, LogStrings, Zenon
  <2> QED
    BY <2>2, Zenon DEF Log!Next
<1> QED
  BY <1>1, <1>2

\* cbuf_write.
LEMMA LogWrite ==
  ASSUME Valid(cb), NEW s \in Strings, Write(s) PROVE Log!Next
<1>1. s \in Seq(Bytes) /\ Len(s) <= MaxWrite
  BY CbufAssumption DEF Strings
<1>2. PICK w \in Written(cb, s) : cb' = w.cb
  BY DEF Write
<1>3. PICK g \in Grown(cb, Len(s)) : w = WriterResult(g, SubSeq(s, 1, Accepted(g, Len(s))))
  BY <1>2, Zenon DEF Written
<1>4. Valid(g)
  BY <1>1, GrownKeeps
<1>5. PICK n \in 0..Len(s) : n = Accepted(g, Len(s))
  BY <1>1, <1>4, AcceptedFits
<1>6. PICK t : t = SubSeq(s, 1, n)
  OBVIOUS
<1>7. t \in Seq(Bytes) /\ Len(t) = n
  BY <1>1, <1>5, <1>6
<1>8. cb' = IF t = <<>> THEN g ELSE Stored(g, t)
  BY <1>2, <1>3, <1>5, <1>6 DEF WriterResult, Result
<1>9. Len(t) <= MaxWrite + 1 /\ Len(t) <= Accepted(g, Len(s)) /\ Len(s) \in Nat
  <2>1. MaxWrite \in Nat /\ Len(s) \in Nat
    BY <1>1, CbufAssumption
  <2> QED
    BY <1>1, <1>5, <1>7, <2>1
<1> QED
  BY <1>3, <1>7, <1>8, <1>9, LogWriter

\* The last n elements are at most n, and no more than there were.
LEMMA KeptIs ==
  ASSUME NEW t \in Seq(Bytes), NEW n \in Nat \ {0}
  PROVE  /\ Keep(n, t) \in Seq(Bytes) /\ Len(Keep(n, t)) = Smaller(Len(t), n)
         /\ Keep(n, t) = <<>> <=> t = <<>>
<1>1. PICK k : k = Keep(n, t)
  OBVIOUS
<1>2. k \in Seq(Bytes) /\ Len(k) = Smaller(Len(t), n)
  <2>1. CASE Len(t) <= n
    BY <1>1, <2>1 DEF Keep, Smaller
  <2>2. CASE ~(Len(t) <= n)
    <3>1. k = SubSeq(t, Len(t) - n + 1, Len(t))
      BY <1>1, <2>2, Zenon DEF Keep
    <3>2. PICK m, l \in Int : m = Len(t) - n + 1 /\ l = Len(t)
      OBVIOUS
    <3>3. m \in 1..l /\ l \in 1..Len(t)
      BY <2>2, <3>2
    <3>4. SubSeq(t, m, l) \in Seq(Bytes) /\ Len(SubSeq(t, m, l)) = l - m + 1
      BY <3>3
    <3>5. l - m + 1 = n /\ Smaller(Len(t), n) = n
      BY <2>2, <3>2 DEF Smaller
    <3> QED
      BY <3>1, <3>2, <3>4, <3>5, Zenon
  <2> QED
    BY <2>1, <2>2
<1>3. k = <<>> <=> t = <<>>
  <2>1. Len(k) = 0 <=> Len(t) = 0
    BY <1>2 DEF Smaller
  <2> QED
    BY <1>2, <2>1, EmptySeq, Zenon
<1> QED
  BY <1>1, <1>2, <1>3

\* cbuf_copy and cbuf_move.
LEMMA LogCopy ==
  ASSUME Valid(cb), NEW s \in Strings, CopyIn(s) PROVE Log!Next
<1>1. s \in Seq(Bytes) /\ Len(s) <= MaxWrite
  BY CbufAssumption DEF Strings
<1>2. PICK w \in Copied(cb, s) : cb' = w.cb
  BY DEF CopyIn
<1>3. PICK g \in Grown(cb, Len(s)) :
        w = LET n == Accepted(g, Len(s))
            IN IF n = 0 THEN Result(g, -1, 0)
               ELSE Result(Stored(g, Keep(g.size, SubSeq(s, 1, n))), n, Larger(0, n - Free(g)))
  BY <1>2, Zenon DEF Copied
<1>4. Valid(g)
  BY <1>1, GrownKeeps
<1>5. PICK n \in 0..Len(s) : n = Accepted(g, Len(s))
  BY <1>1, <1>4, AcceptedFits
<1>6. PICK t, k : t = SubSeq(s, 1, n) /\ k = Keep(g.size, t)
  OBVIOUS
<1>7. t \in Seq(Bytes) /\ Len(t) = n
  BY <1>1, <1>5, <1>6
<1>8. g.size \in Nat \ {0}
  BY <1>4, HeldIs
<1>9. k \in Seq(Bytes) /\ Len(k) = Smaller(n, g.size) /\ (k = <<>> <=> t = <<>>)
  BY <1>6, <1>7, <1>8, KeptIs, Zenon
<1>10. n = 0 <=> k = <<>>
  <2>1. n = 0 <=> t = <<>>
    BY <1>7
  <2> QED
    BY <1>9, <2>1
<1>11. cb' = IF k = <<>> THEN g ELSE Stored(g, k)
  <2>1. w = IF n = 0 THEN Result(g, -1, 0) ELSE Result(Stored(g, k), n, Larger(0, n - Free(g)))
    BY <1>3, <1>5, <1>6, Zenon
  <2> QED
    BY <1>2, <1>10, <2>1 DEF Result
<1>12. Len(k) <= MaxWrite + 1 /\ Len(k) <= Accepted(g, Len(s)) /\ Len(s) \in Nat
  <2>1. MaxWrite \in Nat /\ Len(s) \in Nat
    BY <1>1, CbufAssumption
  <2> QED
    BY <1>1, <1>5, <1>8, <1>9, <2>1 DEF Smaller
<1> QED
  BY <1>3, <1>9, <1>11, <1>12, LogWriter

\* cbuf_write_from_fd.
LEMMA LogFd ==
  ASSUME Valid(cb), NEW len \in {-1} \cup 1..MaxWrite, WriteFromFd(len) PROVE Log!Next
<1> DEFINE want == IF len # -1 THEN len
                   ELSE IF Free(cb) = 0 THEN Smaller(cb.size, Chunk) ELSE Free(cb)
<1>1. want \in Nat /\ (want <= MaxWrite \/ want <= MaxSize)
  <2>1. Free(cb) \in Nat /\ cb.size \in Nat /\ cb.size <= MaxSize /\ Free(cb) <= cb.size
    BY Numbers DEF Valid
  <2>2. Chunk \in Nat /\ MaxWrite \in Nat /\ MaxSize \in Nat
    BY CbufAssumption
  <2> QED
    BY <2>1, <2>2 DEF Smaller
<1>2. \E g \in Grown(cb, want) : \E n \in 0..Accepted(g, want) :
        \E s \in [1..n -> Bytes] : cb' = WriterResult(g, s).cb
  BY Zenon DEF WriteFromFd
<1> HIDE DEF want
<1>3. PICK g \in Grown(cb, want) : \E n \in 0..Accepted(g, want) :
        \E s \in [1..n -> Bytes] : cb' = WriterResult(g, s).cb
  BY <1>2, Zenon
<1>4. Valid(g)
  BY <1>1, GrownKeeps
<1>5. PICK n \in 0..Accepted(g, want) :
        \E s \in [1..n -> Bytes] : cb' = WriterResult(g, s).cb
  BY <1>3, Zenon
<1>6. PICK s \in [1..n -> Bytes] : cb' = WriterResult(g, s).cb
  BY <1>5, Zenon
<1>7. Accepted(g, want) \in 0..want
  BY <1>1, <1>4, AcceptedFits
<1>8. n \in Nat /\ n <= want /\ n <= Accepted(g, want)
  BY <1>1, <1>7
<1>9. s \in Seq(Bytes) /\ Len(s) = n
  BY <1>8
<1>10. cb' = IF s = <<>> THEN g ELSE Stored(g, s)
  BY <1>6 DEF WriterResult, Result
<1>11. Len(s) <= MaxWrite + 1 \/ Len(s) <= MaxSize
  <2>1. MaxWrite \in Nat /\ MaxSize \in Nat
    BY CbufAssumption
  <2> QED
    BY <1>1, <1>8, <1>9, <2>1
<1> QED
  BY <1>1, <1>3, <1>8, <1>9, <1>10, <1>11, LogWriter

-----------------------------------------------------------------------------
(* cbuf_write_line, which writes up to twice. *)

\* A write that the option lets in whole.
LEMMA WroteAll ==
  ASSUME NEW c, Valid(c), NEW r \in Seq(Bytes), r # <<>>,
         c.overwrite = "NO_DROP" => Len(r) <= Free(c),
         c.overwrite = "WRAP_ONCE" => Len(r) <= c.size,
         NEW w \in Written(c, r)
  PROVE  /\ Valid(w.cb) /\ Pushed(c, w.cb, r, w.cb.size)
         /\ w.ret = Len(r) /\ w.lost = c.used + Len(r) - w.cb.used
         /\ Len(r) <= Free(c) \/ c.size = MaxSize => w.cb.size = c.size
<1>1. PICK g \in Grown(c, Len(r)) : w = WriterResult(g, SubSeq(r, 1, Accepted(g, Len(r))))
  BY Zenon DEF Written
<1>2. PICK a \in Nat \ {0} : a = Len(r)
  OBVIOUS
<1>3. /\ Valid(g) /\ g.used = c.used /\ g.overwrite = c.overwrite /\ c.size <= g.size
      /\ a <= Free(c) \/ c.size = MaxSize => g = c
  BY <1>2, GrownRoom
<1>4. PICK u, S, T \in Nat : u = c.used /\ S = c.size /\ T = g.size
  <2>1. c.used \in Nat /\ c.size \in Nat /\ g.size \in Nat
    BY <1>3, HeldIs
  <2> QED
    BY <2>1, Zenon
<1>5. Free(c) = S - u /\ Free(g) = T - u /\ S <= T
  BY <1>3, <1>4 DEF Free
<1>6. Accepted(g, a) = a
  <2>1. /\ g.overwrite = "NO_DROP" => Accepted(g, a) = Smaller(a, T - u)
        /\ g.overwrite = "WRAP_ONCE" => Accepted(g, a) = Smaller(a, T)
        /\ g.overwrite = "WRAP_MANY" => Accepted(g, a) = a
    BY <1>3, <1>4, <1>5, AcceptedFits
  <2>2. g.overwrite \in {"NO_DROP", "WRAP_ONCE", "WRAP_MANY"}
    BY <1>3 DEF Valid, Fields, Buffers, Overwrites
  <2>3. g.overwrite = "NO_DROP" => Smaller(a, T - u) = a
    BY <1>2, <1>3, <1>5 DEF Smaller
  <2>4. g.overwrite = "WRAP_ONCE" => Smaller(a, T) = a
    BY <1>2, <1>3, <1>4, <1>5 DEF Smaller
  <2> QED
    BY <2>1, <2>2, <2>3, <2>4
<1>7. SubSeq(r, 1, Accepted(g, Len(r))) = r
  BY <1>2, <1>6
<1>8. /\ w.cb = Stored(g, r) /\ w.ret = a /\ w.lost = Larger(0, a - (T - u))
  BY <1>1, <1>2, <1>5, <1>7 DEF WriterResult, Result
<1>9. Valid(w.cb) /\ w.cb.size = T /\ Pushed(c, w.cb, r, T)
  <2>1. /\ Valid(Stored(g, r)) /\ Stored(g, r).size = g.size
        /\ Pushed(c, Stored(g, r), r, g.size)
    BY <1>1, <1>2, GrownStored
  <2> QED
    BY <1>4, <1>8, <2>1, Zenon
<1>10. w.cb.used = Smaller(u + a, T)
  BY <1>2, <1>4, <1>9 DEF Pushed
<1>11. Larger(0, a - (T - u)) = u + a - Smaller(u + a, T)
  BY DEF Larger, Smaller
<1> QED
  BY <1>2, <1>3, <1>4, <1>8, <1>9, <1>10, <1>11

\* All of x, a line of len bytes cut at the front to what g holds, has been appended to
\* g; if g had the room or could not grow, nothing grew any more.
AllIn(g, f, x, len, n) ==
  /\ Valid(f) /\ Len(x) <= len /\ Len(x) <= g.size /\ Pushed(g, f, x, n)
  /\ len <= Free(g) \/ g.size = MaxSize => n = g.size /\ f.size = g.size

\* A line that one write appends: it has its newline, or is nothing but one.
LEMMA LineOnce ==
  ASSUME NEW g, Valid(g), NEW len \in Nat, NEW x \in Seq(Bytes), x # <<>>,
         Len(x) <= len, Len(x) <= g.size, g.overwrite = "NO_DROP" => len <= Free(g),
         NEW w \in Written(g, x)
  PROVE  AllIn(g, w.cb, x, len, w.cb.size) /\ w.lost = g.used + Len(x) - w.cb.used
<1>1. PICK a, l, F \in Nat : a = Len(x) /\ l = len /\ F = Free(g)
  <2>1. Free(g) \in Nat /\ Len(x) \in Nat
    BY Numbers DEF Valid
  <2> QED
    BY <2>1, Zenon
<1>2. g.overwrite = "NO_DROP" => Len(x) <= Free(g)
  BY <1>1
<1>3. /\ Valid(w.cb) /\ Pushed(g, w.cb, x, w.cb.size)
      /\ w.lost = g.used + Len(x) - w.cb.used
      /\ Len(x) <= Free(g) \/ g.size = MaxSize => w.cb.size = g.size
  BY <1>2, WroteAll
<1>4. len <= Free(g) => Len(x) <= Free(g)
  BY <1>1
<1> QED
  BY <1>3, <1>4, Zenon DEF AllIn

\* A line appended in two writes, its newline the second.
LEMMA LineTwice ==
  ASSUME NEW g, Valid(g), NEW len \in Nat, NEW x \in Seq(Bytes), x # <<>>,
         Len(x) + 1 <= len, Len(x) + 1 <= g.size, g.overwrite = "NO_DROP" => len <= Free(g),
         NEW v \in Written(g, x), NEW w \in Written(v.cb, <<NL>>)
  PROVE  /\ \E n : AllIn(g, w.cb, x \o <<NL>>, len, n)
         /\ v.lost \in Int /\ w.lost \in Int
         /\ v.lost + w.lost = g.used + (Len(x) + 1) - w.cb.used
<1>1. PICK a, l, u, S \in Nat : a = Len(x) /\ l = len /\ u = g.used /\ S = g.size /\ S # 0
  <2>1. g.used \in Nat /\ g.size \in Nat /\ g.size # 0 /\ Len(x) \in Nat
    BY HeldIs
  <2> QED
    BY <2>1, Zenon
<1>2. Free(g) = S - u
  BY <1>1 DEF Free
<1>3. AllIn(g, v.cb, x, len, v.cb.size) /\ v.lost = g.used + Len(x) - v.cb.used
  <2>1. Len(x) <= len /\ Len(x) <= g.size
    BY <1>1
  <2> QED
    BY <2>1, LineOnce
<1>4. PICK d : d = v.cb
  OBVIOUS
<1>5. /\ Valid(d) /\ Pushed(g, d, x, d.size) /\ v.lost = u + a - d.used
      /\ l <= S - u \/ S = MaxSize => d.size = S
  BY <1>1, <1>2, <1>3, <1>4 DEF AllIn
<1>6. PICK p, T \in Nat : p = d.used /\ T = d.size
  BY <1>5, HeldIs
<1>7. p = Smaller(u + a, T) /\ d.overwrite = g.overwrite /\ S <= T
  BY <1>1, <1>5, <1>6 DEF Pushed
<1>8. Free(d) = T - p
  BY <1>6 DEF Free
<1>9. <<NL>> \in Seq(Bytes) /\ <<NL>> # <<>> /\ Len(<<NL>>) = 1
  BY CbufAssumption
<1>10. l <= S - u => 1 <= T - p
  BY <1>1, <1>7 DEF Smaller
<1>11. /\ d.overwrite = "NO_DROP" => Len(<<NL>>) <= Free(d)
       /\ d.overwrite = "WRAP_ONCE" => Len(<<NL>>) <= d.size
  BY <1>1, <1>2, <1>6, <1>7, <1>8, <1>9, <1>10
<1>12. PICK f : f = w.cb
  OBVIOUS
<1>13. /\ Valid(f) /\ Pushed(d, f, <<NL>>, f.size) /\ w.lost = p + 1 - f.used
       /\ 1 <= T - p \/ T = MaxSize => f.size = T
  BY <1>4, <1>5, <1>6, <1>8, <1>9, <1>11, <1>12, WroteAll
<1>14. PICK q, X \in Nat : q = f.used /\ X = f.size
  BY <1>13, HeldIs
<1>15. PICK n : n = Smaller(T + 1, X)
  OBVIOUS
<1>16. Pushed(g, f, x \o <<NL>>, n)
  BY <1>5, <1>6, <1>9, <1>13, <1>14, <1>15, PushedTwice
<1>17. Len(x \o <<NL>>) = a + 1
  BY <1>1, <1>9
<1>18. l <= S - u \/ S = MaxSize => n = S /\ X = S
  BY <1>5, <1>6, <1>10, <1>13, <1>14, <1>15 DEF Smaller
<1>19. AllIn(g, f, x \o <<NL>>, len, n)
  BY <1>1, <1>2, <1>13, <1>14, <1>16, <1>17, <1>18 DEF AllIn
<1>20. v.lost + w.lost = u + (a + 1) - q /\ v.lost \in Int /\ w.lost \in Int
  <2>1. v.lost = u + a - p
    BY <1>5, <1>6, Zenon
  <2>2. w.lost = p + 1 - q
    BY <1>13, <1>14, Zenon
  <2> QED
    BY <2>1, <2>2
<1> QED
  BY <1>1, <1>12, <1>14, <1>19, <1>20

\* cbuf_write_line writes nothing, or all of a line that the buffer holds.
LEMMA LineWritten ==
  ASSUME NEW c, Valid(c), NEW s \in Seq(Bytes), NEW w \in WrittenLine(c, s)
  PROVE  \E len \in Nat \ {0} : \E g \in Grown(c, len) :
           /\ len <= Len(s) + 1
           /\ \/ w.cb = g /\ w.ret = -1 /\ w.lost = 0
              \/ /\ Accepted(g, len) = len
                 /\ \E x \in Seq(Bytes) : \E n : x # <<>> /\ AllIn(g, w.cb, x, len, n)
                 /\ w.ret = len /\ w.lost = g.used + len - w.cb.used
<1> DEFINE missing == s = <<>> \/ s[Len(s)] # NL
           length == IF missing THEN Len(s) + 1 ELSE Len(s)
           cutBytes(g) == Larger(0, length - g.size)
           copied(g) == IF Len(s) = cutBytes(g) THEN {Result(g, 0, 0)}
                        ELSE Written(g, SubSeq(s, cutBytes(g) + 1, Len(s)))
           ended(g, v) ==
             IF missing
               THEN {Result(u.cb, length, cutBytes(g) + v.lost + u.lost) : u \in Written(v.cb, <<NL>>)}
               ELSE {Result(v.cb, length, cutBytes(g) + v.lost)}
           written(g) == UNION {ended(g, v) : v \in copied(g)}
<1>1. w \in UNION {IF Accepted(g, length) < length THEN {Result(g, -1, 0)} ELSE written(g)
                    : g \in Grown(c, length)}
  BY DEF WrittenLine
<1> HIDE DEF written
<1>2. PICK len \in Nat \ {0} : len = length
  <2>1. Len(s) \in Nat /\ (s # <<>> => Len(s) # 0)
    OBVIOUS
  <2> QED
    BY <2>1
<1>3. PICK g \in Grown(c, len) :
        w \in IF Accepted(g, len) < len THEN {Result(g, -1, 0)} ELSE written(g)
  <2> HIDE DEF length
  <2> QED
    BY <1>1, <1>2, Zenon
<1>4. /\ Valid(g) /\ g.size \in Nat \ {0} /\ Len(s) \in Nat
      /\ len = (IF missing THEN Len(s) + 1 ELSE Len(s))
  BY <1>2, <1>3, GrownKeeps, HeldIs
<1>5. Accepted(g, len) \in 0..len
  BY <1>4, AcceptedFits
<1>6. CASE Accepted(g, len) < len
  <2>1. w = Result(g, -1, 0)
    BY <1>3, <1>6
  <2>2. len <= Len(s) + 1
    BY <1>4
  <2>3. w.cb = g /\ w.ret = -1 /\ w.lost = 0
    BY <2>1 DEF Result
  <2> QED
    BY <1>3, <2>2, <2>3
<1>7. CASE Accepted(g, len) = len
  <2>1. w \in written(g)
    BY <1>3, <1>7
  <2> HIDE DEF ended, copied
  <2>2. PICK v \in copied(g) : w \in ended(g, v)
    BY <2>1, Zenon DEF written
  <2>3. g.overwrite = "NO_DROP" => len <= Free(g)
    <3>1. g.overwrite = "NO_DROP" => Accepted(g, len) = Smaller(len, Free(g))
      BY <1>4, AcceptedFits
    <3>2. Free(g) \in Nat
      BY <1>4, Numbers DEF Valid
    <3> QED
      BY <1>7, <3>1, <3>2 DEF Smaller
  <2>4. PICK k \in Nat : k = cutBytes(g) /\ k = Larger(0, len - g.size)
    BY <1>2, <1>4 DEF Larger
  <2>5. k <= Len(s) /\ len - k <= g.size /\ k < len
    BY <1>4, <2>4 DEF Larger
  <2> HIDE DEF cutBytes, missing, length
  <2>6. PICK r \in Seq(Bytes) : r = SubSeq(s, k + 1, Len(s)) /\ Len(r) = Len(s) - k
    <3>1. PICK m, l \in Nat : m = k + 1 /\ l = Len(s)
      <4>1. k + 1 \in Nat /\ Len(s) \in Nat
        BY <1>4
      <4> QED
        BY <4>1, Zenon
    <3>2. m \in 1..(l + 1) /\ l \in 0..Len(s) /\ (m <= l => m \in 1..Len(s) /\ l \in 1..Len(s))
      BY <1>4, <2>5, <3>1
    <3>3. SubSeq(s, m, l) \in Seq(Bytes) /\ Len(SubSeq(s, m, l)) = IF m <= l THEN l - m + 1 ELSE 0
      BY <3>1, <3>2
    <3>4. (IF m <= l THEN l - m + 1 ELSE 0) = l - k
      BY <3>1, <3>2
    <3> QED
      BY <3>1, <3>3, <3>4, Zenon
  <2>7. CASE Len(s) # k
    <3>1. v \in Written(g, r) /\ r # <<>>
      <4>1. v \in Written(g, r)
        BY <2>2, <2>4, <2>6, <2>7, Zenon DEF copied
      <4>2. Len(r) # 0
        BY <1>4, <2>6, <2>7
      <4> QED
        BY <4>1, <4>2
    <3>2. CASE ~missing
      <4>1. w = Result(v.cb, len, k + v.lost)
        BY <1>2, <2>2, <2>4, <3>2 DEF ended
      <4>2. w.cb = v.cb /\ w.ret = len /\ w.lost = k + v.lost
        BY <4>1 DEF Result
      <4>3. Len(r) = len - k
        BY <1>4, <2>6, <3>2
      <4>4. Len(r) <= len /\ Len(r) <= g.size
        BY <1>4, <2>4, <2>5, <4>3
      <4>5. AllIn(g, v.cb, r, len, v.cb.size) /\ v.lost = g.used + Len(r) - v.cb.used
        BY <1>4, <2>3, <3>1, <4>4, LineOnce
      <4>6. w.lost = g.used + len - w.cb.used
        <5>1. PICK p, q \in Nat : p = g.used /\ q = v.cb.used
          <6>1. Valid(v.cb)
            BY <4>5, Zenon DEF AllIn
          <6>2. g.used \in Nat /\ v.cb.used \in Nat
            BY <1>4, <6>1, HeldIs
          <6> QED
            BY <6>2, Zenon
        <5>2. v.lost = p + (len - k) - q
          BY <4>3, <4>5, <5>1, Zenon
        <5>3. k + v.lost = p + len - q
          BY <5>1, <5>2
        <5> QED
          BY <4>2, <5>1, <5>3, Zenon
      <4>7. len <= Len(s) + 1
        BY <1>4
      <4> QED
        BY <1>3, <1>7, <3>1, <4>2, <4>5, <4>6, <4>7
    <3>3. CASE missing
      <4>1. PICK u \in Written(v.cb, <<NL>>) : w = Result(u.cb, len, k + v.lost + u.lost)
        BY <1>2, <2>2, <2>4, <3>3 DEF ended
      <4>2. w.cb = u.cb /\ w.ret = len /\ w.lost = k + v.lost + u.lost
        BY <4>1 DEF Result
      <4>3. Len(r) + 1 = len - k
        BY <1>4, <2>6, <3>3
      <4>4. Len(r) + 1 <= len /\ Len(r) + 1 <= g.size
        BY <1>4, <2>4, <2>5, <4>3
      <4>5. /\ \E n : AllIn(g, u.cb, r \o <<NL>>, len, n)
            /\ v.lost \in Int /\ u.lost \in Int
            /\ v.lost + u.lost = g.used + (Len(r) + 1) - u.cb.used
        BY <1>4, <2>3, <3>1, <4>1, <4>4, LineTwice
      <4>6. PICK n : AllIn(g, u.cb, r \o <<NL>>, len, n)
        BY <4>5
      <4>7. w.lost = g.used + len - w.cb.used
        <5>1. PICK p, q \in Nat : p = g.used /\ q = u.cb.used
          <6>1. Valid(u.cb)
            BY <4>6, Zenon DEF AllIn
          <6>2. g.used \in Nat /\ u.cb.used \in Nat
            BY <1>4, <6>1, HeldIs
          <6> QED
            BY <6>2, Zenon
        <5>2. PICK y, z \in Int : y = v.lost /\ z = u.lost
          BY <4>5
        <5>3. y + z = p + (len - k) - q
          BY <4>3, <4>5, <5>1, <5>2, Zenon
        <5>4. k + y + z = p + len - q
          BY <5>3
        <5> QED
          BY <4>2, <5>1, <5>2, <5>4, Zenon
      <4>8. r \o <<NL>> \in Seq(Bytes) /\ r \o <<NL>> # <<>>
        BY CbufAssumption
      <4>9. len <= Len(s) + 1
        BY <1>4
      <4> QED
        BY <1>3, <1>7, <4>2, <4>6, <4>7, <4>8, <4>9
    <3> QED
      BY <3>2, <3>3
  <2>8. CASE Len(s) = k
    <3>1. v = Result(g, 0, 0)
      BY <2>2, <2>4, <2>8, Zenon DEF copied
    <3>2. v.cb = g /\ v.lost = 0
      BY <3>1 DEF Result
    <3>3. missing /\ len = k + 1
      BY <1>4, <2>5, <2>8
    <3>4. PICK u \in Written(g, <<NL>>) : w = Result(u.cb, len, k + 0 + u.lost)
      BY <1>2, <2>2, <2>4, <3>2, <3>3 DEF ended
    <3>5. w.cb = u.cb /\ w.ret = len /\ w.lost = k + 0 + u.lost
      BY <3>4 DEF Result
    <3>6. <<NL>> \in Seq(Bytes) /\ <<NL>> # <<>> /\ Len(<<NL>>) = 1
      BY CbufAssumption
    <3>7. Len(<<NL>>) <= len /\ Len(<<NL>>) <= g.size
      BY <1>4, <3>3, <3>6
    <3>8. AllIn(g, u.cb, <<NL>>, len, u.cb.size) /\ u.lost = g.used + Len(<<NL>>) - u.cb.used
      BY <1>4, <2>3, <3>4, <3>6, <3>7, LineOnce, ZenonT(30)
    <3>9. w.lost = g.used + len - w.cb.used
      <4>1. PICK p, q \in Nat : p = g.used /\ q = u.cb.used
        <5>1. Valid(u.cb)
          BY <3>8, Zenon DEF AllIn
        <5>2. g.used \in Nat /\ u.cb.used \in Nat
          BY <1>4, <5>1, HeldIs
        <5> QED
          BY <5>2, Zenon
      <4>2. u.lost = p + 1 - q
        BY <3>6, <3>8, <4>1, Zenon
      <4>3. k + 0 + u.lost = p + len - q
        BY <3>3, <4>2
      <4> QED
        BY <3>5, <4>1, <4>3, Zenon
    <3>10. len <= Len(s) + 1
      BY <1>4
    <3> QED
      BY <1>3, <1>7, <3>5, <3>6, <3>8, <3>9, <3>10
  <2> QED
    BY <2>7, <2>8
<1> QED
  BY <1>5, <1>6, <1>7

\* cbuf_write_line.
LEMMA LogLine ==
  ASSUME Valid(cb), NEW s \in Seq(Bytes), Len(s) <= MaxWrite, WriteLine(s) PROVE Log!Next
<1>1. PICK w \in WrittenLine(cb, s) : cb' = w.cb
  BY DEF WriteLine
<1>2. PICK len \in Nat \ {0} : \E g \in Grown(cb, len) :
        /\ len <= Len(s) + 1
        /\ \/ w.cb = g
           \/ /\ Accepted(g, len) = len
              /\ \E x \in Seq(Bytes) : \E n : x # <<>> /\ AllIn(g, w.cb, x, len, n)
  BY LineWritten
<1>3. PICK g \in Grown(cb, len) :
        /\ len <= Len(s) + 1
        /\ \/ w.cb = g
           \/ /\ Accepted(g, len) = len
              /\ \E x \in Seq(Bytes) : \E n : x # <<>> /\ AllIn(g, w.cb, x, len, n)
  BY <1>2, Zenon
<1>4. CASE w.cb = g
  <2>1. Valid(cb') /\ Pushed(cb, cb', <<>>, cb'.size)
    BY <1>1, <1>4, GrownKeeps, GrownPushes
  <2> QED
    BY <2>1, LogGrow DEF Log!Next
<1>5. ASSUME Accepted(g, len) = len, NEW x \in Seq(Bytes), NEW n, x # <<>>,
             AllIn(g, w.cb, x, len, n)
      PROVE  Log!Next
  <2>1. /\ Valid(g) /\ g.used = cb.used /\ g.overwrite = cb.overwrite
        /\ len <= Free(g) \/ g.size = MaxSize \/ MayFail
        /\ Pushed(cb, g, <<>>, g.size)
    BY GrownRoom, GrownPushes
  <2>2. PICK f : f = cb' /\ AllIn(g, f, x, len, n)
    BY <1>1, <1>5
  <2>3. PICK a, u, S, T \in Nat : a = Len(x) /\ u = cb.used /\ S = g.size /\ T = f.size
    <3>1. Len(x) \in Nat /\ cb.used \in Nat /\ g.size \in Nat /\ f.size \in Nat
      BY <2>1, <2>2, HeldIs DEF AllIn
    <3> QED
      BY <3>1, Zenon
  <2>4. Free(g) = S - u
    BY <2>1, <2>3 DEF Free
  <2>5. /\ Valid(f) /\ a <= len /\ a <= S /\ Pushed(g, f, x, n)
        /\ len <= S - u \/ S = MaxSize => n = S /\ T = S
    BY <2>2, <2>3, <2>4 DEF AllIn
  <2>6. n \in S..T
    BY <2>3, <2>5 DEF Pushed
  <2>7. PICK N \in Nat : N = Smaller(S + a, n)
    BY <2>6 DEF Smaller
  <2>8. Pushed(cb, f, x, N)
    <3>1. <<>> \in Seq(Bytes) /\ <<>> \o x = x
      OBVIOUS
    <3>2. Pushed(cb, f, <<>> \o x, Smaller(g.size + Len(x), n))
      BY <2>1, <2>5, <3>1, PushedTwice, Zenon
    <3> QED
      BY <2>3, <2>7, <3>1, <3>2, Zenon
  <2>9. cb.overwrite = "NO_DROP" => len <= S - u
    <3>1. g.overwrite = "NO_DROP" => Accepted(g, len) = Smaller(len, Free(g))
      BY <2>1, AcceptedFits
    <3> QED
      BY <1>5, <2>1, <2>4, <3>1 DEF Smaller
  <2>10. N >= S /\ (S = n => N = S)
    BY <2>6, <2>7 DEF Smaller
  <2>11. N = T \/ MayFail
    BY <2>1, <2>3, <2>4, <2>5, <2>10
  <2>12. cb.overwrite = "NO_DROP" => u + a <= N
    BY <2>5, <2>9, <2>10
  <2>13. u + a > N => N = MaxSize \/ MayFail
    BY <2>1, <2>3, <2>4, <2>5, <2>10
  <2>14. Log!Push(x)
    BY <2>2, <2>3, <2>5, <2>8, <2>10, <2>11, <2>12, <2>13, LogPush
  <2>15. x \in Log!Strings
    <3>1. Len(s) \in Nat /\ MaxWrite \in Nat
      BY CbufAssumption
    <3>2. Len(x) <= MaxWrite + 1
      BY <1>3, <2>3, <2>5, <3>1
    <3> QED
      BY <1>5, <3>2, LogStrings
  <2> QED
    BY <2>14, <2>15, Zenon DEF Log!Next
<1> QED
  BY <1>3, <1>4, <1>5

-----------------------------------------------------------------------------
(* The refinement. *)

\* An operation of the buffer is an operation of the log, or changes nothing there.
LEMMA LogStep == IndInv /\ [Next]_cb => [Log!Next]_(Log!vars)
<1> SUFFICES ASSUME Valid(cb), [Next]_cb PROVE [Log!Next]_(Log!vars)
  BY DEF IndInv
<1>1. /\ cb.used \in Nat /\ Reused(cb) \in Nat /\ MaxSize \in Nat
  BY HeldIs, CbufAssumption
<1>2. CASE Flush
  BY <1>2, LogFlush DEF Log!Next
<1>3. ASSUME NEW value \in Overwrites, OptSet(value) PROVE Log!Next
  BY <1>3, LogSet DEF Log!Next
<1>4. ASSUME NEW len \in -1..MaxSize, Drop(len) \/ ReadToFd(len) \/ Rewind(len) PROVE Log!Next
  <2>1. CASE Drop(len)
    <3>1. PICK n : n = IF len = -1 THEN cb.used ELSE Smaller(len, cb.used)
      OBVIOUS
    <3>2. n \in 0..cb.used
      BY <1>1, <3>1 DEF Smaller
    <3> QED
      BY <2>1, <3>1, <3>2, DropMoves DEF Drop, Log!Next
  <2>2. CASE ReadToFd(len)
    <3>1. PICK m : m = IF len = -1 THEN cb.used ELSE Smaller(len, cb.used)
      OBVIOUS
    <3>2. m \in 0..cb.used
      BY <1>1, <3>1 DEF Smaller
    <3>3. PICK n \in 0..m : cb' = Dropped(cb, n)
      BY <2>2, <3>1, Zenon DEF ReadToFd
    <3>4. n \in 0..cb.used
      BY <1>1, <3>2
    <3> QED
      BY <3>3, <3>4, DropMoves DEF Log!Next
  <2>3. CASE Rewind(len)
    <3>1. PICK n : n = IF len = -1 THEN Reused(cb) ELSE Smaller(len, Reused(cb))
      OBVIOUS
    <3>2. n \in 0..Reused(cb)
      BY <1>1, <3>1 DEF Smaller
    <3> QED
      BY <2>3, <3>1, <3>2, RewindMoves DEF Rewind, Log!Next
  <2> QED
    BY <1>4, <2>1, <2>2, <2>3
<1>5. ASSUME NEW len \in 0..MaxSize + 2, NEW lines \in -1..MaxSize + 1,
             DropLine(len, lines) \/ ReadLine(len, lines) \/ RewindLine(len, lines)
      PROVE  Log!Next
  <2>1. CASE DropLine(len, lines)
    <3>1. FindUnread(cb, len, lines).m \in 0..cb.used
      BY FindUnreadIs, Zenon DEF Valid
    <3> QED
      BY <2>1, <3>1, DropMoves, Zenon DEF DropLine, Log!Next
  <2>2. CASE ReadLine(len, lines)
    <3>1. FindUnread(cb, len - 1, lines).m \in 0..cb.used
      BY FindUnreadIs, Zenon DEF Valid
    <3> QED
      BY <2>2, <3>1, DropMoves, Zenon DEF ReadLine, Log!Next
  <2>3. CASE RewindLine(len, lines)
    <3>1. FindReplay(cb, len, lines).m \in 0..Reused(cb)
      BY FindReplayIs, Zenon
    <3> QED
      BY <2>3, <3>1, RewindMoves, Zenon DEF RewindLine, Log!Next
  <2> QED
    BY <1>5, <2>1, <2>2, <2>3
<1>6. ASSUME NEW s \in Strings, Write(s) \/ WriteLine(s) \/ CopyIn(s) PROVE Log!Next
  <2>1. s \in Seq(Bytes) /\ Len(s) <= MaxWrite
    BY CbufAssumption DEF Strings
  <2> QED
    BY <1>6, <2>1, LogWrite, LogLine, LogCopy
<1>7. CASE WriteLine(<<>>)
  <2>1. <<>> \in Seq(Bytes) /\ Len(<<>>) <= MaxWrite
    BY CbufAssumption
  <2> QED
    BY <1>7, <2>1, LogLine
<1>8. ASSUME NEW len \in {-1} \cup 1..MaxWrite, WriteFromFd(len) PROVE Log!Next
  BY <1>8, LogFd
<1>9. CASE UNCHANGED cb
  <2>1. Unread(cb)' = Unread(cb) /\ Replay(cb)' = Replay(cb)
    BY <1>9
  <2> QED
    BY <1>9, <2>1 DEF Log!vars
<1> QED
  BY <1>2, <1>3, <1>4, <1>5, <1>6, <1>7, <1>8, <1>9, Zenon DEF Next

\* A new buffer is an empty log.
LEMMA LogInit == Init => Log!Init
<1> SUFFICES ASSUME Init PROVE Log!Init
  OBVIOUS
<1>1. PICK c : c = cb
  OBVIOUS
<1>2. Valid(c) /\ c.used = 0 /\ c.i_rep = 0 /\ c.i_out = 0 /\ c.got_wrap = FALSE
      /\ c.size = MinSize /\ c.overwrite = "WRAP_MANY"
  BY <1>1, CreatedValid DEF Init, Created
<1>3. Reused(c) = 0
  BY <1>2, ReusedIs
<1>4. Unread(c) = <<>> /\ Replay(c) = <<>>
  <2>1. Len(Unread(c)) = 0 /\ Len(Replay(c)) = 0
    BY <1>2, <1>3, UnreadIs, ReplayIs
  <2>2. Unread(c) \in Seq(Memory) /\ Replay(c) \in Seq(Memory)
    BY <1>2, UnreadIs, ReplayIs
  <2> QED
    BY <2>1, <2>2, EmptySeq, Zenon
<1> QED
  BY <1>1, <1>2, <1>4 DEF Log!Init

\* Whatever the indices do, the buffer behaves as the log that cbuf.h describes.
THEOREM ImplementsLog == Spec => KeepsLog
<1>1. Init => IndInv
  BY CreatedValid DEF Init, IndInv
<1> QED
  BY <1>1, NextKeeps, LogInit, LogStep, PTL DEF Spec, KeepsLog, Log!Spec

-----------------------------------------------------------------------------
(* What writes report. *)

\* cbuf_write.
LEMMA WrittenLoss ==
  ASSUME NEW c, Valid(c), NEW s \in Seq(Bytes), NEW w \in Written(c, s)
  PROVE  w.lost = IF w.ret = -1 THEN 0 ELSE c.used + w.ret - w.cb.used
<1>1. PICK g \in Grown(c, Len(s)) : w = WriterResult(g, SubSeq(s, 1, Accepted(g, Len(s))))
  BY Zenon DEF Written
<1>2. Valid(g) /\ g.used = c.used
  BY GrownRoom
<1>3. PICK n \in 0..Len(s) : n = Accepted(g, Len(s))
  BY <1>2, AcceptedFits
<1>4. PICK t \in Seq(Bytes) : t = SubSeq(s, 1, n) /\ Len(t) = n
  <2>1. SubSeq(s, 1, n) \in Seq(Bytes) /\ Len(SubSeq(s, 1, n)) = n
    BY <1>3
  <2> QED
    BY <2>1, Zenon
<1>5. CASE t = <<>>
  BY <1>1, <1>3, <1>4, <1>5 DEF WriterResult, Result
<1>6. CASE t # <<>>
  <2>1. /\ w.cb = Stored(g, t) /\ w.ret = n /\ w.lost = Larger(0, n - Free(g))
    BY <1>1, <1>3, <1>4, <1>6 DEF WriterResult, Result
  <2>2. PICK u, S \in Nat : u = c.used /\ S = g.size
    BY <1>2, HeldIs
  <2>3. w.cb.used = Smaller(u + n, S)
    BY <1>2, <1>4, <2>1, <2>2, StoredFields
  <2>4. Larger(0, n - (S - u)) = u + n - Smaller(u + n, S)
    BY DEF Larger, Smaller
  <2>5. Free(g) = S - u
    BY <1>2, <2>2 DEF Free
  <2>6. n # -1
    OBVIOUS
  <2> QED
    BY <2>1, <2>2, <2>3, <2>4, <2>5, <2>6
<1> QED
  BY <1>5, <1>6

\* cbuf_copy.
LEMMA CopiedLoss ==
  ASSUME NEW c, Valid(c), NEW s \in Seq(Bytes), NEW w \in Copied(c, s)
  PROVE  w.lost = IF w.ret = -1 THEN 0 ELSE c.used + w.ret - w.cb.used
<1>1. PICK g \in Grown(c, Len(s)) :
        w = LET n == Accepted(g, Len(s))
            IN IF n = 0 THEN Result(g, -1, 0)
               ELSE Result(Stored(g, Keep(g.size, SubSeq(s, 1, n))), n, Larger(0, n - Free(g)))
  BY Zenon DEF Copied
<1>2. Valid(g) /\ g.used = c.used
  BY GrownRoom
<1>3. PICK n \in 0..Len(s) : n = Accepted(g, Len(s))
  BY <1>2, AcceptedFits
<1>4. PICK t \in Seq(Bytes) : t = SubSeq(s, 1, n) /\ Len(t) = n
  <2>1. SubSeq(s, 1, n) \in Seq(Bytes) /\ Len(SubSeq(s, 1, n)) = n
    BY <1>3
  <2> QED
    BY <2>1, Zenon
<1>5. PICK u, S \in Nat : u = c.used /\ S = g.size /\ S # 0 /\ u <= S
  BY <1>2, HeldIs
<1>6. PICK k : k = Keep(S, t)
  OBVIOUS
<1>7. k \in Seq(Bytes) /\ Len(k) = Smaller(n, S)
  BY <1>4, <1>5, <1>6, KeptIs
<1>8. w = IF n = 0 THEN Result(g, -1, 0) ELSE Result(Stored(g, k), n, Larger(0, n - Free(g)))
  BY <1>1, <1>3, <1>4, <1>5, <1>6, Zenon
<1>9. CASE n = 0
  BY <1>8, <1>9 DEF Result
<1>10. CASE n # 0
  <2>1. /\ w.cb = Stored(g, k) /\ w.ret = n /\ w.lost = Larger(0, n - Free(g))
    BY <1>8, <1>10 DEF Result
  <2>2. w.cb.used = Smaller(u + Smaller(n, S), S)
    BY <1>2, <1>5, <1>7, <2>1, StoredFields
  <2>3. Larger(0, n - (S - u)) = u + n - Smaller(u + Smaller(n, S), S)
    BY <1>5 DEF Larger, Smaller
  <2>4. Free(g) = S - u
    BY <1>2, <1>5 DEF Free
  <2>5. n # -1
    OBVIOUS
  <2> QED
    BY <1>5, <2>1, <2>2, <2>3, <2>4, <2>5
<1> QED
  BY <1>9, <1>10

\* cbuf_write_line.
LEMMA LineLoss ==
  ASSUME NEW c, Valid(c), NEW s \in Seq(Bytes), NEW w \in WrittenLine(c, s)
  PROVE  w.lost = IF w.ret = -1 THEN 0 ELSE c.used + w.ret - w.cb.used
<1>1. PICK len \in Nat \ {0} : \E g \in Grown(c, len) :
        \/ w.cb = g /\ w.ret = -1 /\ w.lost = 0
        \/ w.ret = len /\ w.lost = g.used + len - w.cb.used
  BY LineWritten
<1>2. PICK g \in Grown(c, len) :
        \/ w.cb = g /\ w.ret = -1 /\ w.lost = 0
        \/ w.ret = len /\ w.lost = g.used + len - w.cb.used
  BY <1>1, Zenon
<1>3. g.used = c.used
  BY GrownRoom
<1>4. len # -1
  OBVIOUS
<1> QED
  BY <1>2, <1>3, <1>4

\* What a write reports as dropped is what was there or went in and is not there after it.
THEOREM LossIsCounted == Spec => []LossCounted
<1>1. Init => IndInv
  BY CreatedValid DEF Init, IndInv
<1>2. IndInv => LossCounted
  <2> SUFFICES ASSUME Valid(cb), NEW s \in Strings,
                      NEW w \in Written(cb, s) \cup Copied(cb, s) \cup WrittenLine(cb, s)
               PROVE  w.lost = IF w.ret = -1 THEN 0 ELSE cb.used + w.ret - w.cb.used
    BY DEF IndInv, LossCounted
  <2>1. s \in Seq(Bytes)
    BY StringsAreSequences
  <2> QED
    BY <2>1, WrittenLoss, CopiedLoss, LineLoss, Zenon
<1> QED
  BY <1>1, <1>2, NextKeeps, PTL DEF Spec

-----------------------------------------------------------------------------
(* Numbers up to a bound, and how many of them there are: the newlines seen *)
(* so far.                                                                   *)

Upto(Q, n) == {k \in Q : k <= n}
Count(Q, n) == Cardinality(Upto(Q, n))

\* The loops stop at the first place where they have seen enough.
LEMMA LeastIs == ASSUME NEW T, T \subseteq Nat, T # {} PROVE \E m \in T : \A k \in T : m <= k
<1>1. PICK x \in T : \A y \in T : ~(<<y, x>> \in OpToRel(<, Nat))
  BY NatLessThanWellFounded, WFMin, Zenon
<1>2. ASSUME NEW y \in T, y < x PROVE <<y, x>> \in OpToRel(<, Nat)
  <2>1. <<y, x>> \in Nat \X Nat /\ <<y, x>>[1] = y /\ <<y, x>>[2] = x
    OBVIOUS
  <2> QED
    BY <1>2, <2>1, Zenon DEF OpToRel
<1>3. \A y \in T : ~(y < x)
  BY <1>1, <1>2
<1>4. \A y \in T : x <= y
  BY <1>3
<1> QED
  BY <1>4

LEMMA MostIs ==
  ASSUME NEW R \in Nat, NEW T, T \subseteq 1..R, T # {}
  PROVE  \E m \in T : \A k \in T : k <= m
<1> DEFINE D == {R - k : k \in T}
<1>1. \A k \in T : R - k \in Nat
  OBVIOUS
<1>5. D \subseteq Nat /\ D # {}
  BY <1>1
<1> HIDE DEF D
<1>2. PICK d \in D : \A e \in D : d <= e
  BY <1>5, LeastIs
<1>3. PICK m \in T : d = R - m
  BY DEF D
<1>4. ASSUME NEW k \in T PROVE k <= m
  <2>1. R - k \in D
    BY DEF D
  <2>2. d <= R - k
    BY <1>2, <2>1
  <2> QED
    BY <1>3, <2>2
<1> QED
  BY <1>4

\* Both definitions of the largest element agree.
LEMMA LargestOf ==
  ASSUME NEW S, S \subseteq Nat, NEW m,
         (S = {} /\ m = 0) \/ (m \in S /\ \A n \in S : n <= m)
  PROVE  Largest(S) = m /\ Log!Largest(S) = m
<1>1. CASE S = {} /\ m = 0
  BY <1>1, Zenon DEF Largest, Log!Largest
<1>2. CASE m \in S /\ \A n \in S : n <= m
  <2> DEFINE x == CHOOSE y \in S : \A n \in S : n <= y
  <2>1. x \in S /\ \A n \in S : n <= x
    BY <1>2, Zenon
  <2>2. x = m
    <3> HIDE DEF x
    <3>1. x <= m /\ m <= x /\ x \in Nat /\ m \in Nat
      BY <1>2, <2>1
    <3> QED
      BY <3>1
  <2>3. Largest(S) = x /\ Log!Largest(S) = x
    BY <1>2, Zenon DEF Largest, Log!Largest
  <2> QED
    BY <2>2, <2>3
<1> QED
  BY <1>1, <1>2

LEMMA LogCard == ASSUME NEW S PROVE Log!Cardinality(S) = Cardinality(S)
  BY DEF Log!Cardinality, Cardinality

LEMMA CountIs ==
  ASSUME NEW R \in Nat, NEW Q, Q \subseteq 1..R, NEW n \in Int
  PROVE  Upto(Q, n) \subseteq 1..R /\ IsFiniteSet(Upto(Q, n)) /\ Count(Q, n) \in Nat
<1>1. Upto(Q, n) \subseteq 1..R
  BY DEF Upto
<1>2. IsFiniteSet(1..R)
  BY FS_Interval
<1>3. IsFiniteSet(Upto(Q, n))
  BY <1>1, <1>2, FS_Subset
<1> QED
  BY <1>1, <1>3, FS_CardinalityType DEF Count

LEMMA CountNone ==
  ASSUME NEW R \in Nat, NEW Q, Q \subseteq 1..R PROVE Count(Q, 0) = 0
<1>1. \A k \in Q : ~(k <= 0)
  OBVIOUS
<1>2. Upto(Q, 0) = {}
  BY <1>1 DEF Upto
<1> QED
  BY <1>2, FS_EmptySet DEF Count

LEMMA CountNext ==
  ASSUME NEW R \in Nat, NEW Q, Q \subseteq 1..R, NEW n \in Nat
  PROVE  Count(Q, n + 1) = Count(Q, n) + (IF n + 1 \in Q THEN 1 ELSE 0)
<1>0. \A k \in Q : k <= n + 1 <=> k <= n \/ k = n + 1
  OBVIOUS
<1>1. IsFiniteSet(Upto(Q, n)) /\ n + 1 \notin Upto(Q, n) /\ Count(Q, n) \in Nat
  <2>0. n \in Int
    OBVIOUS
  <2>1. IsFiniteSet(Upto(Q, n)) /\ Count(Q, n) \in Nat
    BY <2>0, CountIs, Zenon
  <2>2. ~(n + 1 <= n)
    OBVIOUS
  <2> QED
    BY <2>1, <2>2 DEF Upto
<1>2. CASE n + 1 \in Q
  <2>1. Upto(Q, n + 1) = Upto(Q, n) \cup {n + 1}
    <3>1. \A k : k \in Upto(Q, n + 1) <=> k \in Upto(Q, n) \/ k = n + 1
      <4>1. n + 1 <= n + 1
        OBVIOUS
      <4> QED
        BY <1>0, <1>2, <4>1, Zenon DEF Upto
    <3> QED
      BY <3>1, Zenon
  <2>2. Cardinality(Upto(Q, n) \cup {n + 1}) = Cardinality(Upto(Q, n)) + 1
    BY <1>1, FS_AddElement
  <2> QED
    BY <1>2, <2>1, <2>2 DEF Count
<1>3. CASE n + 1 \notin Q
  <2>1. Upto(Q, n + 1) = Upto(Q, n)
    <3>1. \A k : k \in Upto(Q, n + 1) <=> k \in Upto(Q, n)
      BY <1>0, <1>3, Zenon DEF Upto
    <3> QED
      BY <3>1, Zenon
  <2> QED
    BY <1>1, <1>3, <2>1 DEF Count
<1> QED
  BY <1>2, <1>3

LEMMA CountGrows ==
  ASSUME NEW R \in Nat, NEW Q, Q \subseteq 1..R, NEW a \in Int, NEW b \in Int, a <= b
  PROVE  Count(Q, a) <= Count(Q, b) /\ (a < b /\ b \in Q => Count(Q, a) < Count(Q, b))
<1>1. Upto(Q, a) \subseteq Upto(Q, b)
  <2>1. \A k \in Q : k <= a => k <= b
    OBVIOUS
  <2> QED
    BY <2>1, Zenon DEF Upto
<1>2. IsFiniteSet(Upto(Q, b)) /\ Count(Q, b) \in Nat /\ Count(Q, a) \in Nat
  BY CountIs
<1>3. Count(Q, a) <= Count(Q, b) /\ (Count(Q, b) = Count(Q, a) => Upto(Q, b) = Upto(Q, a))
  BY <1>1, <1>2, FS_Subset DEF Count
<1>4. a < b /\ b \in Q => Upto(Q, b) # Upto(Q, a)
  BY DEF Upto
<1> QED
  BY <1>2, <1>3, <1>4

\* The count rises by one at a time, so every number in between is reached, first at
\* an element.
LEMMA CountReaches ==
  ASSUME NEW R \in Nat, NEW Q, Q \subseteq 1..R, NEW t \in Nat, 1 <= t, t <= Count(Q, R)
  PROVE  \E n \in Q : Count(Q, n) = t /\ \A k \in 1..R : Count(Q, k) = t => n <= k
<1> DEFINE T == {n \in 1..R : t <= Count(Q, n)}
<1>0. R # 0
  <2>1. Count(Q, 0) = 0
    BY CountNone, Zenon
  <2> QED
    BY <2>1
<1>1. R \in T
  BY <1>0
<1>2. T \subseteq Nat /\ T # {}
  BY <1>1
<1>3. PICK n \in T : \A k \in T : n <= k
  <2> HIDE DEF T
  <2> QED
    BY <1>2, LeastIs
<1>4. n \in 1..R /\ t <= Count(Q, n)
  BY Zenon
<1>5. n - 1 \in Nat /\ (n - 1) + 1 = n
  BY <1>4
<1>6. Count(Q, n) = Count(Q, n - 1) + (IF n \in Q THEN 1 ELSE 0)
  <2>1. Count(Q, (n - 1) + 1) = Count(Q, n - 1) + (IF (n - 1) + 1 \in Q THEN 1 ELSE 0)
    BY <1>5, CountNext, Zenon
  <2> QED
    BY <1>5, <2>1, Zenon
<1>7. Count(Q, n - 1) < t
  <2>1. CASE n = 1
    <3>1. n - 1 = 0
      BY <2>1
    <3>2. Count(Q, n - 1) = 0
      BY <3>1, CountNone, Zenon
    <3> QED
      BY <3>2
  <2>2. CASE n # 1
    <3>1. n - 1 \in 1..R /\ n - 1 \notin T
      BY <1>3, <1>4, <2>2
    <3>2. Count(Q, n - 1) \in Nat
      <4>1. n - 1 \in Int
        BY <1>5
      <4> QED
        BY <4>1, CountIs, Zenon
    <3> QED
      BY <3>1, <3>2
  <2> QED
    BY <2>1, <2>2
<1>8. Count(Q, n) \in Nat /\ Count(Q, n - 1) \in Nat
  <2>1. n \in Int /\ n - 1 \in Int
    BY <1>4
  <2> QED
    BY <2>1, CountIs, Zenon
<1>9. Count(Q, n) = t /\ n \in Q
  BY <1>4, <1>6, <1>7, <1>8
<1>10. \A k \in 1..R : Count(Q, k) = t => n <= k
  BY <1>3
<1> QED
  BY <1>9, <1>10

\* How far a loop goes: to the first stop, or over all.
LEMMA VisitedIs ==
  ASSUME NEW all, NEW stops, stops \subseteq Nat
  PROVE  /\ stops = {} => Visited(all, stops) = all
         /\ \A n \in stops : (\A k \in stops : n <= k) => Visited(all, stops) = n
<1>1. ASSUME NEW n \in stops, \A k \in stops : n <= k PROVE Visited(all, stops) = n
  <2> DEFINE x == CHOOSE m \in stops : \A k \in stops : m <= k
  <2>1. x \in stops /\ \A k \in stops : x <= k
    BY <1>1, Zenon
  <2>2. x = n
    <3> HIDE DEF x
    <3>1. x <= n /\ n <= x /\ x \in Nat /\ n \in Nat
      BY <1>1, <2>1
    <3> QED
      BY <3>1
  <2>3. Visited(all, stops) = x
    BY <1>1, Zenon DEF Visited
  <2> QED
    BY <2>2, <2>3
<1> QED
  BY <1>1, Zenon DEF Visited

\* Where a loop may stop: at byte n, or (lines) at the newline with number t.
Stops(Q, R, n, t, lines) == {k \in 1..R : IF lines = -1 THEN k = n ELSE Count(Q, k) = t}

\* What that means for the loop that counts bytes, and for the one that counts newlines.
ByteStop(Q, R, n, stops) ==
  /\ Visited(R, stops) = Smaller(n, R)
  /\ \A k \in Q : k \in Upto(Q, Smaller(n, R)) <=> k <= n
  /\ stops = {} <=> R < n
CountStop(Q, R, t, stops) ==
  /\ stops = {} => Count(Q, R) < t /\ \A n \in Q : Count(Q, n) # t
  /\ stops # {} => \E e \in Q : /\ Visited(R, stops) = e /\ Count(Q, e) = t /\ t <= Count(Q, R)
                                /\ \A n \in Q : Count(Q, n) = t <=> n = e

LEMMA StopAtByte ==
  ASSUME NEW R \in Nat, NEW Q, Q \subseteq 1..R, NEW n \in Nat, 1 <= n, NEW t,
         NEW lines, lines = -1
  PROVE  ByteStop(Q, R, n, Stops(Q, R, n, t, lines))
<1> DEFINE stops == Stops(Q, R, n, t, lines)
<1>0. stops = {k \in 1..R : k = n}
  BY Zenon DEF Stops
<1>1. CASE n <= R
  <2>1. stops = {n}
    <3>1. n \in 1..R
      BY <1>1
    <3> QED
      BY <1>0, <3>1, Zenon
  <2> HIDE DEF stops
  <2>2. Visited(R, stops) = n
    <3>1. stops \subseteq Nat /\ n \in stops /\ \A k \in stops : n <= k
      BY <2>1
    <3> QED
      BY <3>1, VisitedIs, Zenon
  <2>3. ~(R < n) /\ stops # {}
    BY <1>1, <2>1
  <2>4. Smaller(n, R) = n
    BY <1>1, Zenon DEF Smaller
  <2> QED
    BY <1>1, <2>2, <2>3, <2>4, Zenon DEF stops, Upto, ByteStop
<1>2. CASE ~(n <= R)
  <2>1. \A k \in 1..R : k # n /\ k <= R /\ k <= n
    BY <1>2
  <2>2. stops = {}
    BY <1>0, <2>1, Zenon
  <2>3. Visited(R, stops) = R
    <3> HIDE DEF stops
    <3> QED
      BY <2>2, VisitedIs, Zenon
  <2>4. \A k \in Q : k \in Upto(Q, R) <=> k <= n
    BY <2>1, Zenon DEF Upto
  <2>5. R < n
    BY <1>2
  <2>6. Smaller(n, R) = R
    BY <1>2, Zenon DEF Smaller
  <2> QED
    BY <2>2, <2>3, <2>4, <2>5, <2>6, Zenon DEF ByteStop
<1> QED
  BY <1>1, <1>2

LEMMA StopAtCount ==
  ASSUME NEW R \in Nat, NEW Q, Q \subseteq 1..R, NEW t \in Nat, 1 <= t, NEW m,
         NEW lines, lines # -1
  PROVE  CountStop(Q, R, t, Stops(Q, R, m, t, lines))
<1> DEFINE stops == Stops(Q, R, m, t, lines)
<1>0. \A n : n \in stops <=> n \in 1..R /\ Count(Q, n) = t
  BY Zenon DEF Stops
<1> HIDE DEF stops
<1>1. R \in Int /\ \A n \in 1..R : n \in Int /\ n <= R
  OBVIOUS
<1>2. Count(Q, R) \in Nat
  BY <1>1, CountIs, Zenon
<1>3. ASSUME t <= Count(Q, R)
      PROVE  stops # {} /\ \E e \in Q : /\ Visited(R, stops) = e /\ Count(Q, e) = t
                                       /\ \A n \in Q : Count(Q, n) = t <=> n = e
  <2>1. PICK e \in Q : Count(Q, e) = t /\ \A k \in 1..R : Count(Q, k) = t => e <= k
    BY <1>3, CountReaches, Zenon
  <2>2. e \in 1..R /\ e \in stops /\ \A k \in stops : e <= k
    BY <1>0, <2>1, Zenon
  <2>3. stops \subseteq Nat
    <3>1. 1..R \subseteq Nat
      OBVIOUS
    <3> QED
      BY <1>0, <3>1, Zenon
  <2>4. Visited(R, stops) = e
    BY <2>2, <2>3, VisitedIs, Zenon
  <2>5. ASSUME NEW n \in Q, Count(Q, n) = t PROVE n = e
    <3>1. n \in 1..R /\ n \in Int /\ e \in Int
      BY <1>1, <2>2, Zenon
    <3>2. e <= n
      BY <2>1, <2>5, <3>1, Zenon
    <3>3. CASE e < n
      <4>1. Count(Q, e) < Count(Q, n)
        BY <3>1, <3>2, <3>3, CountGrows, Zenon
      <4> QED
        BY <2>1, <2>5, <4>1
    <3> QED
      BY <3>1, <3>2, <3>3
  <2> QED
    BY <2>1, <2>2, <2>4, <2>5, Zenon
<1>4. ASSUME NEW n \in 1..R, Count(Q, n) = t PROVE t <= Count(Q, R)
  <2>1. Count(Q, n) <= Count(Q, R)
    BY <1>1, CountGrows, Zenon
  <2> QED
    BY <1>4, <2>1
<1>5. CASE t <= Count(Q, R)
  BY <1>3, <1>5, Zenon DEF stops, CountStop
<1>6. CASE ~(t <= Count(Q, R))
  <2>1. stops = {} /\ \A n \in Q : Count(Q, n) # t
    BY <1>0, <1>4, <1>6, Zenon
  <2>2. Count(Q, R) < t
    BY <1>2, <1>6
  <2> QED
    BY <2>1, <2>2, Zenon DEF stops, CountStop
<1> QED
  BY <1>5, <1>6

\* The elements up to e, less one, are those before an element.
LEMMA BeforeElement ==
  ASSUME NEW R \in Nat, NEW Q, Q \subseteq 1..R, NEW e \in Nat, NEW S, S \subseteq Nat,
         \A b \in Nat : b \in S <=> b >= 1 /\ b + 1 \in Upto(Q, e)
  PROVE  Log!Largest(S) = Larger(0, Largest(Upto(Q, e)) - 1)
<1> DEFINE U == Upto(Q, e)
<1>1. U \subseteq 1..R
  BY Zenon DEF Upto
<1>2. S \subseteq Nat /\ \A b \in Nat : b \in S <=> b >= 1 /\ b + 1 \in U
  BY Zenon
<1> HIDE DEF U
<1>3. CASE U = {}
  <2>1. S = {}
    BY <1>2, <1>3, Zenon
  <2>2. Log!Largest(S) = 0
    BY <2>1, LargestOf, Zenon
  <2>3. Largest(U) = 0
    <3>1. U \subseteq Nat
      BY <1>3
    <3> QED
      BY <1>3, <3>1, LargestOf, Zenon
  <2> QED
    BY <2>2, <2>3 DEF Larger, U
<1>4. CASE U # {}
  <2>1. PICK m \in U : \A k \in U : k <= m
    BY <1>1, <1>4, MostIs, Zenon
  <2>2. U \subseteq Nat /\ m \in 1..R
    BY <1>1
  <2>3. Largest(U) = m
    BY <2>1, <2>2, LargestOf, Zenon
  <2>4. CASE m = 1
    <3>1. ASSUME NEW b \in S PROVE FALSE
      <4>1. b \in Nat /\ b >= 1 /\ b + 1 \in U
        BY <1>2, Zenon
      <4>2. b + 1 <= m
        BY <2>1, <4>1, Zenon
      <4> QED
        BY <2>4, <4>1, <4>2
    <3>2. Log!Largest(S) = 0
      <4>1. S = {}
        BY <3>1, Zenon
      <4> QED
        BY <4>1, LargestOf, Zenon
    <3> QED
      BY <2>3, <2>4, <3>2 DEF Larger, U
  <2>5. CASE m # 1
    <3>1. m - 1 \in Nat /\ m - 1 >= 1 /\ (m - 1) + 1 = m
      BY <2>2, <2>5
    <3>2. m - 1 \in S
      <4>1. (m - 1) + 1 \in U
        BY <2>1, <3>1, Zenon
      <4> QED
        BY <1>2, <3>1, <4>1, Zenon
    <3>3. ASSUME NEW b \in S PROVE b <= m - 1
      <4>1. b \in Nat /\ b + 1 \in U
        BY <1>2, Zenon
      <4>2. b + 1 <= m
        BY <2>1, <4>1, Zenon
      <4> QED
        BY <2>2, <4>1, <4>2
    <3>4. Log!Largest(S) = m - 1
      BY <1>2, <3>2, <3>3, LargestOf, Zenon
    <3> QED
      BY <2>3, <3>1, <3>4 DEF Larger, U
  <2> QED
    BY <2>4, <2>5
<1> QED
  BY <1>3, <1>4

-----------------------------------------------------------------------------
\* The unread bytes as the loop over them sees them.
LEMMA UnreadLines ==
  ASSUME NEW c, Valid(c)
  PROVE  LET Q == Log!NLs(Unread(c))
             byte(n) == c.data[(c.i_out + n - 1) % (c.size + 1)]
         IN  /\ c.used \in Nat /\ Q \subseteq 1..c.used
             /\ \A n : {k \in 1..c.used : k <= n /\ byte(k) = NL} = Upto(Q, n)
<1> DEFINE Q == Log!NLs(Unread(c))
           byte(n) == c.data[(c.i_out + n - 1) % (c.size + 1)]
<1>1. c.used \in Nat
  BY HeldIs
<1>2. Unread(c) = [k \in 1..c.used |-> byte(k)]
  BY Zenon DEF Unread, Region
<1>3. Len(Unread(c)) = c.used /\ \A k \in 1..c.used : Unread(c)[k] = byte(k)
  <2> HIDE DEF byte
  <2> QED
    BY <1>1, <1>2
<1>4. Q = {k \in 1..c.used : byte(k) = NL}
  <2> HIDE DEF byte
  <2>1. \A k : k \in Q <=> k \in 1..c.used /\ byte(k) = NL
    BY <1>3, Zenon DEF Log!NLs
  <2> QED
    BY <2>1, Zenon
<1> HIDE DEF byte
<1>5. ASSUME NEW n PROVE {k \in 1..c.used : k <= n /\ byte(k) = NL} = Upto(Q, n)
  BY <1>4, Zenon DEF Upto
<1> QED
  BY <1>1, <1>4, <1>5, Zenon DEF byte

\* What the search gives, with the newlines as a set.
NoneForward(c, chars, lines) ==
  \/ lines = 0 \/ (lines = -1 /\ chars <= 0)
  \/ (lines > 0 /\ Stops(Log!NLs(Unread(c)), c.used, chars, lines, lines) = {})

LEMMA FindUnreadSet ==
  ASSUME NEW c, Valid(c), NEW chars, NEW lines
  PROVE  LET Q == Log!NLs(Unread(c))
             end == Visited(c.used, Stops(Q, c.used, chars, lines, lines))
         IN  /\ NoneForward(c, chars, lines) => FindUnread(c, chars, lines).m = 0
             /\ ~NoneForward(c, chars, lines) =>
                  /\ FindUnread(c, chars, lines).m = Largest(Upto(Q, end))
                  /\ FindUnread(c, chars, lines).l = Count(Q, end)
<1> DEFINE Q == Log!NLs(Unread(c))
           byte(n) == c.data[(c.i_out + n - 1) % (c.size + 1)]
           newlines(n) == {k \in 1..c.used : k <= n /\ byte(k) = NL}
           stops == {n \in 1..c.used : IF lines = -1 THEN n = chars
                                       ELSE Cardinality(newlines(n)) = lines}
           end == Visited(c.used, stops)
           none == lines = 0 \/ (lines = -1 /\ chars <= 0) \/ (lines > 0 /\ stops = {})
<1>1. FindUnread(c, chars, lines) =
        IF none THEN Nothing
        ELSE [m |-> Largest(newlines(end)), l |-> Cardinality(newlines(end))]
  BY DEF FindUnread
<1>2. \A n : newlines(n) = Upto(Q, n)
  BY UnreadLines, Zenon
<1> HIDE DEF newlines
<1>3. stops = Stops(Q, c.used, chars, lines, lines)
  <2>1. \A n : Cardinality(newlines(n)) = Count(Q, n)
    BY <1>2, Zenon DEF Count
  <2> HIDE DEF Q
  <2> QED
    BY <2>1, Zenon DEF Stops
<1> HIDE DEF Q, stops
<1>4. none <=> NoneForward(c, chars, lines)
  BY <1>3, Zenon DEF NoneForward, Q
<1>5. /\ none => FindUnread(c, chars, lines).m = 0
      /\ ~none => /\ FindUnread(c, chars, lines).m = Largest(newlines(end))
                  /\ FindUnread(c, chars, lines).l = Cardinality(newlines(end))
  <2> HIDE DEF none, end
  <2> QED
    BY <1>1 DEF Nothing
<1> HIDE DEF none
<1>6. Largest(newlines(end)) = Largest(Upto(Q, end)) /\ Cardinality(newlines(end)) = Count(Q, end)
  BY <1>2, Zenon DEF Count
<1> QED
  BY <1>3, <1>4, <1>5, <1>6, Zenon DEF Q

\* The search forward finds the lines that FirstLines defines.
LEMMA Forward ==
  ASSUME NEW c, Valid(c), NEW len \in Nat, NEW lines \in Int, lines = -1 \/ lines >= 1
  PROVE  FindUnread(c, len, lines).m = Log!FirstLines(Unread(c), len, lines)
<1> DEFINE Q == Log!NLs(Unread(c))
           stops == Stops(Q, c.used, len, lines, lines)
           end == Visited(c.used, stops)
           sel == {n \in Q : IF lines = -1 THEN n <= len ELSE Count(Q, n) = lines}
           none == NoneForward(c, len, lines)
<1>1. c.used \in Nat /\ Q \subseteq 1..c.used /\ Q \subseteq Nat
  <2>1. c.used \in Nat /\ Q \subseteq 1..c.used
    BY UnreadLines, Zenon
  <2> HIDE DEF Q
  <2> QED
    BY <2>1
<1>2. /\ none => FindUnread(c, len, lines).m = 0
      /\ ~none => FindUnread(c, len, lines).m = Largest(Upto(Q, end))
  BY FindUnreadSet, Zenon
<1>3. Log!FirstLines(Unread(c), len, lines) = Log!Largest(sel)
  <2>1. \A n : Log!CountTo(Unread(c), n) = Count(Q, n)
    <3> SUFFICES ASSUME NEW n PROVE Log!CountTo(Unread(c), n) = Count(Q, n)
      OBVIOUS
    <3>1. {i \in Q : i <= n} = Upto(Q, n)
      BY Zenon DEF Upto
    <3>2. Log!CountTo(Unread(c), n) = Cardinality({i \in Q : i <= n})
      BY LogCard DEF Log!CountTo
    <3> HIDE DEF Q
    <3> QED
      BY <3>1, <3>2, Zenon DEF Count
  <2> DEFINE f == {n \in Q : IF lines = -1 THEN n <= len ELSE Log!CountTo(Unread(c), n) = lines}
  <2>2. Log!FirstLines(Unread(c), len, lines) = Log!Largest(f)
    BY DEF Log!FirstLines
  <2> HIDE DEF Q
  <2>3. f = sel
    BY <2>1, Zenon
  <2> QED
    BY <2>2, <2>3
<1>4. none <=> lines = 0 \/ (lines = -1 /\ len <= 0) \/ (lines > 0 /\ stops = {})
  BY Zenon DEF NoneForward
<1> HIDE DEF Q, none
<1>5. CASE lines = -1 /\ len = 0
  <2>1. none
    BY <1>4, <1>5
  <2>2. sel = {}
    <3>1. \A n \in Q : ~(n <= len)
      BY <1>1, <1>5
    <3> QED
      BY <1>5, <3>1, Zenon
  <2>3. Log!Largest(sel) = 0
    BY <2>2, LargestOf, Zenon
  <2> QED
    BY <1>2, <1>3, <2>1, <2>3
<1>6. CASE lines = -1 /\ len # 0
  <2>1. 1 <= len /\ ~none
    <3>1. 1 <= len /\ ~(lines = 0) /\ ~(len <= 0) /\ ~(lines > 0)
      BY <1>6
    <3> QED
      BY <1>4, <3>1, Zenon
  <2>2. \A n : n \in sel <=> n \in Q /\ n <= len
    BY <1>6, Zenon
  <2>3. Upto(Q, end) = sel
    <3>0. ByteStop(Q, c.used, len, stops)
      BY <1>1, <1>6, <2>1, StopAtByte, Zenon
    <3>1. end = Smaller(len, c.used)
      BY <3>0, Zenon DEF ByteStop
    <3>2. \A n \in Q : n \in Upto(Q, Smaller(len, c.used)) <=> n <= len
      BY <3>0, Zenon DEF ByteStop
    <3>3. \A n : n \in Upto(Q, end) => n \in Q
      BY Zenon DEF Upto
    <3> HIDE DEF end, sel
    <3>4. \A n : n \in Upto(Q, end) <=> n \in sel
      BY <2>2, <3>1, <3>2, <3>3, Zenon
    <3> QED
      BY <3>4, Zenon
  <2>4. Largest(sel) = Log!Largest(sel)
    <3>1. sel \subseteq 1..c.used /\ sel \subseteq Nat
      BY <1>1, <2>2, Zenon
    <3> HIDE DEF sel
    <3>2. CASE sel = {}
      BY <3>1, <3>2, LargestOf, Zenon
    <3>3. CASE sel # {}
      <4>1. PICK m \in sel : \A n \in sel : n <= m
        BY <1>1, <3>1, <3>3, MostIs, Zenon
      <4> QED
        BY <3>1, <4>1, LargestOf, Zenon
    <3> QED
      BY <3>2, <3>3
  <2> HIDE DEF sel, end
  <2> QED
    BY <1>2, <1>3, <2>1, <2>3, <2>4, Zenon
<1>7. CASE lines # -1
  <2>1. lines \in Nat /\ 1 <= lines /\ lines > 0 /\ lines # 0
    BY <1>7
  <2>2. \A n : n \in sel <=> n \in Q /\ Count(Q, n) = lines
    BY <1>7, Zenon
  <2>3. /\ stops = {} => \A n \in Q : Count(Q, n) # lines
        /\ stops # {} => \E e \in Q : /\ end = e /\ Count(Q, e) = lines
                                      /\ \A n \in Q : Count(Q, n) = lines <=> n = e
    <3>1. CountStop(Q, c.used, lines, stops)
      BY <1>1, <1>7, <2>1, StopAtCount, Zenon
    <3> QED
      BY <3>1, Zenon DEF CountStop
  <2> HIDE DEF sel, stops
  <2>4. CASE stops = {}
    <3>1. sel = {} /\ none
      BY <1>4, <2>1, <2>2, <2>3, <2>4, Zenon
    <3>2. Log!Largest(sel) = 0
      BY <3>1, LargestOf, Zenon
    <3> QED
      BY <1>2, <1>3, <3>1, <3>2, Zenon
  <2>5. CASE stops # {}
    <3>1. PICK e \in Q : end = e /\ \A n \in Q : Count(Q, n) = lines <=> n = e
      BY <2>3, <2>5, Zenon
    <3>2. sel = {e} /\ ~none
      <4>1. \A n : n \in sel <=> n = e
        BY <2>2, <3>1, Zenon
      <4>2. ~none
        BY <1>4, <1>7, <2>1, <2>5, Zenon
      <4> QED
        BY <4>1, <4>2, Zenon
    <3>3. e \in Nat /\ e <= e
      BY <1>1
    <3>4. Log!Largest(sel) = e
      <4>1. sel \subseteq Nat /\ e \in sel /\ \A n \in sel : n <= e
        BY <3>2, <3>3
      <4> QED
        BY <4>1, LargestOf, Zenon
    <3>5. Largest(Upto(Q, e)) = e
      <4>1. Upto(Q, e) \subseteq Nat /\ e \in Upto(Q, e) /\ \A n \in Upto(Q, e) : n <= e
        BY <1>1, <3>3, Zenon DEF Upto
      <4> QED
        BY <4>1, LargestOf, Zenon
    <3> QED
      BY <1>2, <1>3, <3>1, <3>2, <3>4, <3>5, Zenon
  <2> QED
    BY <2>4, <2>5
<1> QED
  BY <1>5, <1>6, <1>7

LEMMA AllForward ==
  ASSUME NEW c, Valid(c)
  PROVE  LinesUsed(c) = Cardinality(Log!NLs(Unread(c)))
<1> DEFINE Q == Log!NLs(Unread(c))
           end == Visited(c.used, Stops(Q, c.used, c.size, -1, -1))
<1>1. c.used \in Nat /\ Q \subseteq 1..c.used
  BY UnreadLines, Zenon
<1>2. c.size \in Nat /\ 1 <= c.size /\ ~(c.size <= 0) /\ c.used <= c.size
  BY HeldIs
<1>3. ~NoneForward(c, c.size, -1)
  BY <1>2 DEF NoneForward
<1>4. FindUnread(c, c.size, -1).l = Count(Q, end)
  BY <1>3, FindUnreadSet, Zenon
<1> HIDE DEF Q
<1>5. end = Smaller(c.size, c.used)
  <2>1. ByteStop(Q, c.used, c.size, Stops(Q, c.used, c.size, -1, -1))
    BY <1>1, <1>2, StopAtByte, Zenon
  <2> QED
    BY <2>1, Zenon DEF ByteStop
<1> HIDE DEF end
<1>6. end = c.used
  BY <1>1, <1>2, <1>5 DEF Smaller
<1>7. Upto(Q, end) = Q
  <2>1. \A n \in Q : n <= c.used
    BY <1>1
  <2> QED
    BY <1>6, <2>1, Zenon DEF Upto
<1> QED
  BY <1>4, <1>7, Zenon DEF LinesUsed, Count, Q

-----------------------------------------------------------------------------
(* Backwards: byte(n) of the loop is the n-th replay byte from the end.      *)

BackByte(c, n) == c.data[(c.i_out - n + c.size + 1) % (c.size + 1)]
BackNLs(c) == {k \in 1..Reused(c) : BackByte(c, k) = NL}

LEMMA ReplayBack ==
  ASSUME NEW c, Valid(c)
  PROVE  /\ Reused(c) \in Nat /\ Len(Replay(c)) = Reused(c)
         /\ \A n \in 1..Reused(c) : Replay(c)[Reused(c) - n + 1] = BackByte(c, n)
<1>1. PICK S \in Nat \ {0} : \E i, o, r, u, R \in 0..S :
        /\ S = c.size /\ i = c.i_in /\ o = c.i_out /\ r = c.i_rep /\ u = c.used
        /\ R = Reused(c) /\ R = Way(S, r, o) /\ Order(S, i, o, r, u) /\ u + R <= S
  BY PlainNumbers, Zenon
<1>2. PICK i, o, r, u, R \in 0..S :
        /\ S = c.size /\ i = c.i_in /\ o = c.i_out /\ r = c.i_rep /\ u = c.used
        /\ R = Reused(c) /\ R = Way(S, r, o) /\ Order(S, i, o, r, u) /\ u + R <= S
  BY <1>1, Zenon
<1>3. ASSUME NEW n \in 1..R
      PROVE  (r + (R - n + 1) - 1) % (S + 1) = (o - n + S + 1) % (S + 1)
  <2> DEFINE x == r + (R - n + 1) - 1
             y == o - n + S + 1
             m == S + 1
  <2>1. /\ m \in Nat \ {0} /\ x \in 0..(2 * m - 1) /\ y \in 0..(2 * m - 1)
        /\ x = r + (R - n + 1) - 1 /\ y = o - n + S + 1 /\ m = S + 1
    BY <1>2 DEF Way
  <2> HIDE DEF x, y, m
  <2>2. /\ x % m = IF x < m THEN x ELSE x - m
        /\ y % m = IF y < m THEN y ELSE y - m
    BY <2>1, ModOnce
  <2>3. (IF x < m THEN x ELSE x - m) = IF y < m THEN y ELSE y - m
    BY <1>2, <2>1 DEF Way
  <2> QED
    BY <2>2, <2>3 DEF x, y, m
<1>4. Replay(c) = [k \in 1..R |-> c.data[(r + k - 1) % (S + 1)]]
  BY <1>2, Zenon DEF Replay, Region
<1>5. R \in Nat /\ Len(Replay(c)) = R
  <2> DEFINE byte(k) == c.data[(r + k - 1) % (S + 1)]
  <2>1. Replay(c) = [k \in 1..R |-> byte(k)]
    BY <1>4
  <2> HIDE DEF byte
  <2> QED
    BY <2>1
<1>6. ASSUME NEW n \in 1..R PROVE Replay(c)[R - n + 1] = BackByte(c, n)
  <2>1. R - n + 1 \in 1..R
    OBVIOUS
  <2>2. Replay(c)[R - n + 1] = c.data[(r + (R - n + 1) - 1) % (S + 1)]
    BY <1>4, <2>1, Zenon
  <2>3. BackByte(c, n) = c.data[(o - n + S + 1) % (S + 1)]
    BY <1>2, Zenon DEF BackByte
  <2> QED
    BY <1>3, <2>2, <2>3, Zenon
<1> QED
  BY <1>2, <1>5, <1>6, Zenon

\* Counting from the end gives the same number.
Mirrored(R, Q, N) == \A k \in 1..R : k \in Q <=> R - k + 1 \in N
CountFrom(N, p) == Cardinality({i \in N : i >= p})

LEMMA MirrorCount ==
  ASSUME NEW R \in Nat, NEW Q, Q \subseteq 1..R, NEW N, N \subseteq 1..R, Mirrored(R, Q, N),
         NEW b \in 1..R
  PROVE  CountFrom(N, R - b + 1) = Count(Q, b)
<1> DEFINE U == Upto(Q, b)
           V == {i \in N : i >= R - b + 1}
           f == [k \in U |-> R - k + 1]
<1>1. U \subseteq 1..R /\ V \subseteq 1..R /\ IsFiniteSet(U)
  <2>1. b \in Int
    OBVIOUS
  <2> QED
    BY <2>1, CountIs, Zenon
<1>2. \A k \in 1..R : k \in U <=> R - k + 1 \in V
  <2>1. \A k \in 1..R : k <= b <=> R - k + 1 >= R - b + 1
    OBVIOUS
  <2> QED
    BY <2>1, Zenon DEF Upto, Mirrored
<1> HIDE DEF U, V
<1>3. \A i \in V : R - i + 1 \in U /\ R - (R - i + 1) + 1 = i
  <2>1. \A i \in 1..R : R - i + 1 \in 1..R /\ R - (R - i + 1) + 1 = i
    OBVIOUS
  <2> QED
    BY <1>1, <1>2, <2>1
<1>4. f \in Bijection(U, V)
  <2>1. f \in [U -> V]
    BY <1>1, <1>2
  <2>2. \A a, d \in U : f[a] = f[d] => a = d
    BY <1>1
  <2>3. \A i \in V : \E a \in U : f[a] = i
    <3>1. ASSUME NEW i \in V PROVE f[R - i + 1] = i
      BY <1>3
    <3> QED
      BY <1>3, <3>1
  <2> QED
    BY <2>1, <2>2, <2>3, Zenon DEF Bijection, Injection, Surjection, IsInjective
<1>5. Cardinality(V) = Cardinality(U)
  <2>1. ExistsBijection(U, V)
    BY <1>4, Zenon DEF ExistsBijection
  <2> QED
    BY <1>1, <2>1, FS_Bijection, Zenon
<1> QED
  BY <1>5, Zenon DEF Count, CountFrom, U, V

\* What the search back gives, with the newlines as a set.
Closed(c) == IF 1 \in BackNLs(c) THEN 1 ELSE 0
BackStops(c, chars, lines) ==
  Stops(BackNLs(c), Reused(c), chars + Closed(c), lines + Closed(c), lines)
BackEnd(c, chars, lines) == Visited(Reused(c), BackStops(c, chars, lines))
BackWhole(c, chars, lines) == WholeStart(c, BackStops(c, chars, lines))
BackFound(c, chars, lines) ==
  (Count(BackNLs(c), BackEnd(c, chars, lines))
     + (IF BackWhole(c, chars, lines) THEN 1 ELSE 0)) - Closed(c)
NoneBack(c, chars, lines) ==
  lines = 0 \/ (lines = -1 /\ chars <= 0) \/ BackFound(c, chars, lines) < lines

LEMMA NoReplay ==
  ASSUME NEW c, Reused(c) = 0, NEW chars, NEW lines
  PROVE  FindReplay(c, chars, lines) = Nothing
  BY Zenon DEF FindReplay

LEMMA FindReplaySet ==
  ASSUME NEW c, Valid(c), Reused(c) # 0, NEW chars \in Int, NEW lines \in Int
  PROVE  LET r == FindReplay(c, chars, lines)
         IN  /\ NoneBack(c, chars, lines) => r.m = 0 /\ r.l = 0
             /\ ~NoneBack(c, chars, lines) =>
                  /\ r.l = BackFound(c, chars, lines)
                  /\ BackWhole(c, chars, lines) => r.m = Reused(c)
                  /\ ~BackWhole(c, chars, lines) =>
                       r.m = Larger(0, Largest(Upto(BackNLs(c), BackEnd(c, chars, lines))) - 1)
<1> DEFINE all == Reused(c)
           byte(n) == c.data[(c.i_out - n + c.size + 1) % (c.size + 1)]
           newlines(n) == {k \in 1..all : k <= n /\ byte(k) = NL}
           closed == byte(1) = NL
           stops == {n \in 1..all : IF lines = -1 THEN n = IF closed THEN chars + 1 ELSE chars
                                    ELSE Cardinality(newlines(n)) = IF closed THEN lines + 1
                                                                    ELSE lines}
           end == Visited(all, stops)
           whole == WholeStart(c, stops)
           passed == Cardinality(newlines(end)) + (IF whole THEN 1 ELSE 0)
           found == IF closed THEN passed - 1 ELSE passed
           none == lines = 0 \/ (lines = -1 /\ chars <= 0) \/ all = 0 \/ found < lines
           found_m == IF whole THEN all ELSE Larger(0, Largest(newlines(end)) - 1)
           Q == BackNLs(c)
<1>1. FindReplay(c, chars, lines) = IF none THEN Nothing ELSE [m |-> found_m, l |-> found]
  BY DEF FindReplay
<1>2. all \in Nat /\ all # 0 /\ 1 \in 1..all
  <2>1. all \in Nat /\ all # 0
    BY ReplayBack, Zenon
  <2> HIDE DEF all
  <2> QED
    BY <2>1
<1>3. \A n : newlines(n) = Upto(Q, n)
  <2> SUFFICES ASSUME NEW n PROVE newlines(n) = Upto(Q, n)
    OBVIOUS
  <2>1. \A k : k \in newlines(n) <=> k \in Upto(Q, n)
    BY Zenon DEF Upto, BackNLs, BackByte
  <2> HIDE DEF newlines, Q
  <2> QED
    BY <2>1, Zenon
<1>4. closed <=> 1 \in Q
  BY <1>2, Zenon DEF BackNLs, BackByte
<1> HIDE DEF newlines, closed
<1>5. stops = BackStops(c, chars, lines)
  <2>1. \A n : Cardinality(newlines(n)) = Count(Q, n)
    BY <1>3, Zenon DEF Count
  <2>2. (IF closed THEN chars + 1 ELSE chars) = chars + Closed(c)
    BY <1>4 DEF Closed
  <2>3. (IF closed THEN lines + 1 ELSE lines) = lines + Closed(c)
    BY <1>4 DEF Closed
  <2> DEFINE a == IF closed THEN chars + 1 ELSE chars
             b == IF closed THEN lines + 1 ELSE lines
  <2>4. \A n : n \in stops <=> n \in 1..all /\ IF lines = -1 THEN n = a
                                               ELSE Cardinality(newlines(n)) = b
    BY Zenon
  <2>5. a = chars + Closed(c) /\ b = lines + Closed(c)
    BY <2>2, <2>3
  <2> HIDE DEF a, b, stops
  <2>6. \A n : n \in stops <=> n \in BackStops(c, chars, lines)
    BY <2>1, <2>4, <2>5, Zenon DEF Stops, BackStops
  <2> QED
    BY <2>4, <2>6, Zenon
<1> HIDE DEF stops
<1>6. end = BackEnd(c, chars, lines) /\ (whole <=> BackWhole(c, chars, lines))
  BY <1>5, Zenon DEF BackEnd, BackWhole
<1>7. newlines(end) = Upto(Q, end) /\ Cardinality(newlines(end)) = Count(Q, end)
  BY <1>3, Zenon DEF Count
<1> HIDE DEF end, whole
<1>8. Count(Q, end) \in Nat
  <2>1. Upto(Q, end) \subseteq 1..all /\ IsFiniteSet(1..all)
    <3>1. Upto(Q, end) \subseteq 1..all
      BY Zenon DEF Upto, BackNLs
    <3>2. all \in Int /\ 1 \in Int
      BY <1>2
    <3>3. IsFiniteSet(1..all)
      BY <3>2, FS_Interval, Zenon
    <3> QED
      BY <3>1, <3>3
  <2>2. IsFiniteSet(Upto(Q, end))
    BY <2>1, FS_Subset, Zenon
  <2> QED
    BY <2>2, FS_CardinalityType, Zenon DEF Count
<1>9. found = BackFound(c, chars, lines)
  <2> DEFINE n == Count(Q, end)
             w == n + (IF whole THEN 1 ELSE 0)
  <2>1. w \in Nat
    <3>1. n \in Nat
      BY <1>8
    <3> HIDE DEF n
    <3> QED
      BY <3>1
  <2>2. passed = w
    BY <1>7, Zenon
  <2>3. BackFound(c, chars, lines) = w - Closed(c)
    BY <1>6, Zenon DEF BackFound
  <2> HIDE DEF passed, w
  <2>4. found = IF closed THEN w - 1 ELSE w
    BY <2>2
  <2>5. Closed(c) = IF closed THEN 1 ELSE 0
    BY <1>4, Zenon DEF Closed
  <2> HIDE DEF found
  <2> QED
    BY <2>1, <2>3, <2>4, <2>5
<1> HIDE DEF found
<1>10. none <=> NoneBack(c, chars, lines)
  BY <1>2, <1>9, Zenon DEF NoneBack
<1> HIDE DEF none
<1>11. /\ none => FindReplay(c, chars, lines).m = 0 /\ FindReplay(c, chars, lines).l = 0
       /\ ~none => FindReplay(c, chars, lines).m = found_m /\ FindReplay(c, chars, lines).l = found
  <2> HIDE DEF found_m
  <2> QED
    BY <1>1 DEF Nothing
<1>12. /\ whole => found_m = all
       /\ ~whole => found_m = Larger(0, Largest(Upto(Q, end)) - 1)
  BY <1>7, Zenon
<1> HIDE DEF found_m
<1> QED
  BY <1>6, <1>9, <1>10, <1>11, <1>12, Zenon DEF all, Q

\* The numbers of bytes that LastLines chooses among, counted from the end: a line
\* begins there, and they are few enough or hold the lines asked for.
BackSet(Q, R, new, n, t, lines) ==
  {b \in 1..R : /\ IF b = R THEN new ELSE b + 1 \in Q
                /\ IF lines = -1 THEN b + 1 <= n ELSE Count(Q, b) + 1 = t}

LEMMA LastLinesIs ==
  ASSUME Valid(cb), Reused(cb) # 0, NEW len \in Nat, NEW lines \in Int
  PROVE  Log!LastLines(Replay(cb), len, lines) =
           Log!Largest(BackSet(BackNLs(cb), Reused(cb), ~cb.got_wrap, len + Closed(cb),
                               lines + Closed(cb), lines))
<1> DEFINE r == Replay(cb)
           R == Reused(cb)
           Q == BackNLs(cb)
           N == Log!NLs(r)
           open == IF r # <<>> /\ r[Len(r)] # NL THEN 1 ELSE 0
           starts == {p \in 1..Len(r) : IF p = 1 THEN ~cb.got_wrap ELSE r[p - 1] = NL}
           linesFrom(p) == Cardinality({i \in N : i >= p}) + open
           bytesFrom(p) == Len(r) - p + 1
           chosen == {q \in starts : IF lines = -1 THEN bytesFrom(q) + open <= len
                                     ELSE linesFrom(q) = lines}
           set == {bytesFrom(p) : p \in chosen}
           back == BackSet(Q, R, ~cb.got_wrap, len + Closed(cb), lines + Closed(cb), lines)
<1>1. Log!LastLines(r, len, lines) = Log!Largest(set)
  BY LogCard, Zenon DEF Log!LastLines
<1>2. /\ R \in Nat /\ R # 0 /\ Len(r) = R /\ 1 \in 1..R /\ Q \subseteq 1..R /\ N \subseteq 1..R
      /\ \A n \in 1..R : r[R - n + 1] = BackByte(cb, n)
  <2>1. R \in Nat /\ R # 0 /\ Len(r) = R /\ \A n \in 1..R : r[R - n + 1] = BackByte(cb, n)
    BY ReplayBack, Zenon
  <2>2. Q \subseteq 1..R /\ N \subseteq 1..R
    BY <2>1, Zenon DEF BackNLs, Log!NLs
  <2> HIDE DEF R
  <2>3. 1 \in 1..R
    BY <2>1
  <2> QED
    BY <2>1, <2>2, <2>3
<1>3. /\ \A k \in 1..R : k \in Q <=> BackByte(cb, k) = NL
      /\ \A i \in 1..R : i \in N <=> r[i] = NL
  BY <1>2, Zenon DEF BackNLs, Log!NLs
<1> HIDE DEF r, R, Q, N
<1>4. \A k \in 1..R : R - k + 1 \in 1..R /\ (k \in Q <=> R - k + 1 \in N)
  <2>1. \A k \in 1..R : R - k + 1 \in 1..R
    BY <1>2
  <2> QED
    BY <1>2, <1>3, <2>1, Zenon
<1>5. open = 1 - Closed(cb) /\ Closed(cb) \in {0, 1}
  <2>1. r # <<>>
    BY <1>2
  <2>2. r[Len(r)] = BackByte(cb, 1)
    <3>1. R - 1 + 1 = R
      BY <1>2
    <3>2. r[R - 1 + 1] = BackByte(cb, 1)
      BY <1>2, Zenon
    <3> QED
      BY <1>2, <3>1, <3>2
  <2>3. 1 \in Q <=> r[Len(r)] = NL
    BY <1>2, <1>3, <2>2, Zenon
  <2>4. Closed(cb) = IF 1 \in Q THEN 1 ELSE 0
    BY Zenon DEF Closed, Q
  <2> QED
    BY <2>1, <2>3, <2>4
<1> HIDE DEF open
<1>6. ASSUME NEW b \in 1..R PROVE bytesFrom(R - b + 1) = b /\ (b \in back <=> R - b + 1 \in chosen)
  <2> DEFINE p == R - b + 1
  <2>1. p \in 1..R /\ bytesFrom(p) = b /\ (p = 1 <=> b = R) /\ p - 1 = R - (b + 1) + 1
    BY <1>2
  <2>2. b # R => b + 1 \in 1..R
    BY <1>2
  <2>3. b # R => (r[p - 1] = NL <=> b + 1 \in Q)
    <3>1. ASSUME b # R PROVE r[R - (b + 1) + 1] = BackByte(cb, b + 1)
      BY <1>2, <2>2, <3>1, Zenon
    <3> QED
      BY <1>3, <2>1, <2>2, <3>1
  <2>4. Cardinality({i \in N : i >= p}) = Count(Q, b) /\ Count(Q, b) \in Nat
    <3>1. Mirrored(R, Q, N)
      BY <1>4, Zenon DEF Mirrored
    <3>2. b \in Int
      BY <1>2
    <3>3. R \in Nat /\ Q \subseteq 1..R /\ N \subseteq 1..R
      BY <1>2
    <3>4. Count(Q, b) \in Nat
      BY <3>2, <3>3, CountIs, Zenon
    <3>5. CountFrom(N, R - b + 1) = Count(Q, b)
      BY <3>1, <3>3, MirrorCount, Zenon
    <3> QED
      BY <3>4, <3>5, Zenon DEF CountFrom
  <2>5. linesFrom(p) = lines <=> Count(Q, b) + 1 = lines + Closed(cb)
    <3>1. linesFrom(p) = Count(Q, b) + open
      BY <2>4, Zenon
    <3> HIDE DEF linesFrom
    <3> QED
      BY <1>5, <2>4, <3>1
  <2>6. bytesFrom(p) + open <= len <=> b + 1 <= len + Closed(cb)
    BY <1>5, <2>1
  <2>7. p \in starts <=> IF b = R THEN ~cb.got_wrap ELSE b + 1 \in Q
    BY <1>2, <2>1, <2>3
  <2> HIDE DEF linesFrom, starts, p
  <2>8. p \in chosen <=> /\ IF b = R THEN ~cb.got_wrap ELSE b + 1 \in Q
                         /\ IF lines = -1 THEN b + 1 <= len + Closed(cb)
                            ELSE Count(Q, b) + 1 = lines + Closed(cb)
    <3> HIDE DEF bytesFrom
    <3> QED
      BY <2>5, <2>6, <2>7
  <2>9. b \in back <=> /\ IF b = R THEN ~cb.got_wrap ELSE b + 1 \in Q
                       /\ IF lines = -1 THEN b + 1 <= len + Closed(cb)
                          ELSE Count(Q, b) + 1 = lines + Closed(cb)
    BY DEF BackSet
  <2> HIDE DEF chosen, back
  <2>10. b \in back <=> p \in chosen
    BY <2>8, <2>9, Zenon
  <2> QED
    BY <2>1, <2>10 DEF p
<1>7. set = back
  <2>1. \A p \in chosen : p \in 1..R
    BY <1>2
  <2>2. \A b \in back : b \in 1..R
    BY Zenon DEF BackSet
  <2>3. \A p \in 1..R : /\ bytesFrom(p) \in 1..R
                        /\ R - bytesFrom(p) + 1 = p
    BY <1>2
  <2>4. \A b : b \in set <=> \E p \in chosen : b = bytesFrom(p)
    BY Zenon
  <2>5. \A b \in 1..R : bytesFrom(R - b + 1) = b /\ (b \in back <=> R - b + 1 \in chosen)
    BY <1>6, Zenon
  <2> HIDE DEF set, back, chosen, bytesFrom
  <2>6. ASSUME NEW p \in chosen PROVE bytesFrom(p) \in back
    <3>1. p \in 1..R /\ bytesFrom(p) \in 1..R /\ R - bytesFrom(p) + 1 = p
      BY <2>1, <2>3, Zenon
    <3> QED
      BY <2>5, <3>1, Zenon
  <2>7. ASSUME NEW b \in back PROVE R - b + 1 \in chosen /\ b = bytesFrom(R - b + 1)
    BY <2>2, <2>5, Zenon
  <2>8. \A b : b \in set <=> b \in back
    BY <2>4, <2>6, <2>7, Zenon
  <2> QED
    BY <2>8, Zenon
<1> HIDE DEF set, back
<1>8. Log!LastLines(r, len, lines) = Log!Largest(back)
  BY <1>1, <1>7
<1> QED
  BY <1>8, Zenon DEF r, R, Q, back

\* What the loop back leaves to choose, when it counts bytes and when it counts newlines.
BytesChosen(Q, R, new, n, t, lines, stops) ==
  LET set == BackSet(Q, R, new, n, t, lines)
  IN  /\ new /\ stops = {} => Log!Largest(set) = R
      /\ ~(new /\ stops = {}) =>
           Log!Largest(set) = Larger(0, Largest(Upto(Q, Visited(R, stops))) - 1)
LinesChosen(Q, R, new, n, t, lines, stops) ==
  LET set == BackSet(Q, R, new, n, t, lines)
  IN  /\ stops = {} => /\ Visited(R, stops) = R /\ Count(Q, R) < t
                       /\ new /\ Count(Q, R) + 1 = t => Log!Largest(set) = R
                       /\ ~(new /\ Count(Q, R) + 1 = t) => Log!Largest(set) = 0
      /\ stops # {} => \E e \in Q : /\ Visited(R, stops) = e /\ Count(Q, e) = t
                                    /\ t <= Count(Q, R) /\ Largest(Upto(Q, e)) = e
                                    /\ Log!Largest(set) = Larger(0, e - 1)

LEMMA BackBytes ==
  ASSUME NEW R \in Nat, R # 0, NEW Q, Q \subseteq 1..R, NEW new, NEW n \in Nat, 1 <= n,
         NEW t, NEW lines, lines = -1
  PROVE  BytesChosen(Q, R, new, n, t, lines, Stops(Q, R, n, t, lines))
<1> DEFINE stops == Stops(Q, R, n, t, lines)
           end == Visited(R, stops)
           set == BackSet(Q, R, new, n, t, lines)
<1>1. /\ end = Smaller(n, R)
      /\ \A k \in Q : k \in Upto(Q, end) <=> k <= n
      /\ stops = {} <=> R < n
  <2>1. ByteStop(Q, R, n, stops)
    BY StopAtByte, Zenon
  <2>2. end = Smaller(n, R)
    BY <2>1, Zenon DEF ByteStop
  <2> HIDE DEF end
  <2> QED
    BY <2>1, <2>2, Zenon DEF ByteStop
<1>2. \A b : b \in set <=> /\ b \in 1..R /\ b + 1 <= n
                           /\ (b = R => new) /\ (b # R => b + 1 \in Q)
  BY Zenon DEF BackSet
<1> HIDE DEF stops, end, set
<1>3. ASSUME new, stops = {} PROVE Log!Largest(set) = R
  <2>1. R \in 1..R /\ R + 1 <= n /\ \A b \in 1..R : b <= R
    BY <1>1, <1>3
  <2>2. R \in set /\ \A b \in set : b <= R
    BY <1>2, <1>3, <2>1, Zenon
  <2>3. 1..R \subseteq Nat
    OBVIOUS
  <2>4. set \subseteq Nat
    BY <1>2, <2>3, Zenon
  <2> QED
    BY <2>2, <2>4, LargestOf, Zenon
<1>4. ASSUME ~(new /\ stops = {})
      PROVE  Log!Largest(set) = Larger(0, Largest(Upto(Q, end)) - 1)
  <2>1. \A b \in Nat : b \in set <=> b >= 1 /\ b + 1 \in Upto(Q, end)
    <3> SUFFICES ASSUME NEW b \in Nat PROVE b \in set <=> b >= 1 /\ b + 1 \in Upto(Q, end)
      OBVIOUS
    <3>1. ASSUME b \in set PROVE b >= 1 /\ b + 1 \in Upto(Q, end)
      <4>1. b \in 1..R /\ b + 1 <= n /\ (b = R => new) /\ (b # R => b + 1 \in Q)
        BY <1>2, <3>1, Zenon
      <4>2. b # R
        <5> SUFFICES ASSUME b = R PROVE FALSE
          OBVIOUS
        <5>1. R < n
          BY <4>1
        <5>2. stops = {} /\ new
          BY <1>1, <4>1, <5>1, Zenon
        <5> QED
          BY <1>4, <5>2, Zenon
      <4>3. b + 1 \in Q /\ b >= 1
        BY <4>1, <4>2
      <4> QED
        BY <1>1, <4>1, <4>3, Zenon
    <3>2. ASSUME b >= 1, b + 1 \in Upto(Q, end) PROVE b \in set
      <4>1. b + 1 \in Q
        BY <3>2, Zenon DEF Upto
      <4>2. b + 1 <= n
        BY <1>1, <3>2, <4>1, Zenon
      <4>3. b \in 1..R /\ b # R
        BY <3>2, <4>1
      <4> QED
        BY <1>2, <4>1, <4>2, <4>3, Zenon
    <3> QED
      BY <3>1, <3>2, Zenon
  <2>2. set \subseteq Nat
    <3>1. 1..R \subseteq Nat
      OBVIOUS
    <3> QED
      BY <1>2, <3>1, Zenon
  <2>3. end \in Nat
    BY <1>1 DEF Smaller
  <2> QED
    BY <2>1, <2>2, <2>3, BeforeElement, Zenon
<1> QED
  BY <1>3, <1>4, Zenon DEF BytesChosen, stops, end, set

LEMMA BackLines ==
  ASSUME NEW R \in Nat, R # 0, NEW Q, Q \subseteq 1..R, NEW new, NEW n, NEW t \in Nat, 1 <= t,
         NEW lines, lines # -1
  PROVE  LinesChosen(Q, R, new, n, t, lines, Stops(Q, R, n, t, lines))
<1> DEFINE stops == Stops(Q, R, n, t, lines)
           end == Visited(R, stops)
           set == BackSet(Q, R, new, n, t, lines)
<1>1. CountStop(Q, R, t, stops)
  BY StopAtCount, Zenon
<1>2. \A b : b \in set <=> /\ b \in 1..R /\ Count(Q, b) + 1 = t
                           /\ (b = R => new) /\ (b # R => b + 1 \in Q)
  BY Zenon DEF BackSet
<1>3. stops \subseteq Nat
  <2>1. 1..R \subseteq Nat
    OBVIOUS
  <2> QED
    BY <2>1, Zenon DEF Stops
<1> HIDE DEF stops, set
<1>4. set \subseteq 1..R /\ set \subseteq Nat
  <2>1. set \subseteq 1..R
    BY <1>2, Zenon
  <2> QED
    BY <2>1
\* The line before a newline is one more.
<1>5. ASSUME NEW b \in 1..R, b # R, b + 1 \in Q
      PROVE  Count(Q, b + 1) = Count(Q, b) + 1
  <2>1. b \in Nat
    OBVIOUS
  <2>2. Count(Q, b + 1) = Count(Q, b) + (IF b + 1 \in Q THEN 1 ELSE 0)
    BY <2>1, CountNext, Zenon
  <2> QED
    BY <1>5, <2>2, Zenon
<1>6. ASSUME stops = {}
      PROVE  /\ end = R /\ Count(Q, R) < t
             /\ new /\ Count(Q, R) + 1 = t => Log!Largest(set) = R
             /\ ~(new /\ Count(Q, R) + 1 = t) => Log!Largest(set) = 0
  <2>1. end = R
    BY <1>3, <1>6, VisitedIs, Zenon
  <2>2. Count(Q, R) < t /\ \A k \in Q : Count(Q, k) # t
    BY <1>1, <1>6, Zenon DEF CountStop
  <2>3. ASSUME NEW b \in set PROVE b = R /\ new /\ Count(Q, R) + 1 = t
    <3>1. b \in 1..R /\ Count(Q, b) + 1 = t /\ (b = R => new) /\ (b # R => b + 1 \in Q)
      BY <1>2, Zenon
    <3>2. b = R
      BY <1>5, <2>2, <3>1, Zenon
    <3> QED
      BY <3>1, <3>2, Zenon
  <2>4. ASSUME new, Count(Q, R) + 1 = t PROVE Log!Largest(set) = R
    <3>1. R \in 1..R /\ R <= R
      OBVIOUS
    <3>2. R \in set /\ \A b \in set : b <= R
      BY <1>2, <2>3, <2>4, <3>1, Zenon
    <3> QED
      BY <1>4, <3>2, LargestOf, Zenon
  <2>5. ASSUME ~(new /\ Count(Q, R) + 1 = t) PROVE Log!Largest(set) = 0
    <3>1. set = {}
      BY <2>3, <2>5, Zenon
    <3> QED
      BY <1>4, <3>1, LargestOf, Zenon
  <2> QED
    BY <2>1, <2>2, <2>4, <2>5, Zenon
<1>7. ASSUME stops # {}
      PROVE  \E e \in Q : /\ end = e /\ Count(Q, e) = t /\ t <= Count(Q, R)
                          /\ Largest(Upto(Q, e)) = e /\ Log!Largest(set) = Larger(0, e - 1)
  <2>1. PICK e \in Q : /\ end = e /\ Count(Q, e) = t /\ t <= Count(Q, R)
                       /\ \A k \in Q : Count(Q, k) = t <=> k = e
    BY <1>1, <1>7, Zenon DEF CountStop
  <2>2. e \in Nat /\ e \in 1..R /\ e <= e
    OBVIOUS
  <2>3. Largest(Upto(Q, e)) = e
    <3>1. Q \subseteq Nat
      OBVIOUS
    <3>2. Upto(Q, e) \subseteq Nat /\ e \in Upto(Q, e) /\ \A k \in Upto(Q, e) : k <= e
      BY <2>2, <3>1, Zenon DEF Upto
    <3> QED
      BY <2>2, <3>2, LargestOf, Zenon
  <2>4. Count(Q, R) \in Nat
    <3>1. R \in Int
      OBVIOUS
    <3> QED
      BY <3>1, CountIs, Zenon
  <2>5. \A b \in Nat : b \in set <=> b >= 1 /\ b + 1 = e
    <3> SUFFICES ASSUME NEW b \in Nat PROVE b \in set <=> b >= 1 /\ b + 1 = e
      OBVIOUS
    <3>1. ASSUME b \in set PROVE b >= 1 /\ b + 1 = e
      <4>1. b \in 1..R /\ Count(Q, b) + 1 = t /\ (b # R => b + 1 \in Q)
        BY <1>2, <3>1, Zenon
      <4>2. b # R
        <5> SUFFICES ASSUME b = R PROVE FALSE
          OBVIOUS
        <5>1. Count(Q, R) + 1 = t
          BY <4>1, Zenon
        <5> QED
          BY <2>1, <2>4, <5>1
      <4>3. b + 1 = e
        BY <1>5, <2>1, <4>1, <4>2, Zenon
      <4> QED
        BY <4>1, <4>3
    <3>2. ASSUME b >= 1, b + 1 = e PROVE b \in set
      <4>1. b \in 1..R /\ b # R /\ b + 1 \in Q
        BY <2>2, <3>2
      <4>2. Count(Q, b) + 1 = t
        BY <1>5, <2>1, <3>2, <4>1, Zenon
      <4> QED
        BY <1>2, <4>1, <4>2, Zenon
    <3> QED
      BY <3>1, <3>2, Zenon
  <2>6. Log!Largest(set) = Larger(0, e - 1)
    <3>1. CASE e = 1
      <4>1. \A b \in Nat : ~(b >= 1 /\ b + 1 = e)
        BY <3>1
      <4>2. set = {}
        BY <1>4, <2>5, <4>1, Zenon
      <4>3. Log!Largest(set) = 0
        BY <4>2, LargestOf, Zenon
      <4> QED
        BY <3>1, <4>3 DEF Larger
    <3>2. CASE e # 1
      <4>1. e - 1 \in Nat /\ e - 1 >= 1 /\ (e - 1) + 1 = e /\ Larger(0, e - 1) = e - 1
        BY <2>2, <3>2 DEF Larger
      <4>2. \A b \in Nat : b + 1 = e => b <= e - 1
        BY <2>2
      <4>3. e - 1 \in set /\ \A b \in set : b <= e - 1
        BY <1>4, <2>5, <4>1, <4>2, Zenon
      <4>4. Log!Largest(set) = e - 1
        BY <1>4, <4>3, LargestOf, Zenon
      <4> QED
        BY <4>1, <4>4
    <3> QED
      BY <3>1, <3>2
  <2> QED
    BY <2>1, <2>3, <2>6, Zenon
<1> QED
  BY <1>6, <1>7, Zenon DEF LinesChosen, stops, end, set

\* The search back finds the lines that LastLines defines.
LEMMA Backward ==
  ASSUME Valid(cb), NEW len \in Nat, NEW lines \in Int, lines = -1 \/ lines >= 1
  PROVE  FindReplay(cb, len, lines).m = Log!LastLines(Replay(cb), len, lines)
<1> DEFINE R == Reused(cb)
           Q == BackNLs(cb)
           cl == Closed(cb)
           stops == Stops(Q, R, len + cl, lines + cl, lines)
           end == Visited(R, stops)
           new == ~cb.got_wrap
           set == BackSet(Q, R, new, len + cl, lines + cl, lines)
           m == FindReplay(cb, len, lines).m
           found == BackFound(cb, len, lines)
           none == NoneBack(cb, len, lines)
           whole == new /\ stops = {}
<1>1. R \in Nat /\ Q \subseteq 1..R /\ Len(Replay(cb)) = R
  BY ReplayBack, Zenon DEF BackNLs
<1>2. cl \in {0, 1}
  BY DEF Closed
<1>3. CASE R = 0
  <2>1. m = 0
    <3>1. FindReplay(cb, len, lines) = Nothing
      BY <1>3, NoReplay, Zenon
    <3> QED
      BY <3>1 DEF Nothing
  <2>2. Log!LastLines(Replay(cb), len, lines) = 0
    <3> DEFINE r == Replay(cb)
               open == IF r # <<>> /\ r[Len(r)] # NL THEN 1 ELSE 0
               starts == {p \in 1..Len(r) : IF p = 1 THEN ~cb.got_wrap ELSE r[p - 1] = NL}
               linesFrom(p) == Cardinality({i \in Log!NLs(r) : i >= p}) + open
               bytesFrom(p) == Len(r) - p + 1
               chosen == {q \in starts : IF lines = -1 THEN bytesFrom(q) + open <= len
                                         ELSE linesFrom(q) = lines}
               all == {bytesFrom(p) : p \in chosen}
    <3>1. Log!LastLines(r, len, lines) = Log!Largest(all)
      BY LogCard, Zenon DEF Log!LastLines
    <3>2. 1..Len(r) = {}
      BY <1>1, <1>3
    <3>3. all = {}
      <4>1. \A p : p \notin chosen
        BY <3>2, Zenon
      <4> HIDE DEF chosen, bytesFrom
      <4> QED
        BY <4>1, Zenon
    <3> HIDE DEF all
    <3>4. Log!Largest(all) = 0
      BY <3>3, LargestOf, Zenon
    <3> QED
      BY <3>1, <3>4
  <2> QED
    BY <2>1, <2>2
<1>4. CASE R # 0
  <2>1. Log!LastLines(Replay(cb), len, lines) = Log!Largest(set)
    BY <1>4, LastLinesIs, Zenon
  <2>2. /\ none => m = 0
        /\ ~none /\ whole => m = R
        /\ ~none /\ ~whole => m = Larger(0, Largest(Upto(Q, end)) - 1)
    <3>1. len \in Int
      OBVIOUS
    <3>2. whole <=> BackWhole(cb, len, lines)
      BY Zenon DEF BackWhole, WholeStart, BackStops
    <3>3. end = BackEnd(cb, len, lines)
      BY Zenon DEF BackEnd, BackStops
    <3> HIDE DEF whole, none, end
    <3> QED
      BY <1>4, <3>1, <3>2, <3>3, FindReplaySet, Zenon DEF none
  <2>3. none <=> lines = 0 \/ (lines = -1 /\ len <= 0) \/ found < lines
    BY Zenon DEF NoneBack
  <2>4. found = (Count(Q, end) + (IF whole THEN 1 ELSE 0)) - cl
    BY Zenon DEF BackFound, BackEnd, BackWhole, WholeStart, BackStops
  <2>5. end \in Nat /\ Count(Q, end) \in Nat /\ Count(Q, R) \in Nat
    <3>1. end \in 1..R
      <4>1. Stops(Q, R, len + cl, lines + cl, lines) \subseteq 1..R
        BY Zenon DEF Stops
      <4>2. R \in 1..R
        BY <1>1, <1>4
      <4>3. stops # {} => \E k \in stops : \A n \in stops : k <= n
        <5>1. stops \subseteq Nat
          <6>1. 1..R \subseteq Nat
            BY <1>1
          <6> QED
            BY <4>1, <6>1, Zenon
        <5> HIDE DEF stops
        <5> QED
          BY <5>1, LeastIs, Zenon
      <4> HIDE DEF stops
      <4> QED
        BY <4>1, <4>2, <4>3, Zenon DEF Visited, stops
    <3>2. end \in Int /\ R \in Int /\ end \in Nat
      BY <1>1, <3>1
    <3> QED
      BY <1>1, <3>2, CountIs, Zenon
  <2> HIDE DEF R, Q, cl, stops, end, set, m, found, none
  <2>6. CASE lines = -1 /\ len = 0
    <3>1. none
      BY <2>3, <2>6
    <3>2. \A b \in 1..R : ~(b + 1 <= len + cl)
      BY <1>2, <2>6
    <3>3. set = {}
      <4>1. \A b \in set : b \in 1..R /\ b + 1 <= len + cl
        BY <2>6, Zenon DEF set, BackSet
      <4> QED
        BY <3>2, <4>1, Zenon
    <3>4. Log!Largest(set) = 0
      BY <3>3, LargestOf, Zenon
    <3> QED
      BY <2>1, <2>2, <3>1, <3>4, Zenon DEF m
  <2>7. CASE lines = -1 /\ len # 0
    <3>1. len + cl \in Nat /\ 1 <= len + cl
      BY <1>2, <2>7
    <3>2. ~none
      <4>1. ~(lines = 0) /\ ~(len <= 0)
        BY <2>7
      <4>2. ~(found < lines)
        <5>1. CASE whole
          <6>1. found = (Count(Q, end) + 1) - cl
            BY <2>4, <5>1, Zenon
          <6> QED
            BY <1>2, <2>5, <2>7, <6>1
        <5>2. CASE ~whole
          <6>1. found = (Count(Q, end) + 0) - cl
            BY <2>4, <5>2, Zenon
          <6> QED
            BY <1>2, <2>5, <2>7, <6>1
        <5> QED
          BY <5>1, <5>2
      <4> QED
        BY <2>3, <4>1, <4>2, Zenon
    <3>3. BytesChosen(Q, R, new, len + cl, lines + cl, lines, stops)
      BY <1>1, <1>4, <2>7, <3>1, BackBytes, Zenon DEF stops
    <3>4. /\ whole => Log!Largest(set) = R
          /\ ~whole => Log!Largest(set) = Larger(0, Largest(Upto(Q, end)) - 1)
      BY <3>3, Zenon DEF BytesChosen, set, end
    <3> QED
      BY <2>1, <2>2, <3>2, <3>4, Zenon DEF m
  <2>8. CASE lines # -1
    <3> DEFINE t == lines + cl
    <3>1. t \in Nat /\ 1 <= t /\ lines = t - cl /\ lines # 0 /\ lines # -1
      BY <1>2, <2>8
    <3>2. LinesChosen(Q, R, new, len + cl, t, lines, stops)
      BY <1>1, <1>4, <3>1, BackLines, Zenon DEF stops
    <3> HIDE DEF t
    <3>3. CASE stops = {}
      <4>1. /\ end = R /\ Count(Q, R) < t
            /\ new /\ Count(Q, R) + 1 = t => Log!Largest(set) = R
            /\ ~(new /\ Count(Q, R) + 1 = t) => Log!Largest(set) = 0
        BY <3>2, <3>3, Zenon DEF LinesChosen, set, end, t
      <4>2. CASE new
        <5>1. whole /\ found = (Count(Q, R) + 1) - cl
          BY <2>4, <3>3, <4>1, <4>2, Zenon
        <5>2. found < lines <=> ~(Count(Q, R) + 1 = t)
          BY <1>2, <2>5, <3>1, <4>1, <5>1
        <5> QED
          BY <2>1, <2>2, <2>3, <3>1, <4>1, <4>2, <5>1, <5>2, Zenon DEF m
      <4>3. CASE ~new
        <5>1. found = (Count(Q, R) + 0) - cl
          BY <2>4, <4>1, <4>3, Zenon
        <5>2. found < lines
          BY <1>2, <2>5, <3>1, <4>1, <5>1
        <5> QED
          BY <2>1, <2>2, <2>3, <4>1, <4>3, <5>2, Zenon DEF m
      <4> QED
        BY <4>2, <4>3
    <3>4. CASE stops # {}
      <4>1. PICK e \in Q : /\ end = e /\ Count(Q, e) = t /\ Largest(Upto(Q, e)) = e
                           /\ Log!Largest(set) = Larger(0, e - 1)
        BY <3>2, <3>4, Zenon DEF LinesChosen, set, end, t
      <4>2. ~whole
        BY <3>4, Zenon
      <4>3. found = (t + 0) - cl
        BY <2>4, <4>1, <4>2, Zenon
      <4>4. ~(found < lines)
        BY <1>2, <3>1, <4>3
      <4>5. ~none
        BY <2>3, <3>1, <4>4, Zenon
      <4> QED
        BY <2>1, <2>2, <4>1, <4>2, <4>5, Zenon DEF m
    <3> QED
      BY <3>3, <3>4
  <2> QED
    BY <2>6, <2>7, <2>8
<1> QED
  BY <1>3, <1>4

\* Every line that cbuf_lines_reused counts can be rewound.
LEMMA CountedBack ==
  ASSUME NEW c, Valid(c), NEW lines \in Int, lines \in 1..LinesReused(c)
  PROVE  FindReplay(c, 0, lines).m > 0
<1> DEFINE R == Reused(c)
           Q == BackNLs(c)
           cl == Closed(c)
           new == ~c.got_wrap
           far == Stops(Q, R, c.size + cl, -1 + cl, -1)
           t == lines + cl
           stops == Stops(Q, R, 0 + cl, t, lines)
           end == Visited(R, stops)
           m == FindReplay(c, 0, lines).m
<1>1. R \in Nat /\ Q \subseteq 1..R /\ R <= c.size /\ c.size \in Nat /\ 1 <= c.size
  <2>1. R \in Nat /\ Q \subseteq 1..R
    BY ReplayBack, Zenon DEF BackNLs
  <2> QED
    BY <2>1, HeldIs
<1>2. cl \in {0, 1}
  BY DEF Closed
<1>3. R # 0
  <2> SUFFICES ASSUME R = 0 PROVE FALSE
    OBVIOUS
  <2>1. FindReplay(c, c.size, -1) = Nothing
    BY NoReplay, Zenon
  <2>2. LinesReused(c) = 0
    BY <2>1 DEF LinesReused, Nothing
  <2> QED
    BY <2>2
<1>4. Count(Q, R) \in Nat
  <2>1. R \in Int
    BY <1>1
  <2> QED
    BY <1>1, <2>1, CountIs, Zenon
<1>5. t <= Count(Q, R) \/ (new /\ t <= Count(Q, R) + 1)
  <2>1. far = {} <=> R < c.size + cl
    <3>1. c.size + cl \in Nat /\ 1 <= c.size + cl
      BY <1>1, <1>2
    <3>2. ByteStop(Q, R, c.size + cl, far)
      BY <1>1, <3>1, StopAtByte, Zenon
    <3> QED
      BY <3>2, Zenon DEF ByteStop
  <2>2. Visited(R, far) = R
    <3>1. c.size + cl \in Nat /\ 1 <= c.size + cl
      BY <1>1, <1>2
    <3>2. ByteStop(Q, R, c.size + cl, far)
      BY <1>1, <3>1, StopAtByte, Zenon
    <3>3. Visited(R, far) = Smaller(c.size + cl, R)
      BY <3>2, Zenon DEF ByteStop
    <3> HIDE DEF R, cl
    <3>4. Smaller(c.size + cl, R) = R
      BY <1>1, <1>2 DEF Smaller
    <3> QED
      BY <3>3, <3>4
  <2>3. LinesReused(c) = 0 \/ LinesReused(c) = BackFound(c, c.size, -1)
    <3>1. c.size \in Int /\ -1 \in Int
      BY <1>1
    <3> QED
      BY <1>3, <3>1, FindReplaySet, Zenon DEF LinesReused
  <2>4. BackFound(c, c.size, -1) = (Count(Q, R) + (IF new /\ far = {} THEN 1 ELSE 0)) - cl
    BY <2>2, Zenon DEF BackFound, BackEnd, BackWhole, WholeStart, BackStops
  <2> HIDE DEF R, Q, cl, new, far
  <2>5. CASE new /\ far = {}
    <3>1. BackFound(c, c.size, -1) = (Count(Q, R) + 1) - cl
      BY <2>4, <2>5, Zenon
    <3> QED
      BY <1>2, <1>4, <2>3, <2>5, <3>1
  <2>6. CASE ~(new /\ far = {})
    <3>1. BackFound(c, c.size, -1) = (Count(Q, R) + 0) - cl
      BY <2>4, <2>6, Zenon
    <3> QED
      BY <1>2, <1>4, <2>3, <3>1
  <2> QED
    BY <2>5, <2>6
<1>6. t \in Nat /\ 1 <= t /\ lines = t - cl /\ lines # 0 /\ lines # -1 /\ lines >= 1
  BY <1>2
<1>7. LinesChosen(Q, R, new, 0 + cl, t, lines, stops)
  BY <1>1, <1>3, <1>6, BackLines, Zenon
<1>8. /\ ~NoneBack(c, 0, lines) /\ new /\ stops = {} => m = R
      /\ ~NoneBack(c, 0, lines) /\ stops # {} => m = Larger(0, Largest(Upto(Q, end)) - 1)
  <2>1. (new /\ stops = {} <=> BackWhole(c, 0, lines)) /\ end = BackEnd(c, 0, lines)
    BY Zenon DEF BackWhole, WholeStart, BackStops, BackEnd
  <2>2. 0 \in Int
    OBVIOUS
  <2> HIDE DEF end, stops
  <2> QED
    BY <1>3, <2>1, <2>2, FindReplaySet, Zenon
<1>9. BackFound(c, 0, lines) = (Count(Q, end) + (IF new /\ stops = {} THEN 1 ELSE 0)) - cl
  BY Zenon DEF BackFound, BackEnd, BackWhole, WholeStart, BackStops
<1>10. NoneBack(c, 0, lines) <=> BackFound(c, 0, lines) < lines
  BY <1>6, Zenon DEF NoneBack
<1> HIDE DEF R, Q, cl, new, far, t, stops, end, m
<1>11. CASE stops = {}
  <2>1. end = R /\ Count(Q, R) < t
    BY <1>7, <1>11, Zenon DEF LinesChosen, end
  <2>2. new /\ Count(Q, R) + 1 = t
    BY <1>4, <1>5, <1>6, <2>1
  <2>3. BackFound(c, 0, lines) = (Count(Q, R) + 1) - cl
    BY <1>9, <1>11, <2>1, <2>2, Zenon
  <2>4. ~NoneBack(c, 0, lines)
    <3>1. ~(BackFound(c, 0, lines) < lines)
      BY <1>2, <1>4, <1>6, <2>2, <2>3
    <3> QED
      BY <1>10, <3>1, Zenon
  <2>5. m = R
    BY <1>8, <1>11, <2>2, <2>4, Zenon
  <2> QED
    BY <1>1, <1>3, <2>5 DEF m
<1>12. CASE stops # {}
  <2>1. PICK e \in Q : end = e /\ Count(Q, e) = t /\ Largest(Upto(Q, e)) = e
    BY <1>7, <1>12, Zenon DEF LinesChosen, end
  <2>2. BackFound(c, 0, lines) = (t + 0) - cl
    BY <1>9, <1>12, <2>1, Zenon
  <2>3. ~NoneBack(c, 0, lines)
    <3>1. ~(BackFound(c, 0, lines) < lines)
      BY <1>2, <1>6, <2>2
    <3> QED
      BY <1>10, <3>1, Zenon
  <2>4. m = Larger(0, e - 1)
    BY <1>8, <1>12, <2>1, <2>3, Zenon
  <2>5. e # 1
    <3> SUFFICES ASSUME e = 1 PROVE FALSE
      OBVIOUS
    <3>1. Count(Q, 0) = 0 /\ Count(Q, 0 + 1) = Count(Q, 0) + (IF 0 + 1 \in Q THEN 1 ELSE 0)
      <4>1. 0 \in Nat
        OBVIOUS
      <4> QED
        BY <1>1, <4>1, CountNone, CountNext, Zenon
    <3>2. Count(Q, 1) = 1
      BY <3>1
    <3>3. cl = 1
      BY <2>1 DEF cl, Closed, Q
    <3> QED
      BY <1>6, <2>1, <3>2, <3>3
  <2>6. e \in Nat /\ e > 1
    BY <1>1, <2>5
  <2>7. m > 0
    BY <2>4, <2>6 DEF Larger
  <2> QED
    BY <2>7 DEF m
<1> QED
  BY <1>11, <1>12

-----------------------------------------------------------------------------
\* The loop over the unread bytes finds the lines that FirstLines defines.
THEOREM LinesForward == Spec => []ForwardLines
<1>1. Init => IndInv
  BY CreatedValid DEF Init, IndInv
<1>2. IndInv => ForwardLines
  <2> SUFFICES ASSUME Valid(cb) PROVE ForwardLines
    BY DEF IndInv
  <2>1. LinesUsed(cb) = Cardinality(Log!NLs(Unread(cb)))
    BY AllForward, Zenon
  <2>2. ASSUME NEW len \in 0..MaxSize + 2, NEW lines \in {-1} \cup 1..MaxSize + 1
        PROVE  FindUnread(cb, len, lines).m = Log!FirstLines(Unread(cb), len, lines)
    <3>1. len \in Nat /\ lines \in Int /\ (lines = -1 \/ lines >= 1)
      BY CbufAssumption
    <3> QED
      BY <3>1, Forward, Zenon
  <2> QED
    BY <2>1, <2>2, Zenon DEF ForwardLines
<1> QED
  BY <1>1, <1>2, NextKeeps, PTL DEF Spec

\* The loop back over the replay bytes finds the lines that LastLines defines, and every
\* line cbuf_lines_reused counts can be rewound.
THEOREM LinesBackward == Spec => []BackwardLines
<1>1. Init => IndInv
  BY CreatedValid DEF Init, IndInv
<1>2. IndInv => BackwardLines
  <2> SUFFICES ASSUME Valid(cb), NEW len \in 0..MaxSize + 2,
                      NEW lines \in {-1} \cup 1..MaxSize + 1
               PROVE  /\ FindReplay(cb, len, lines).m = Log!LastLines(Replay(cb), len, lines)
                      /\ lines \in 1..LinesReused(cb) => FindReplay(cb, 0, lines).m > 0
    BY Zenon DEF IndInv, BackwardLines
  <2>1. len \in Nat /\ lines \in Int /\ (lines = -1 \/ lines >= 1)
    BY CbufAssumption
  <2> QED
    BY <2>1, Backward, CountedBack, Zenon
<1> QED
  BY <1>1, <1>2, NextKeeps, PTL DEF Spec
=============================================================================
