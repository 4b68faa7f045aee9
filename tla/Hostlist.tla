------------------------------ MODULE Hostlist ------------------------------
(***************************************************************************)
(* The host list of src/src/common/hostlist.c: an array of ranges of host  *)
(* names that share a prefix and a format width, a count of hosts, and an  *)
(* iterator, in the operations pdsh uses.                                  *)
(*                                                                         *)
(* A name is a stem that does not end in a digit, and the digits after it, *)
(* as their value and how many there are; tail is what follows a bracket   *)
(* in the middle of a name.  The prefix of a range is a name as well, and  *)
(* may end in digits: f0[1-2].  A string of hosts is a sequence of tokens, *)
(* a token with no ranges being one host.  Each operation holds the list's *)
(* mutex.  The array, which is enlarged as needed, is a sequence, and      *)
(* strcmp an order on names.  Positions in the array count from 1.         *)
(***************************************************************************)
EXTENDS Integers, SequencesExt

CONSTANTS
  Base,       \* 10, of the decimal numbers in names
  Rank,       \* of stems: how strcmp orders them
  Tails,      \* what may follow a bracket; "" when nothing does
  Inputs,     \* the token sequences that callers pass in
  MaxRange,   \* MAX_RANGE: the hosts one range in brackets may have
  MaxRanges,  \* MAX_RANGES: the ranges in one pair of brackets
  MaxSuffix,  \* MAX_HOST_SUFFIX: a larger number is none, but part of the prefix
  MaxHosts    \* bound: no more is pushed on a longer list

Power[n \in Nat] == IF n = 0 THEN 1 ELSE Base * Power[n - 1]

\* The digits of a name as their value and how many there are.
HostNames == {name \in [stem : DOMAIN Rank, val : Nat, len : Nat, tail : Tails] : 
                name.val < Power[name.len]}
Ranges == [prefix : HostNames, lo : Nat, hi : Nat, width : Nat, singlehost : BOOLEAN]
Groups == [lo : Nat, hi : Nat, width : Nat]
Tokens == [prefix : HostNames, ranges : Seq(Groups), tail : Tails]
NoTail(name) == name.tail = ""

ASSUME HostlistAssumption ==
  /\ Base \in Nat \ {0, 1} /\ MaxRange \in Nat /\ MaxRanges \in Nat
  /\ MaxSuffix \in Nat /\ MaxHosts \in Nat
  /\ \A stem \in DOMAIN Rank : Rank[stem] \in Int
  /\ \A tokens \in Inputs : 
       /\ tokens \in Seq(Tokens)
       /\ \A k \in DOMAIN tokens : tokens[k].ranges # <<>> => NoTail(tokens[k].prefix)
ASSUME TailsAssumption == "" \in Tails

VARIABLES
  hr,       \* hl->hr: the ranges
  nhosts,   \* hl->nhosts
  it,       \* the iterator: whether there is one, its idx and depth
  ret       \* the name the last operation returned, in a sequence; NULL is <<>>
vars == <<hr, nhosts, it, ret>>

NoIterator == [on |-> FALSE, idx |-> 1, depth |-> -1]

----------------------------------------------------------------------------
\* Names and ranges.
NumDigits(n) == CHOOSE d \in 1..n + 1 : n < Power[d] /\ (d = 1 \/ Power[d - 1] <= n)
ZeroPadded(n, width) == LET d == NumDigits(n) IN IF width > d THEN width - d ELSE 0

\* The name that snprintf makes of a prefix and a number.
Format(prefix, n, width) == LET len == NumDigits(n) + ZeroPadded(n, width) IN
  [prefix EXCEPT !.val = @ * Power[len] + n, !.len = @ + len]

Single(name) == [prefix |-> name, lo |-> 0, hi |-> 0, width |-> 0, singlehost |-> TRUE]
NewRange(prefix, lo, hi, width) == 
  [prefix |-> prefix, lo |-> lo, hi |-> hi, width |-> width, singlehost |-> FALSE]

HasSuffix(name) == name.len > 0 /\ NoTail(name) /\ name.val <= MaxSuffix
\* hostname_create: all the digits at the end are the number, unless it is too large.
HostRange(name) ==
  IF HasSuffix(name) 
  THEN NewRange([name EXCEPT !.val = 0, !.len = 0], name.val, name.val, name.len)
  ELSE Single(name)

Count(r) == IF r.singlehost THEN 1 ELSE r.hi - r.lo + 1
Empty(r) == r.hi < r.lo
NameAt(r, depth) == IF r.singlehost THEN r.prefix ELSE Format(r.prefix, r.lo + depth, r.width)

SamePrefix(r, s) == r.prefix = s.prefix /\ r.singlehost = s.singlehost

\* One of the two widths will do for both numbers.
WidthEquiv(n, wn, m, wm) == 
  \/ ZeroPadded(n, wn) = ZeroPadded(n, wm)
  \/ ZeroPadded(m, wm) = ZeroPadded(m, wn)
Combine(r, s) == WidthEquiv(r.lo, r.width, s.lo, s.width)
CommonWidth(r, s) == 
  IF ZeroPadded(r.lo, r.width) = ZeroPadded(r.lo, s.width) THEN s.width ELSE r.width

Joined(r, s, hi) == [r EXCEPT !.hi = hi, !.width = CommonWidth(r, s)]

----------------------------------------------------------------------------
\* Lists: the ranges and the count.
EmptyList == [hr |-> <<>>, nhosts |-> 0]

PushRange(l, r) ==
  [nhosts |-> l.nhosts + Count(r),
   hr |-> IF l.hr # <<>> /\ SamePrefix(Last(l.hr), r) /\ Last(l.hr).hi = r.lo - 1 
             /\ r.lo > 0 /\ Combine(Last(l.hr), r)
          THEN Front(l.hr) \o <<Joined(Last(l.hr), r, r.hi)>>
          ELSE Append(l.hr, r)]
PushAll(l, s) == FoldLeft(PushRange, l, s)

Valid(g) == g.lo <= g.hi /\ g.hi - g.lo + 1 <= MaxRange
ParseOK(tokens) == \A k \in DOMAIN tokens : 
  /\ Len(tokens[k].ranges) <= MaxRanges
  /\ \A j \in DOMAIN tokens[k].ranges : Valid(tokens[k].ranges[j])

\* With a tail after the bracket, each name is a host of its own.
Singles(prefix, tail, g) == 
  [k \in 1..g.hi - g.lo + 1 |-> 
     Single([Format(prefix, g.lo + k - 1, g.width) EXCEPT !.tail = tail])]
PushToken(l, token) ==
  IF token.ranges = <<>> THEN PushRange(l, HostRange(token.prefix))
  ELSE FoldLeft(LAMBDA m, g : IF token.tail = "" 
                              THEN PushRange(m, NewRange(token.prefix, g.lo, g.hi, g.width))
                              ELSE PushAll(m, Singles(token.prefix, token.tail, g)),
                l, token.ranges)
Create(tokens) == FoldLeft(PushToken, EmptyList, tokens)

WithoutLast(r) == IF r.singlehost THEN [r EXCEPT !.lo = @ + 1] ELSE [r EXCEPT !.hi = @ - 1]
WithoutFirst(r) == [r EXCEPT !.lo = @ + 1]

\* The digits of a name after the ones its prefix in the range ends in.
Rest(name, prefix) == name.len - prefix.len
Number(name, prefix) == name.val % Power[Rest(name, prefix)]

Within(r, name) ==
  IF r.singlehost THEN r.prefix = name
  ELSE /\ HasSuffix(name) /\ r.prefix.stem = name.stem 
       /\ Rest(name, r.prefix) > 0
       /\ name.val \div Power[Rest(name, r.prefix)] = r.prefix.val
       /\ Number(name, r.prefix) \in r.lo..r.hi 
       /\ WidthEquiv(r.lo, r.width, Number(name, r.prefix), Rest(name, r.prefix))

InsertRange(s, n, r) == InsertAt(s, n, r)
DeleteRange(s, n) == RemoveAt(s, n)
\* The range at n without the host number k of it: shorter, gone or split.
DeleteHost(s, n, k) == LET r == s[n] IN
  IF k = r.lo /\ r.lo = r.hi THEN DeleteRange(s, n)
  ELSE IF k = r.lo THEN ReplaceAt(s, n, WithoutFirst(r))
  ELSE IF k = r.hi THEN ReplaceAt(s, n, [r EXCEPT !.hi = @ - 1])
  ELSE InsertRange(ReplaceAt(s, n, [r EXCEPT !.hi = k - 1]), n + 1, [r EXCEPT !.lo = k + 1])

DeleteName(l, name) ==
  IF \E n \in DOMAIN l.hr : Within(l.hr[n], name)
  THEN LET n == SelectInSeq(l.hr, LAMBDA r : Within(r, name)) 
           k == IF l.hr[n].singlehost THEN 0 ELSE Number(name, l.hr[n].prefix)
       IN  [nhosts |-> l.nhosts - 1, hr |-> DeleteHost(l.hr, n, k)]
  ELSE l

NamesIn(r) == [k \in 1..Count(r) |-> NameAt(r, k - 1)]
NamesOf(s) == FlattenSeq([k \in DOMAIN s |-> NamesIn(s[k])])

----------------------------------------------------------------------------
\* The order of the ranges in hostlist_uniq, and the join of neighbours.
PrefixBefore(p, q) == 
  \/ Rank[p.stem] < Rank[q.stem]
  \/ p.stem = q.stem /\ (p.len < q.len \/ (p.len = q.len /\ p.val < q.val))
NotAfter(r, s) ==
  \/ PrefixBefore(r.prefix, s.prefix)
  \/ r.prefix = s.prefix /\ r.singlehost /\ ~s.singlehost
  \/ SamePrefix(r, s) /\ (IF Combine(r, s) THEN r.lo <= s.lo ELSE r.width <= s.width)

OverlapsByTwo(r, s) ==     \* mutant: one host in common is not seen
  IF ~SamePrefix(r, s) \/ ~Combine(r, s) THEN -1
  ELSE IF r.singlehost THEN 1
  ELSE IF r.hi = s.lo - 1 THEN 0
  ELSE IF r.hi <= s.lo THEN -1
  ELSE IF r.hi < s.hi THEN r.hi - s.lo + 1 ELSE Count(s)
JoinsAll(r, s) ==      \* mutant: an overlap is not subtracted, the rest is
  IF ~SamePrefix(r, s) \/ ~Combine(r, s) THEN -1
  ELSE IF r.singlehost THEN 1 ELSE IF r.hi < s.lo - 1 THEN -1 ELSE 0
\* How many hosts two ranges in order have in common; -1: they cannot be joined.
Duplicated(r, s) ==
  IF ~SamePrefix(r, s) \/ ~Combine(r, s) THEN -1
  ELSE IF r.singlehost THEN 1
  ELSE IF r.hi = s.lo - 1 THEN 0
  ELSE IF r.hi < s.lo THEN -1
  ELSE IF r.hi < s.hi THEN r.hi - s.lo + 1 ELSE Count(s)

AttemptJoin(l, r) == 
  LET ndup == IF l.hr = <<>> THEN -1 ELSE Duplicated(Last(l.hr), r) IN
  IF ndup < 0 THEN [l EXCEPT !.hr = Append(@, r)]
  ELSE [nhosts |-> l.nhosts - ndup,
        hr |-> Front(l.hr) 
               \o <<Joined(Last(l.hr), r, IF Last(l.hr).hi < r.hi THEN r.hi ELSE Last(l.hr).hi)>>]

Arrangements(s) == 
  {[k \in DOMAIN s |-> s[p[k]]] : 
     p \in {f \in [DOMAIN s -> DOMAIN s] : \A j, k \in DOMAIN s : f[j] = f[k] => j = k}}
Sorted(s) == \A k \in 1..Len(s) - 1 : NotAfter(s[k], s[k + 1])

----------------------------------------------------------------------------
\* hostlist_ranged_string: ranges in a row with one prefix share a bracket, which a
\* host on its own goes without.
WithinRange(r, s) == SamePrefix(r, s) /\ ~r.singlehost
FirstOfBracket(s, k) == k = 1 \/ ~WithinRange(s[k], s[k - 1])
LastInFirst(s, k) == k                     \* mutant: only the first range of a bracket
LastOfBracket(s, k) == CHOOSE n \in k..Len(s) : 
  /\ \A j \in k + 1..n : ~FirstOfBracket(s, j)
  /\ n = Len(s) \/ FirstOfBracket(s, n + 1)
BracketNeeded(s, k) == Count(s[k]) > 1 \/ (k < Len(s) /\ WithinRange(s[k], s[k + 1]))
NumStr(r) == [lo |-> r.lo, hi |-> r.hi, width |-> NumDigits(r.lo) + ZeroPadded(r.lo, r.width)]
Bracketed(s, k) ==
  [prefix |-> IF BracketNeeded(s, k) THEN s[k].prefix ELSE NameAt(s[k], 0),
   ranges |-> IF BracketNeeded(s, k) 
              THEN [j \in 1..LastOfBracket(s, k) - k + 1 |-> NumStr(s[k + j - 1])] ELSE <<>>,
   tail |-> ""]
RangedString(s) == 
  FlattenSeq([k \in DOMAIN s |-> IF FirstOfBracket(s, k) THEN <<Bracketed(s, k)>> ELSE <<>>])

----------------------------------------------------------------------------
Init == hr = <<>> /\ nhosts = 0 /\ it = NoIterator /\ ret = <<>>

Now == [hr |-> hr, nhosts |-> nhosts]
Becomes(l) == hr' = l.hr /\ nhosts' = l.nhosts

\* In pdsh nothing but next and remove is called while an iterator exists.
Alone == ~it.on

\* hostlist_push: the hosts make a list of their own, which is pushed range by range.
Push(tokens) ==
  /\ Alone /\ nhosts < MaxHosts /\ ret' = <<>> /\ UNCHANGED it
  /\ IF ParseOK(tokens) THEN Becomes(PushAll(Now, Create(tokens).hr)) 
                        ELSE UNCHANGED <<hr, nhosts>>

PopHost ==
  /\ Alone /\ nhosts > 0 /\ LET r == Last(hr) IN
       /\ ret' = <<NameAt(r, Count(r) - 1)>>
       /\ hr' = Front(hr) \o IF Empty(WithoutLast(r)) THEN <<>> ELSE <<WithoutLast(r)>>
  /\ nhosts' = nhosts - 1 /\ UNCHANGED it

ShiftHost ==
  /\ Alone /\ nhosts > 0 /\ LET r == hr[1] IN
       /\ ret' = <<NameAt(r, 0)>>
       /\ hr' = (IF Empty(WithoutFirst(r)) THEN <<>> ELSE <<WithoutFirst(r)>>) \o Tail(hr)
  /\ nhosts' = nhosts - 1 /\ UNCHANGED it

\* hostlist_pop and hostlist_shift of an empty list.
NothingThere == Alone /\ nhosts = 0 /\ ret' = <<>> /\ UNCHANGED <<hr, nhosts, it>>

\* hostlist_delete: the hosts are popped off a list of their own.
Delete(tokens) ==
  /\ Alone /\ ret' = <<>> /\ UNCHANGED it
  /\ IF ParseOK(tokens) 
     THEN Becomes(FoldRight(LAMBDA x, l : DeleteName(l, x), NamesOf(Create(tokens).hr), Now))
     ELSE UNCHANGED <<hr, nhosts>>

Uniq ==
  /\ Alone /\ ret' = <<>> /\ UNCHANGED it
  /\ IF Len(hr) <= 1 THEN UNCHANGED <<hr, nhosts>>
     ELSE \E s \in Arrangements(hr) : 
            Sorted(s) /\ Becomes(FoldLeft(AttemptJoin, [hr |-> <<>>, nhosts |-> nhosts], s))

----------------------------------------------------------------------------
\* The iterator.
IteratorCreate ==
  /\ Alone /\ it' = [NoIterator EXCEPT !.on = TRUE] /\ ret' = <<>> /\ UNCHANGED <<hr, nhosts>>
\* After hostlist_next has returned NULL.
IteratorDestroy == 
  /\ it.on /\ it.idx > Len(hr) /\ it' = NoIterator /\ ret' = <<>> /\ UNCHANGED <<hr, nhosts>>

NeverLeaves ==     \* mutant: the index stays
  IF it.idx > Len(hr) THEN it
  ELSE [it EXCEPT !.depth = IF @ + 1 > hr[it.idx].hi - hr[it.idx].lo THEN 0 ELSE @ + 1]
Advanced ==
  IF it.idx > Len(hr) THEN it
  ELSE IF it.depth + 1 > hr[it.idx].hi - hr[it.idx].lo THEN [it EXCEPT !.idx = @ + 1, !.depth = 0]
  ELSE [it EXCEPT !.depth = @ + 1]

IteratorNext ==
  /\ it.on /\ it' = Advanced /\ UNCHANGED <<hr, nhosts>>
  /\ ret' = IF it'.idx > Len(hr) THEN <<>> ELSE <<NameAt(hr[it'.idx], it'.depth)>>

StaysPut(k) ==      \* mutant: the depth is not put back
  IF hr[it.idx].lo = hr[it.idx].hi /\ it.idx = 1 THEN [it EXCEPT !.depth = -1] ELSE it
\* Where the iterator goes when host number k, the last it returned, goes.
StepBack(k) == LET r == hr[it.idx] IN
  IF r.lo = r.hi 
  THEN IF it.idx = 1 THEN [it EXCEPT !.depth = -1] ELSE [it EXCEPT !.idx = @ - 1]
  ELSE IF k \in {r.lo, r.hi} THEN [it EXCEPT !.depth = @ - 1]
  ELSE [it EXCEPT !.idx = @ + 1, !.depth = -1]

\* hostlist_remove, of the host that hostlist_next has returned.
IteratorRemove ==
  /\ it.on /\ ret # <<>> /\ ret' = <<>>
  /\ LET k == hr[it.idx].lo + it.depth IN 
       hr' = DeleteHost(hr, it.idx, k) /\ it' = StepBack(k)
  /\ nhosts' = nhosts - 1

Next ==
  \/ \E tokens \in Inputs : Push(tokens) \/ Delete(tokens)
  \/ PopHost \/ ShiftHost \/ NothingThere \/ Uniq
  \/ IteratorCreate \/ IteratorDestroy \/ IteratorNext \/ IteratorRemove

\* A caller that iterates goes on to the end of the list, and then destroys the iterator.
Fairness == WF_vars(IteratorNext) /\ WF_vars(IteratorDestroy)
Spec == Init /\ [][Next]_vars /\ Fairness

----------------------------------------------------------------------------
TypeOK ==
  /\ hr \in Seq(Ranges) /\ nhosts \in Nat 
  /\ ret \in Seq(HostNames) /\ Len(ret) <= 1
  /\ it.on \in BOOLEAN /\ it.idx \in 1..Len(hr) + 1 /\ it.depth \in -1..nhosts

Hosts == NamesOf(hr)

\* hostlist_count, which sizes the array of threads in dsh() and decides whether there
\* is any target at all, is the number of names that the ranges stand for, whatever
\* was joined, split and dropped on the way; and no range without hosts stays (nor does
\* anything leave its type).
CountKept == TypeOK /\ nhosts = Len(Hosts) /\ \A k \in DOMAIN hr : ~Empty(hr[k])

\* The names behind the iterator.
Behind == 
  IF ~it.on THEN -1 ELSE IF it.idx > Len(hr) THEN Len(Hosts)
  ELSE Len(NamesOf(SubSeq(hr, 1, it.idx - 1))) + it.depth + 1

\* hostlist_delete does not find these names in a range, though brackets put them there:
\* "f[40000000-40000001]" without "f40000000" stays as it is.
TooLarge == {name \in HostNames : name.len > 0 /\ NoTail(name) /\ name.val > MaxSuffix}

\* Through all changes of representation (names parsed into prefix, number and width,
\* ranges joined, split and padded anew) the list is the sequence of names that was
\* put in; a loop that removes some of the hosts sees every other one; and deleting
\* takes every name away whose number is not too large.
Log == INSTANCE HostlistLog WITH 
         Large <- TooLarge,
         Batches <- {NamesOf(Create(tokens).hr) : tokens \in {t \in Inputs : ParseOK(t)}},
         hosts <- Hosts, at <- Behind
IsHostlistLog == Log!Spec

\* A list that is written out in brackets and read again, which is how pdsh keeps the
\* hosts to exclude of "-w -^file", is the same list, unless joins have made a range or
\* a bracket larger than the parser takes.
Readable == \A t \in {RangedString(hr)[k] : k \in DOMAIN RangedString(hr)} : 
  Len(t.ranges) <= MaxRanges /\ \A j \in DOMAIN t.ranges : t.ranges[j].hi - t.ranges[j].lo < MaxRange
ReadsBack == Readable => 
  ParseOK(RangedString(hr)) /\ NamesOf(Create(RangedString(hr)).hr) = Hosts

\* Ranges of one stem are written alike: one prefix, and widths that go together.
Alike(r, s) == r.prefix.stem = s.prefix.stem /\ r.prefix.tail = s.prefix.tail =>
  r.prefix = s.prefix /\ r.singlehost = s.singlehost /\ Combine(r, s)
AllAlike(s) == \A j, k \in DOMAIN s : Alike(s[j], s[k])

NamedOnce(s) == \A j, k \in DOMAIN s : s[j] = s[k] => j = k

\* After hostlist_uniq no two hosts are the same, as long as the hosts with one stem
\* are all written alike.
UniqComplete == [][Uniq /\ AllAlike(hr) => NamedOnce(Hosts')]_vars

\* A loop over the list that removes hosts as it goes comes to its end.
IterationEnds == it.on ~> ~it.on
=============================================================================
