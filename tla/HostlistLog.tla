---------------------------- MODULE HostlistLog ----------------------------
(***************************************************************************)
(* What a host list promises to its callers (src/src/common/hostlist.h): a *)
(* sequence of host names, and an iterator that passes over no host.       *)
(***************************************************************************)
EXTENDS Integers, SequencesExt

CONSTANTS
  Batches,   \* the sequences of names that callers push and delete
  Large      \* the names with a number above MAX_HOST_SUFFIX (hostlist.c:101)

VARIABLES
  hosts,     \* the names, in order
  at,        \* how many of them are behind the iterator; -1: there is none
  ret        \* the name the last operation returned, in a sequence; NULL is <<>>
logVars == <<hosts, at, ret>>

Size == Len(hosts)
Names(s) == {s[k] : k \in DOMAIN s}

Init == hosts = <<>> /\ at = -1 /\ ret = <<>>

Put(b)  == at = -1 /\ hosts' = hosts \o b /\ ret' = <<>> /\ UNCHANGED at
Refuse  == ret' = <<>> /\ UNCHANGED <<hosts, at>>

TakeLast ==
  /\ at = -1 /\ hosts # <<>>
  /\ ret' = <<hosts[Size]>> /\ hosts' = Front(hosts) /\ UNCHANGED at
TakeFirst ==
  /\ at = -1 /\ hosts # <<>>
  /\ ret' = <<hosts[1]>> /\ hosts' = Tail(hosts) /\ UNCHANGED at

\* Each name of the batch, the last of them first, takes one occurrence with it: the
\* first.  hostlist.h:212 says so of every name; with a large one any goes, or none.
WithoutFirst(s, x) == IF Contains(s, x) THEN RemoveAt(s, SelectInSeq(s, LAMBDA y : y = x)) ELSE s
Without(s, x) == 
  IF x \in Large THEN {s} \cup {RemoveAt(s, k) : k \in {j \in DOMAIN s : s[j] = x}}
                 ELSE {WithoutFirst(s, x)}
Drop(b) ==
  /\ at = -1 /\ hosts' \in FoldRight(LAMBDA x, S : UNION {Without(s, x) : s \in S}, b, {hosts})
  /\ ret' = <<>> /\ UNCHANGED at

Times(s, x) == Cardinality({k \in DOMAIN s : s[k] = x})
\* Sorting keeps every name, and puts none there more often than it was.
Uniquify ==
  /\ at = -1 /\ Names(hosts') = Names(hosts) /\ Len(hosts') <= Size
  /\ \A x \in Names(hosts) : Times(hosts', x) <= Times(hosts, x)
  /\ ret' = <<>> /\ UNCHANGED at

Start  == at = -1 /\ at' = 0 /\ ret' = <<>> /\ UNCHANGED hosts
Rewind == at >= 0 /\ at' = 0 /\ ret' = <<>> /\ UNCHANGED hosts
Finish == at >= 0 /\ at' = -1 /\ ret' = <<>> /\ UNCHANGED hosts

Advance ==
  /\ at >= 0 /\ UNCHANGED hosts
  /\ IF at < Size THEN at' = at + 1 /\ ret' = <<hosts[at + 1]>>
                  ELSE at' = at /\ ret' = <<>>

\* The host behind the iterator goes.  The iterator may go back, never ahead.
RemoveLast ==
  /\ at > 0 /\ ret = <<hosts[at]>>
  /\ hosts' = RemoveAt(hosts, at) /\ at' \in 0..at - 1 /\ ret' = <<>>

Next ==
  \/ (\E b \in Batches : Put(b) \/ Drop(b)) \/ Refuse
  \/ TakeLast \/ TakeFirst \/ Uniquify
  \/ Start \/ Rewind \/ Finish \/ Advance \/ RemoveLast

Spec == Init /\ [][Next]_logVars
=============================================================================
