------------------------------ MODULE ListLog ------------------------------
(***************************************************************************)
(* What a generic list does for its callers: a sequence of items, and      *)
(* iterators that each return the items still ahead of them, in order,     *)
(* whatever is inserted or removed meanwhile.  This is what list.h says    *)
(* (src/src/common/list.h), with the exception named Forgets below.        *)
(***************************************************************************)
EXTENDS Naturals, SequencesExt

CONSTANTS Items, Iters, Key, Nil

VARIABLES
  items,     \* the contents of the list
  iters,     \* the iterators that exist
  ahead,     \* for each of them, how many items it has yet to return
  last,      \* ... the item it returned last, while it can be removed through it
  sorting,   \* a sort is under way
  ret        \* what the last operation returned
logVars == <<items, iters, ahead, last, sorting, ret>>

Size == Len(items)

Init ==
  /\ items = <<>> /\ iters = {} /\ sorting = FALSE /\ ret = Nil
  /\ ahead = [i \in Iters |-> 0] /\ last = [i \in Iters |-> Nil]

\* An item put after the first j: iterators at the gap may or may not return it.
InsertAfter(j, x) ==
  /\ items' = InsertAt(items, j + 1, x) /\ ret' = x
  /\ ahead' \in [Iters -> 0..Size + 1]
  /\ \A i \in iters : LET passed == Size - ahead[i] IN
       /\ j < passed => ahead'[i] = ahead[i]
       /\ j = passed => ahead'[i] \in {ahead[i], ahead[i] + 1}
       /\ j > passed => ahead'[i] = ahead[i] + 1
  /\ UNCHANGED <<iters, last, sorting>>

PutLast(x)  == InsertAfter(Size, x)
PutFirst(x) == InsertAfter(0, x)

\* Through an iterator, an item goes right before the last one it returned.
PutBefore(i, x) == \E j \in 0..Size :
  /\ IF last[i] = Nil THEN j = Size - ahead[i] ELSE j < Size /\ items[j + 1] = last[i]
  /\ InsertAfter(j, x)

\* An iterator has no last item once that item is removed - nor once the item it would
\* return next is (list.c:716).  list.h:249 and 266 know no such case: there list_remove
\* still takes, and list_insert still goes before, "the last item returned".
Forgets(i, j) == last[i] = items[j] \/ j = Size - ahead[i] + 1

\* The item at j goes: only an iterator that was to return it comes to return fewer.
RemoveFrom(j) ==
  /\ items' = RemoveAt(items, j)
  /\ ahead' \in [Iters -> 0..Size]
  /\ last' \in [Iters -> Items \cup {Nil}]
  /\ \A i \in iters : LET first == Size - ahead[i] + 1 IN
       /\ ahead'[i] = IF j < first THEN ahead[i] ELSE ahead[i] - 1
       /\ last'[i] = IF Forgets(i, j) THEN Nil ELSE last[i]
  /\ UNCHANGED <<iters, sorting>>

TakeFirst == /\ items # <<>> /\ ret' = Head(items) /\ RemoveFrom(1)
Take(i) == \E j \in 1..Size :
  /\ last[i] = items[j] /\ ret' = items[j] /\ RemoveFrom(j)
DeleteMatching(k) == \E j \in 1..Size :
  /\ Key[items[j]] = k /\ UNCHANGED ret /\ RemoveFrom(j)

Nothing == /\ ret' = Nil /\ UNCHANGED <<items, iters, ahead, last, sorting>>

Return(i) ==
  /\ ahead[i] > 0
  /\ LET x == items[Size - ahead[i] + 1] IN
       ret' = x /\ last' = [last EXCEPT ![i] = x]
  /\ ahead' = [ahead EXCEPT ![i] = @ - 1]
  /\ UNCHANGED <<items, iters, sorting>>

\* Past the end an iterator no longer gives access to the last item.
AtEnd(i) ==
  /\ ahead[i] = 0 /\ ret' = Nil /\ last' = [last EXCEPT ![i] = Nil]
  /\ UNCHANGED <<items, iters, ahead, sorting>>

Rewind(i) ==
  /\ ahead' = [ahead EXCEPT ![i] = Size] /\ last' = [last EXCEPT ![i] = Nil]
  /\ UNCHANGED <<items, sorting, ret>>
Open(i)  == i \notin iters /\ iters' = iters \cup {i} /\ Rewind(i)
Reset(i) == i \in iters /\ Rewind(i) /\ UNCHANGED iters
Close(i) == 
  /\ i \in iters /\ iters' = iters \ {i} 
  /\ ahead' = [ahead EXCEPT ![i] = 0] /\ last' = [last EXCEPT ![i] = Nil]
  /\ UNCHANGED <<items, sorting, ret>>

Sorted == \A j, k \in DOMAIN items : j < k => Key[items[j]] <= Key[items[k]]

\* A sort of more than one item rewinds every iterator.
BeginSort ==
  /\ Size > 1 /\ sorting' = TRUE
  /\ ahead' = [i \in Iters |-> IF i \in iters THEN Size ELSE 0]
  /\ last' = [i \in Iters |-> Nil] /\ UNCHANGED <<items, iters, ret>>
\* It is stable: an item moves ahead of greater ones only.
Shift == 
  /\ sorting
  /\ \E j, k \in DOMAIN items :
       /\ j < k /\ \A n \in j..k - 1 : Key[items[n]] > Key[items[k]]
       /\ items' = InsertAt(RemoveAt(items, k), j, items[k])
  /\ UNCHANGED <<iters, ahead, last, sorting, ret>>
EndSort == sorting /\ Sorted /\ sorting' = FALSE /\ UNCHANGED <<items, iters, ahead, last, ret>>

Discard ==
  /\ items' = <<>> /\ iters' = {} /\ UNCHANGED <<sorting, ret>>
  /\ ahead' = [i \in Iters |-> 0] /\ last' = [i \in Iters |-> Nil]

Operation ==
  \/ \E x \in Items \ ToSet(items) :
       PutLast(x) \/ PutFirst(x) \/ \E i \in iters : PutBefore(i, x)
  \/ TakeFirst \/ Nothing \/ Discard \/ BeginSort
  \/ \E k \in {Key[x] : x \in Items} : DeleteMatching(k)
  \/ \E i \in Iters : Open(i)
  \/ \E i \in iters : Take(i) \/ Return(i) \/ AtEnd(i) \/ Reset(i) \/ Close(i)

Next == (~sorting /\ Operation) \/ Shift \/ EndSort
Spec == Init /\ [][Next]_logVars
=============================================================================
