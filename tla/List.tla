-------------------------------- MODULE List -------------------------------
(***************************************************************************)
(* The generic list of src/src/common/list.c: nodes in one chain, a        *)
(* pointer to the last "next" field for appending, a count, and any number *)
(* of iterators that the list itself keeps valid.                          *)
(*                                                                         *)
(* A "next" field is named by the node that holds it, the one in the list  *)
(* header by HeadPtr; that is what tail, an iterator's prev and the pp of  *)
(* the C code point to.  Every operation runs under the list's mutex, so   *)
(* it is one step, but for the sort and list_delete_all, whose loops are   *)
(* taken step by step while the mutex is held (op).  list_find is repeated *)
(* calls of list_next, each with the mutex to itself; list_count,          *)
(* list_is_empty, list_peek, list_for_each and list_find_first change      *)
(* nothing.  The free lists are the set of nodes that are not in use, and  *)
(* what a freed node or iterator holds is written Nil and HeadPtr.         *)
(***************************************************************************)
EXTENDS Naturals, FiniteSets, Sequences

CONSTANTS
  Nodes,     \* the nodes the memory has room for
  HeadPtr,   \* the address of the list's head pointer
  Nil,       \* NULL
  Iters,     \* the iterators
  Items,     \* the data
  Key        \* what the compare and find functions look at in an item

ASSUME ListAssumption ==
  /\ IsFiniteSet(Nodes) /\ HeadPtr \notin Nodes /\ Nil \notin Nodes \cup {HeadPtr}
  /\ Nil \notin Items /\ Key \in [Items -> Nat]

VARIABLES
  mem,     \* the value of each "next" field, of the head pointer
  data,    \* the item of each node
  used,    \* the nodes that are allocated
  tail,    \* list->tail
  count,   \* list->count
  iters,   \* the iterators on the list's chain
  pos,     \* iterator->pos: the node to return next
  prev,    \* iterator->prev: the field that points to the last one returned
  op,      \* the loop that holds the mutex, and its pointers
  alive,   \* the list exists
  owner,   \* who has an item: the caller, the list, or nobody any more
  ret      \* what the last operation returned
vars == <<mem, data, used, tail, count, iters, pos, prev, op, alive, owner, ret>>
chain == <<mem, data, used, tail, count>>
cursors == <<iters, pos, prev>>

Fields == Nodes \cup {HeadPtr}
Refs   == Nodes \cup {Nil}
Keys   == {Key[x] : x \in Items}

Idle == [name |-> "none", pp |-> HeadPtr, back |-> HeadPtr, at |-> HeadPtr, key |-> 0]

Init ==
  /\ mem = [a \in Fields |-> Nil] /\ data = [p \in Nodes |-> Nil] /\ used = {}
  /\ tail = HeadPtr /\ count = 0 /\ iters = {} /\ op = Idle /\ alive = TRUE
  /\ pos = [i \in Iters |-> Nil] /\ prev = [i \in Iters |-> HeadPtr]
  /\ owner = [x \in Items |-> "caller"] /\ ret = Nil

Free == op = Idle /\ alive     \* the mutex can be taken

----------------------------------------------------------------------------
\* Where an iterator points once p is in the field pp.
PrevAfterCreate(i, pp, p) == IF prev[i] = pp THEN p ELSE prev[i]
PosAfterCreate(i, pp, p) == 
  IF prev[i] # pp /\ pos[i] = mem[pp] THEN p ELSE pos[i]

NodeCreate(pp, x) ==
  /\ \E p \in Nodes \ used :
       /\ used' = used \cup {p} /\ data' = [data EXCEPT ![p] = x]
       /\ mem' = [mem EXCEPT ![p] = mem[pp], ![pp] = p]
       /\ tail' = IF mem[pp] = Nil THEN p ELSE tail
       /\ prev' = [i \in Iters |-> 
                     IF i \in iters THEN PrevAfterCreate(i, pp, p) ELSE prev[i]]
       /\ pos' = [i \in Iters |-> 
                    IF i \in iters THEN PosAfterCreate(i, pp, p) ELSE pos[i]]
  /\ count' = count + 1
  /\ owner' = [owner EXCEPT ![x] = "list"] /\ ret' = x
  /\ UNCHANGED <<iters, op, alive>>

\* malloc fails, or there is nothing to remove.
ReturnsNull == ret' = Nil /\ UNCHANGED <<chain, cursors, op, alive, owner>>

PosAfterDestroy(i, p) == IF pos[i] = p THEN mem[p] ELSE pos[i]
PrevLeftBehind(i, pp, p) == IF pos[i] = p THEN pp ELSE prev[i]     \* mutant
PrevAfterDestroy(i, pp, p) == 
  IF pos[i] = p \/ prev[i] = p THEN pp ELSE prev[i]

\* The node in the field pp goes; its item goes to the caller or to fDel.
NodeDestroy(pp, to) == LET p == mem[pp] IN
  /\ mem' = [mem EXCEPT ![pp] = mem[p], ![p] = Nil]
  /\ tail' = IF mem[p] = Nil THEN pp ELSE tail
  /\ count' = count - 1
  /\ pos' = [i \in Iters |-> IF i \in iters THEN PosAfterDestroy(i, p) ELSE pos[i]]
  /\ prev' = [i \in Iters |-> 
                IF i \in iters THEN PrevAfterDestroy(i, pp, p) ELSE prev[i]]
  /\ used' = used \ {p} /\ data' = [data EXCEPT ![p] = Nil]
  /\ owner' = [owner EXCEPT ![data[p]] = to]
  /\ UNCHANGED <<iters, alive>>

----------------------------------------------------------------------------
ListCreate ==
  /\ ~alive /\ alive' = TRUE
  /\ mem' = [mem EXCEPT ![HeadPtr] = Nil] /\ tail' = HeadPtr /\ count' = 0
  /\ iters' = {} /\ UNCHANGED <<data, used, pos, prev, op, owner, ret>>

DestroyedButFirst == {data[p] : p \in used \ {mem[HeadPtr]}}     \* mutant: a lost node
\* The items still in the list are destroyed with it, ...
Destroyed == {data[p] : p \in used}
\* ... and so are its iterators.
ListDestroy ==
  /\ Free /\ alive' = FALSE /\ used' = {} /\ iters' = {}
  /\ mem' = [a \in Fields |-> IF a = HeadPtr THEN mem[a] ELSE Nil]
  /\ data' = [p \in Nodes |-> Nil]
  /\ pos' = [i \in Iters |-> Nil] /\ prev' = [i \in Iters |-> HeadPtr]
  /\ owner' = [x \in Items |-> IF x \in Destroyed THEN "freed" ELSE owner[x]]
  /\ UNCHANGED <<tail, count, op, ret>>

ListAppend(x)  == Free /\ owner[x] = "caller" /\ (NodeCreate(tail, x) \/ ReturnsNull)
ListPrepend(x) == Free /\ owner[x] = "caller" /\ (NodeCreate(HeadPtr, x) \/ ReturnsNull)
ListInsert(i, x) == 
  /\ Free /\ i \in iters /\ owner[x] = "caller" 
  /\ NodeCreate(prev[i], x) \/ ReturnsNull

ListPop == 
  /\ Free 
  /\ IF mem[HeadPtr] = Nil THEN ReturnsNull 
     ELSE /\ NodeDestroy(HeadPtr, "caller") /\ ret' = data[mem[HeadPtr]] 
          /\ UNCHANGED op

\* list_remove, and list_delete, which gives the item to fDel.
ListRemove(i, to) ==
  /\ Free /\ i \in iters
  /\ IF mem[prev[i]] = pos[i] THEN ReturnsNull
     ELSE /\ NodeDestroy(prev[i], to) /\ ret' = data[mem[prev[i]]] 
          /\ UNCHANGED op

----------------------------------------------------------------------------
IteratorAt(i, a) == 
  /\ pos' = [pos EXCEPT ![i] = mem[a]] /\ prev' = [prev EXCEPT ![i] = a]

IteratorCreate(i) ==
  /\ Free /\ i \notin iters
  /\ \/ iters' = iters \cup {i} /\ IteratorAt(i, HeadPtr)
        /\ UNCHANGED <<chain, op, alive, owner, ret>>
     \/ ReturnsNull

IteratorReset(i) ==
  /\ Free /\ i \in iters /\ IteratorAt(i, HeadPtr)
  /\ UNCHANGED <<chain, iters, op, alive, owner, ret>>

IteratorDestroy(i) ==
  /\ Free /\ i \in iters /\ iters' = iters \ {i}
  /\ pos' = [pos EXCEPT ![i] = Nil] /\ prev' = [prev EXCEPT ![i] = HeadPtr]
  /\ UNCHANGED <<chain, op, alive, owner, ret>>

\* The field that points to the item list_next is about to return.
Follow(i) == IF mem[prev[i]] = pos[i] THEN prev[i] ELSE mem[prev[i]]

ListNext(i) ==
  /\ Free /\ i \in iters
  /\ ret' = IF pos[i] = Nil THEN Nil ELSE data[pos[i]]
  /\ pos' = [pos EXCEPT ![i] = IF @ = Nil THEN Nil ELSE mem[@]]
  /\ prev' = [prev EXCEPT ![i] = Follow(i)]
  /\ UNCHANGED <<chain, iters, op, alive, owner>>

----------------------------------------------------------------------------
DeleteAll(k) ==
  /\ Free /\ op' = [Idle EXCEPT !.name = "delete_all", !.key = k]
  /\ UNCHANGED <<chain, cursors, alive, owner, ret>>

DeleteAllStep ==
  /\ op.name = "delete_all"
  /\ IF mem[op.pp] = Nil 
     THEN op' = Idle /\ UNCHANGED <<chain, cursors, alive, owner, ret>>
     ELSE IF Key[data[mem[op.pp]]] = op.key
     THEN NodeDestroy(op.pp, "freed") /\ UNCHANGED <<op, ret>>
     ELSE op' = [op EXCEPT !.pp = mem[@]] /\ UNCHANGED <<chain, cursors, alive, owner, ret>>

\* list_sort takes the first node out of order (in the field pp, after the one in
\* back) and looks for its place from the head.
Sort ==
  /\ Free 
  /\ IF count > 1 THEN op' = [Idle EXCEPT !.name = "sort", !.pp = mem[HeadPtr]]
                  ELSE UNCHANGED op
  /\ UNCHANGED <<chain, cursors, alive, owner, ret>>

KeyAt(a) == Key[data[mem[a]]]

SortAdvance ==
  /\ op.name = "sort" /\ mem[op.pp] # Nil
  /\ IF KeyAt(op.pp) < KeyAt(op.back)
     THEN op' = [op EXCEPT !.name = "place", !.at = HeadPtr]
     ELSE op' = [op EXCEPT !.back = op.pp, !.pp = mem[op.pp]]
  /\ UNCHANGED <<chain, cursors, alive, owner, ret>>

GoesBeyondEqual == KeyAt(op.pp) > KeyAt(op.at)     \* mutant: an unstable sort
\* Stable: a node stays behind those it compares equal to.
GoesBeyond == KeyAt(op.pp) >= KeyAt(op.at)
SortSeek ==
  /\ op.name = "place" /\ GoesBeyond
  /\ op' = [op EXCEPT !.at = mem[@]]
  /\ UNCHANGED <<chain, cursors, alive, owner, ret>>

SortPlace == LET p == mem[op.pp] IN
  /\ op.name = "place" /\ ~GoesBeyond
  /\ mem' = [mem EXCEPT ![p] = mem[op.at], ![op.at] = p, ![op.pp] = mem[p]]
  /\ op' = [op EXCEPT !.name = "sort", !.back = IF @ = op.at THEN p ELSE @]
  /\ UNCHANGED <<data, used, tail, count, cursors, alive, owner, ret>>

\* All in order: the last field is known, and iterators start anew.
SortEnd ==
  /\ op.name = "sort" /\ mem[op.pp] = Nil /\ tail' = op.pp /\ op' = Idle
  /\ pos' = [i \in Iters |-> IF i \in iters THEN mem[HeadPtr] ELSE pos[i]]
  /\ prev' = [i \in Iters |-> IF i \in iters THEN HeadPtr ELSE prev[i]]
  /\ UNCHANGED <<mem, data, used, count, iters, alive, owner, ret>>

----------------------------------------------------------------------------
Next ==
  \/ ListCreate \/ ListDestroy \/ ListPop \/ Sort
  \/ \E x \in Items : 
       ListAppend(x) \/ ListPrepend(x) \/ \E i \in Iters : ListInsert(i, x)
  \/ \E i \in Iters : 
       \/ IteratorCreate(i) \/ IteratorReset(i) \/ IteratorDestroy(i) \/ ListNext(i)
       \/ \E to \in {"caller", "freed"} : ListRemove(i, to)
  \/ (\E k \in Keys : DeleteAll(k)) \/ DeleteAllStep
  \/ SortAdvance \/ SortSeek \/ SortPlace \/ SortEnd

Spec == Init /\ [][Next]_vars

----------------------------------------------------------------------------
TypeOK ==
  /\ mem \in [Fields -> Refs] /\ data \in [Nodes -> Items \cup {Nil}]
  /\ used \subseteq Nodes /\ tail \in Fields /\ count \in Nat
  /\ iters \subseteq Iters /\ pos \in [Iters -> Refs] /\ prev \in [Iters -> Fields]
  /\ op \in [name : {"none", "delete_all", "sort", "place"},
             pp : Fields, back : Fields, at : Fields, key : Nat]
  /\ alive \in BOOLEAN /\ owner \in [Items -> {"caller", "list", "freed"}]
  /\ ret \in Items \cup {Nil}

Sorting == op.name \in {"sort", "place"}

\* The field before the k + 1st node of s.
Field(s, k) == IF k = 0 THEN HeadPtr ELSE s[k]

\* The chain holds the nodes of s, in that order, and no other is allocated.
Chained(s) ==
  /\ \A k, l \in 1..count : s[k] = s[l] => k = l
  /\ \A p \in used : \E k \in 1..count : s[k] = p
  /\ \A k \in 0..count : mem[Field(s, k)] = IF k = count THEN Nil ELSE s[k + 1]
  /\ ~Sorting => tail = Field(s, count)

\* The assertion of list_node_create and list_node_destroy: between the field prev
\* and the node pos there is at most one node; and prev is a field of the chain.
Placed(s, i) == \E k \in 0..count :
  /\ prev[i] = Field(s, k)
  /\ pos[i] = mem[prev[i]] \/ (k < count /\ pos[i] = mem[s[k + 1]])

Arrangement(s) == Chained(s) /\ (Sorting \/ \A i \in iters : Placed(s, i))

\* The chain never loses a node or gains a freed one, the tail pointer, the count and
\* every iterator agree with it, through any mix of insertions and removals at the
\* ends, at several iterators and in list_delete_all, and sorts.
ChainKept == alive => \E s \in [1..count -> used] : Arrangement(s)

\* The nodes from the field a on.
Walk(a) == LET n == Cardinality(Nodes)
               node[k \in 1..n] == IF k = 1 THEN mem[a] 
                                   ELSE IF node[k - 1] = Nil THEN Nil ELSE mem[node[k - 1]]
           IN  [k \in 1..Cardinality({j \in 1..n : node[j] # Nil}) |-> node[k]]
Contents == IF alive THEN LET w == Walk(HeadPtr) IN [k \in DOMAIN w |-> data[w[k]]] 
            ELSE <<>>

\* Every item is with the caller, in the list once, or destroyed: what goes into the
\* list and out of it is neither leaked nor handed out twice.
ItemsAccounted ==
  /\ {Contents[k] : k \in DOMAIN Contents} = {x \in Items : owner[x] = "list"}
  /\ \A j, k \in DOMAIN Contents : Contents[j] = Contents[k] => j = k

Remaining(i) == 
  IF i \notin iters THEN 0 ELSE IF Sorting THEN Len(Contents)
  ELSE IF pos[i] = Nil THEN 0 ELSE 1 + Len(Walk(pos[i]))
LastOf(i) == 
  IF i \notin iters \/ Sorting \/ mem[prev[i]] = pos[i] THEN Nil ELSE data[mem[prev[i]]]

\* Iterators return in order, once each, what is ahead of them, and remove only what they
\* returned last, and the sort is stable, as list.h says; but an iterator forgets what it
\* returned last when the item after that goes in another way, which list.h does not say.
Log == INSTANCE ListLog WITH 
         items <- Contents, ahead <- [i \in Iters |-> Remaining(i)],
         last <- [i \in Iters |-> LastOf(i)], sorting <- Sorting
IsListLog == Log!Spec
=============================================================================
