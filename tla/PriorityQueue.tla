--------------------------- MODULE PriorityQueue ---------------------------
(***************************************************************************)
(* The priority queue of pq/pq.go as operators on a record: heap is the    *)
(* itemHeap, a sequence of values, and lookup gives the item of each       *)
(* value, its priority and its index in the heap (from 1 here).  up, down  *)
(* and Push to Fix are container/heap.                                     *)
(***************************************************************************)
EXTENDS Integers, Sequences, Functions

NewPriorityQueue == [heap |-> <<>>, lookup |-> <<>>]

PriorityOf(q, i) == q.lookup[q.heap[i]].priority

\* Mutant: the greatest priority comes first.
LessReversed(q, i, j) == PriorityOf(q, i) > PriorityOf(q, j)

Less(q, i, j) == PriorityOf(q, i) < PriorityOf(q, j)

\* Mutant: only one of the two items learns its new index.
SwapOneIndex(q, i, j) ==
    [q EXCEPT !.heap = [q.heap EXCEPT ![i] = q.heap[j], ![j] = q.heap[i]],
              !.lookup[q.heap[j]].index = i]

Swap(q, i, j) ==
    [heap |-> [q.heap EXCEPT ![i] = q.heap[j], ![j] = q.heap[i]],
     lookup |-> [[q.lookup EXCEPT ![q.heap[i]].index = j] EXCEPT ![q.heap[j]].index = i]]

\* itemHeap.Push and Pop, at the end of the slice; the map loses the value too.
PushLast(q, v, priority) ==
    [heap |-> Append(q.heap, v),
     lookup |-> [x \in DOMAIN q.lookup \cup {v} |->
                    IF x = v THEN [priority |-> priority, index |-> Len(q.heap) + 1]
                    ELSE q.lookup[x]]]

PopLast(q) ==
    LET n == Len(q.heap)
    IN  [heap |-> SubSeq(q.heap, 1, n - 1),
         lookup |-> Restrict(q.lookup, DOMAIN q.lookup \ {q.heap[n]})]

RECURSIVE up(_, _)
up(q, j) ==
    LET i == j \div 2
    IN  IF j = 1 \/ ~Less(q, j, i) THEN q ELSE up(Swap(q, i, j), i)

RECURSIVE down(_, _, _)
down(q, i, n) ==
    LET left == 2 * i
        j == IF left + 1 <= n /\ Less(q, left + 1, left) THEN left + 1 ELSE left
    IN  IF left > n \/ ~Less(q, j, i) THEN q ELSE down(Swap(q, i, j), j, n)

\* down, and up where down did not move the item.
Settle(q, i, n) == LET d == down(q, i, n) IN IF d # q THEN d ELSE up(q, i)

-----------------------------------------------------------------------------

Insert(q, v, priority) ==
    IF v \in DOMAIN q.lookup THEN q
    ELSE up(PushLast(q, v, priority), Len(q.heap) + 1)

\* Remove; a value that is not there is an error and changes nothing.
RemoveValue(q, v) ==
    IF v \notin DOMAIN q.lookup THEN q
    ELSE LET n == Len(q.heap)
             i == q.lookup[v].index
         IN  PopLast(IF i = n THEN q ELSE Settle(Swap(q, i, n), i, n - 1))

\* What Pop returns, for a queue that is not empty, and what it leaves.
PopValue(q) == q.heap[1]

Pop(q) ==
    LET n == Len(q.heap) IN PopLast(down(Swap(q, 1, n), 1, n - 1))

=============================================================================
