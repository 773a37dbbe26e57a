--------------------------------- MODULE Heap ---------------------------------
(* The heap algorithms (algorithm/heap_algorithm.hpp) and partial_sort, which *)
(* is made of them.  A client calls them one after another on a range of n    *)
(* elements, of which the first len are a heap; a call sifts an element up or *)
(* down, one comparison a step, with the element in a local and a hole in the *)
(* range.  The elements are numbered in the order of their keys.              *)
EXTENDS Integers, Functions

CONSTANTS Keys,   \* projected values, ordered by <
          MaxLen  \* bound: the longest range

ASSUME KeysAreIntegers == Keys \subseteq Int
ASSUME MaxLenIsNatural == MaxLen \in Nat

VARIABLES n,       \* last - first
          key,     \* the key of every element
          a,       \* the elements as they lie
          len,     \* the first len of them are the heap, or are being made one
          pc,      \* "idle", in a loop of a call, or sifting "up" or "down"
          phase,   \* which call, or which loop of it
          middle,  \* of make_heap: its last; of the sorts: their last or middle
          caller,  \* of make_heap and of sort_heap: the client or partial_sort
          i,       \* the variable of the loop: start or i
          hole,    \* start, or last of sift_up
          val      \* the element in top, or in v

vars == <<n, key, a, len, pc, phase, middle, caller, i, hole, val>>

Positions == 0 .. n - 1
Less(x, y) == key[x] < key[y]
Phases == {"none", "push", "pop", "make", "scan", "sort"}

Init ==
  /\ n \in 0 .. MaxLen
  /\ key \in { k \in [Positions -> Keys] : \A x, y \in Positions : x < y => k[x] =< k[y] }
  /\ a \in Bijection(Positions, Positions)
  /\ len = 0
  /\ pc = "idle" /\ phase = "none"
  /\ middle = 0 /\ caller = "client" /\ i = 0
  /\ hole = 0 /\ val = 0

\* the call is over, and its locals with it
Return ==
  /\ pc' = "idle" /\ phase' = "none"
  /\ middle' = 0 /\ caller' = "client" /\ i' = 0

Swapped_OneWay(p, q) == [a EXCEPT ![p] = a[q]]
Swapped(p, q) == [a EXCEPT ![p] = a[q], ![q] = a[p]]

----------------------------------------------------------------------------
(* sift_up_n and sift_down_n *)

Parent(p) == (p - 1) \div 2
Left(p) == 2 * p + 1
Right(p) == 2 * p + 2

\* the element at p is taken into a local
SiftFrom(p, direction) ==
  /\ hole' = p
  /\ pc' = direction

SiftUp ==
  /\ pc = "up" /\ hole > 0 /\ Less(a[Parent(hole)], val)
  /\ a' = [a EXCEPT ![hole] = a[Parent(hole)]]
  /\ hole' = Parent(hole)
  /\ UNCHANGED <<n, key, len, pc, phase, middle, caller, i, val>>

SettleUp ==
  /\ pc = "up" /\ (hole > 0 => ~Less(a[Parent(hole)], val))
  /\ a' = [a EXCEPT ![hole] = val]
  /\ hole' = 0 /\ val' = 0
  /\ Return
  /\ UNCHANGED <<n, key, len>>

\* a child behind the heap is no child; of equal children the left one
Child_AlwaysLeft == Left(hole)
Child == IF Right(hole) < len /\ Less(a[Left(hole)], a[Right(hole)])
         THEN Right(hole) ELSE Left(hole)

\* in heap order if there is no child, or the greater is less than the element
InOrder_AtOnce == TRUE
InOrder == Left(hole) < len => Less(a[Child], val)

SiftDown ==
  /\ pc = "down" /\ ~InOrder
  /\ a' = [a EXCEPT ![hole] = a[Child]]
  /\ hole' = Child
  /\ UNCHANGED <<n, key, len, pc, phase, middle, caller, i, val>>

SettleDown ==
  /\ pc = "down" /\ InOrder
  /\ a' = [a EXCEPT ![hole] = val]
  /\ hole' = 0 /\ val' = 0
  /\ IF phase = "pop" THEN Return
                      ELSE pc' = "loop" /\ UNCHANGED <<phase, middle, caller, i>>
  /\ UNCHANGED <<n, key, len>>

----------------------------------------------------------------------------
(* push_heap, pop_heap, make_heap, sort_heap *)

\* the client has put an element behind the heap
PushHeap ==
  /\ pc = "idle" /\ len < n
  /\ phase' = "push"
  /\ len' = len + 1
  /\ val' = a[len]
  /\ SiftFrom(len, "up")
  /\ UNCHANGED <<n, key, a, middle, caller, i>>

\* pop_heap_n(first, m): the first element goes to the end; of one element
\* nothing moves
PopFrom(m) ==
  /\ a' = Swapped(0, m - 1)
  /\ val' = a[m - 1]
  /\ len' = m - 1
  /\ SiftFrom(0, "down")

PopHeap ==
  /\ pc = "idle" /\ len > 0
  /\ phase' = "pop"
  /\ PopFrom(len)
  /\ UNCHANGED <<n, key, middle, caller, i>>

FirstParent(m) == (m - 2) \div 2
Make(m) ==
  /\ phase' = "make"
  /\ pc' = "loop"
  /\ middle' = m
  /\ len' = m
  /\ i' = IF m > 1 THEN FirstParent(m) ELSE -1
  /\ UNCHANGED <<n, key, a, hole, val>>

Distance_OneMore == n + 1
Distance == n

MakeHeap ==
  /\ pc = "idle"
  /\ Make(Distance)
  /\ caller' = "client"

NextStart_Same == i
NextStart == i - 1

MakeStep ==
  /\ pc = "loop" /\ phase = "make" /\ i >= 0
  /\ val' = a[i]
  /\ i' = NextStart
  /\ SiftFrom(i, "down")
  /\ UNCHANGED <<n, key, a, len, phase, middle, caller>>

MakeReturns ==
  /\ pc = "loop" /\ phase = "make" /\ i < 0
  /\ IF caller = "partial_sort" THEN phase' = "scan" /\ i' = middle /\ UNCHANGED <<pc, middle, caller>>
                ELSE Return
  /\ UNCHANGED <<n, key, a, len, hole, val>>

\* of the heap there is
SortHeap ==
  /\ pc = "idle"
  /\ phase' = "sort"
  /\ pc' = "loop"
  /\ middle' = len
  /\ i' = len
  /\ caller' = "client"
  /\ UNCHANGED <<n, key, a, len, hole, val>>

SortStep ==
  /\ pc = "loop" /\ phase = "sort" /\ i > 1
  /\ PopFrom(i)
  /\ i' = i - 1
  /\ UNCHANGED <<n, key, phase, middle, caller>>

SortReturns ==
  /\ pc = "loop" /\ phase = "sort" /\ i =< 1
  /\ Return
  /\ UNCHANGED <<n, key, a, len, hole, val>>

----------------------------------------------------------------------------
(* partial_sort(first, first + m, last) *)

PartialSort(m) ==
  /\ pc = "idle" /\ m \in 0 .. n
  /\ Make(m)
  /\ caller' = "partial_sort"

\* an element behind middle that is less than the greatest before it
Displaces_Never == FALSE
Displaces == Less(a[i], a[0])

Displace ==
  /\ pc = "loop" /\ phase = "scan" /\ i < n /\ Displaces
  /\ a' = Swapped(0, i)
  /\ val' = a[i]
  /\ i' = i + 1
  /\ SiftFrom(0, "down")
  /\ UNCHANGED <<n, key, len, phase, middle, caller>>

PassOver ==
  /\ pc = "loop" /\ phase = "scan" /\ i < n /\ ~Displaces
  /\ i' = i + 1
  /\ UNCHANGED <<n, key, a, len, pc, phase, middle, caller, hole, val>>

ScanReturns ==
  /\ pc = "loop" /\ phase = "scan" /\ i = n
  /\ phase' = "sort"
  /\ i' = middle
  /\ UNCHANGED <<n, key, a, len, pc, middle, caller, hole, val>>

Call == PushHeap \/ PopHeap \/ MakeHeap \/ SortHeap \/ \E m \in 0 .. n : PartialSort(m)
Step == \/ SiftUp \/ SettleUp \/ SiftDown \/ SettleDown
        \/ MakeStep \/ MakeReturns \/ SortStep \/ SortReturns
        \/ Displace \/ PassOver \/ ScanReturns
Next == Call \/ Step

Spec == Init /\ [][Next]_vars
\* the caller runs the call it made to its end
FairSpec == Spec /\ WF_vars(Step)

----------------------------------------------------------------------------
\* The heap, the hole and the loops stay inside the range, and the loops inside
\* what is left of their calls.
TypeOK ==
  /\ n \in 0 .. MaxLen
  /\ key \in [Positions -> Keys]
  /\ a \in [Positions -> Positions]
  /\ len \in 0 .. n
  /\ pc \in {"idle", "loop", "up", "down"} /\ phase \in Phases
  /\ middle \in 0 .. n /\ caller \in {"client", "partial_sort"}
  /\ i \in -1 .. n
  /\ hole \in 0 .. n /\ val \in 0 .. n
  /\ pc \in {"up", "down"} => hole < n /\ val < n

\* the range with the element in the local back in the hole
Filled == IF pc \in {"up", "down"} THEN [a EXCEPT ![hole] = val] ELSE a

\* No element is lost or doubled while one is held outside the range.
NothingIsLost == \A p, q \in Positions : Filled[p] = Filled[q] => p = q

\* Whenever no element is being sifted the first len elements are a heap again:
\* after a call has returned, and between the steps of the loops of partial_sort
\* and sort_heap, which read its first element.
HeapIsHeap ==
  pc = "idle" \/ (pc = "loop" /\ phase # "make") =>
    \A p \in 1 .. len - 1 : ~Less(a[Parent(p)], a[p])

\* When sort_heap and partial_sort are about to return, what they sorted ascends,
\* and partial_sort has left nothing that is less behind middle.
SortedAtReturn ==
  pc = "loop" /\ phase = "sort" /\ i =< 1 =>
    /\ \A p, q \in 0 .. middle - 1 : p < q => ~Less(a[q], a[p])
    /\ caller = "partial_sort" => \A p \in 0 .. middle - 1, q \in middle .. n - 1 : ~Less(a[q], a[p])

\* The heap implements a queue that gives out its greatest element: a pop, a step
\* of sort_heap and one of partial_sort each take out an element than which none
\* in the heap is greater, and nothing else comes or goes.
InHeap == IF phase = "make" /\ pc # "idle" THEN {} ELSE { Filled[p] : p \in 0 .. len - 1 }
Queue == INSTANCE PriorityQueue WITH queue <- InHeap
IsQueue == Queue!Spec

\* Every call returns: each sift ends, and so does each loop.
CallsReturn == pc # "idle" ~> pc = "idle"
=============================================================================
