------------------------------ MODULE IntroSort ------------------------------
(* ranges::sort (include/EARanges/algorithm/sort.hpp): quicksort by an        *)
(* unguarded median-of-three partition down to ranges of Threshold elements,  *)
(* a heap sort when the depth limit is spent, and one insertion sort over the *)
(* result whose second half has no bound test.  Elements are told apart by    *)
(* their index in the input; key is what the projection yields.  Each         *)
(* comparison the scans make is a step of its own, because each one reads     *)
(* through an iterator nothing has compared with the ends of the range.       *)
EXTENDS Integers, Sequences, Functions

CONSTANTS Keys,       \* projected values, ordered by <
          MaxLen,     \* bound: the longest input
          Threshold   \* introsort_threshold(), 16 in the code

ASSUME KeysAreIntegers == Keys \subseteq Int
ASSUME MaxLenIsNatural == MaxLen \in Nat
\* with two elements or more left out, first, mid and penultimate are distinct
ASSUME ThresholdLeavesThree == Threshold \in Nat /\ Threshold >= 2

VARIABLES n,        \* last - first of the whole call
          key,      \* the key of every element
          a,        \* the elements as they lie
          pc,       \* which loop of the code is running
          rest, k,  \* n and k inside log2
          frames,   \* the active calls of introsort_loop, outermost first
          lo, hi,   \* first and last inside unguarded_partition
          pivot,    \* pivot_pnt
          i,        \* the next element to insert
          hole,     \* last inside unguarded_linear_insert
          val       \* the element held in val

vars == <<n, key, a, pc, rest, k, frames, lo, hi, pivot, i, hole, val>>

Positions == 0 .. n - 1
Less(x, y) == key[x] < key[y]
Top == frames[Len(frames)]
Pending(f, l, d) == [first |-> f, last |-> l, depth |-> d]

Init ==
  /\ n \in 0 .. MaxLen
  /\ key \in [Positions -> Keys]
  /\ a = [p \in Positions |-> p]
  /\ pc = IF n = 0 THEN "done" ELSE "log2"
  /\ rest = n /\ k = 0
  /\ frames = <<>>
  /\ lo = 0 /\ hi = 0 /\ pivot = 0 /\ i = 0 /\ hole = 0 /\ val = 0

----------------------------------------------------------------------------
(* log2, and introsort_loop with twice that depth to spend *)

Halve ==
  /\ pc = "log2" /\ rest # 1
  /\ rest' = rest \div 2
  /\ k' = k + 1
  /\ UNCHANGED <<n, key, a, pc, frames, lo, hi, pivot, i, hole, val>>

StartLoop ==
  /\ pc = "log2" /\ rest = 1
  /\ frames' = <<Pending(0, n, k * 2)>>
  /\ pc' = "loop"
  /\ UNCHANGED <<n, key, a, rest, k, lo, hi, pivot, i, hole, val>>

IsLong_OneMore(f) == f.last - f.first > Threshold + 1
IsLong(f) == f.last - f.first > Threshold

DepthSpent_Never(f) == FALSE
DepthSpent(f) == f.depth = 0

\* introsort_loop returns: to the caller's loop, or to sort itself
Return ==
  /\ frames' = SubSeq(frames, 1, Len(frames) - 1)
  /\ IF Len(frames) = 1 THEN pc' = "next" /\ i' = 1
                        ELSE pc' = "loop" /\ UNCHANGED i

ShortRange ==
  /\ pc = "loop" /\ ~IsLong(Top)
  /\ Return
  /\ UNCHANGED <<n, key, a, rest, k, lo, hi, pivot, hole, val>>

\* what partial_sort(first, last, last) promises; module Heap models how
Rearrangements(f, l) ==
  { s \in Bijection(f .. l - 1, f .. l - 1) :
      \A p, q \in f .. l - 1 : p < q => ~Less(a[s[q]], a[s[p]]) }

HeapSort ==
  /\ pc = "loop" /\ IsLong(Top) /\ DepthSpent(Top)
  /\ \E s \in Rearrangements(Top.first, Top.last) :
       a' = [p \in Positions |-> IF p \in DOMAIN s THEN a[s[p]] ELSE a[p]]
  /\ Return
  /\ UNCHANGED <<n, key, rest, k, lo, hi, pivot, hole, val>>

----------------------------------------------------------------------------
(* unguarded_partition *)

MedianOf_TakeFirst(f, l) == f
MedianOf(f, l) ==
  LET mid == f + (l - f) \div 2
      penultimate == l - 1
  IN IF Less(a[f], a[mid])
     THEN IF Less(a[mid], a[penultimate]) THEN mid
          ELSE IF Less(a[f], a[penultimate]) THEN penultimate ELSE f
     ELSE IF Less(a[f], a[penultimate]) THEN f
          ELSE IF Less(a[mid], a[penultimate]) THEN penultimate ELSE mid

StartPartition ==
  /\ pc = "loop" /\ IsLong(Top) /\ ~DepthSpent(Top)
  /\ pivot' = MedianOf(Top.first, Top.last)
  /\ lo' = Top.first /\ hi' = Top.last
  /\ pc' = "up"
  /\ UNCHANGED <<n, key, a, rest, k, frames, i, hole, val>>

ScanUp ==
  /\ pc = "up" /\ Less(a[lo], a[pivot])
  /\ lo' = lo + 1
  /\ UNCHANGED <<n, key, a, pc, rest, k, frames, hi, pivot, i, hole, val>>

StopUp ==
  /\ pc = "up" /\ ~Less(a[lo], a[pivot])
  /\ hi' = hi - 1
  /\ pc' = "down"
  /\ UNCHANGED <<n, key, a, rest, k, frames, lo, pivot, i, hole, val>>

ScanDown ==
  /\ pc = "down" /\ Less(a[pivot], a[hi])
  /\ hi' = hi - 1
  /\ UNCHANGED <<n, key, a, pc, rest, k, frames, lo, pivot, i, hole, val>>

\* the pivot is read through pivot_pnt, which follows it when it is swapped
Followed == IF pivot = lo THEN hi ELSE IF pivot = hi THEN lo ELSE pivot

Swap ==
  /\ pc = "down" /\ ~Less(a[pivot], a[hi]) /\ lo < hi
  /\ a' = [a EXCEPT ![lo] = a[hi], ![hi] = a[lo]]
  /\ pivot' = Followed
  /\ lo' = lo + 1
  /\ pc' = "up"
  /\ UNCHANGED <<n, key, rest, k, frames, hi, i, hole, val>>

\* the partition returns cut = lo: the caller recurses on [cut, last) and then
\* goes on with [first, cut)
Cross ==
  /\ pc = "down" /\ ~Less(a[pivot], a[hi]) /\ ~(lo < hi)
  /\ frames' = Append([frames EXCEPT ![Len(frames)] =
                          Pending(Top.first, lo, Top.depth - 1)],
                      Pending(lo, Top.last, Top.depth - 1))
  /\ pc' = "loop"
  /\ UNCHANGED <<n, key, a, rest, k, lo, hi, pivot, i, hole, val>>

----------------------------------------------------------------------------
(* final_insertion_sort *)

Guarded_OneOnly == 1
\* how many elements insertion_sort inserts with linear_insert's test
Guarded == IF n > Threshold THEN Threshold ELSE n

NextToInsert_Same == i
NextToInsert == i + 1

\* move_backward(first, last, last + 1) and *first = val
Rotated_OneShort == [p \in Positions |-> IF p = 0 THEN a[i] ELSE
                                         IF p < i THEN a[p - 1] ELSE a[p]]
Rotated == [p \in Positions |-> IF p = 0 THEN a[i] ELSE
                                IF p =< i THEN a[p - 1] ELSE a[p]]

InsertInFront ==
  /\ pc = "next" /\ i < Guarded /\ Less(a[i], a[0])
  /\ a' = Rotated
  /\ i' = NextToInsert
  /\ UNCHANGED <<n, key, pc, rest, k, frames, lo, hi, pivot, hole, val>>

StartInsert ==
  /\ pc = "next" /\ i < n
  /\ i < Guarded => ~Less(a[i], a[0])
  /\ val' = a[i] /\ hole' = i
  /\ pc' = "insert"
  /\ UNCHANGED <<n, key, a, rest, k, frames, lo, hi, pivot, i>>

Shift ==
  /\ pc = "insert" /\ Less(val, a[hole - 1])
  /\ a' = [a EXCEPT ![hole] = a[hole - 1]]
  /\ hole' = hole - 1
  /\ UNCHANGED <<n, key, pc, rest, k, frames, lo, hi, pivot, i, val>>

Place ==
  /\ pc = "insert" /\ ~Less(val, a[hole - 1])
  /\ a' = [a EXCEPT ![hole] = val]
  /\ i' = NextToInsert
  /\ pc' = "next"
  /\ UNCHANGED <<n, key, rest, k, frames, lo, hi, pivot, hole, val>>

AllInserted_OneShort == i >= n - 1
AllInserted == i = n

Finish ==
  /\ pc = "next" /\ AllInserted
  /\ pc' = "done"
  /\ UNCHANGED <<n, key, a, rest, k, frames, lo, hi, pivot, i, hole, val>>

Next == \/ Halve \/ StartLoop \/ ShortRange \/ HeapSort \/ StartPartition
        \/ ScanUp \/ StopUp \/ ScanDown \/ Swap \/ Cross \/ InsertInFront \/ StartInsert
        \/ Shift \/ Place \/ Finish

Spec == Init /\ [][Next]_vars
\* the caller runs the call it made to its end
FairSpec == Spec /\ WF_vars(Next)

----------------------------------------------------------------------------
\* Every variable holds a value of its type, and the frames are ranges of the
\* input that still have depth to spend.
TypeOK ==
  /\ n \in 0 .. MaxLen
  /\ key \in [Positions -> Keys]
  /\ a \in [Positions -> Positions]
  /\ pc \in {"log2", "loop", "up", "down", "next", "insert", "done"}
  /\ rest \in 0 .. n /\ k \in Nat
  /\ frames \in Seq([first : 0 .. n, last : 0 .. n, depth : Nat])
  /\ lo \in 0 .. n /\ hi \in 0 .. n /\ pivot \in 0 .. n
  /\ i \in 0 .. n /\ hole \in 0 .. n /\ val \in 0 .. n

\* No unguarded scan reads outside the range it was given: neither scan of
\* unguarded_partition leaves [first, last), and unguarded_linear_insert never
\* steps before the first element, although none of them compares iterators.
ReadsInBounds ==
  /\ pc \in {"up", "down"} => pivot \in Top.first .. Top.last - 1
  /\ pc = "up" => lo \in Top.first .. Top.last - 1
  /\ pc = "down" => lo \in Top.first .. Top.last - 1
                    /\ hi \in Top.first .. Top.last - 1
  /\ pc = "insert" => hole \in 1 .. i

\* the array with the held element back in the hole it left
Filled == IF pc = "insert" THEN [a EXCEPT ![hole] = val] ELSE a

\* No element is lost or doubled by the swaps, the shifts and the moves: at
\* every step the array, with the element in hand put back, is a permutation.
NothingIsLost == \A p, q \in Positions : Filled[p] = Filled[q] => p = q

\* When sort returns the keys ascend.
SortedAtEnd ==
  pc = "done" => \A p, q \in Positions : p < q => ~Less(a[q], a[p])

\* What makes sort O(n log n): introsort_loop leaves so little out of place that
\* the final insertion sort moves no element by Threshold positions or more.
InsertsAreShort == pc = "insert" => i - hole < Threshold

\* The median of three makes every cut fall strictly inside the range, so that
\* both parts are shorter: no call of introsort_loop repeats its caller's work.
CutsAreInside ==
  [][pc = "down" /\ pc' = "loop" => Top.first < lo /\ lo < Top.last]_vars

\* sort returns, on every input.
SortReturns == <>(pc = "done")
=============================================================================
