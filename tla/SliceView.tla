-------------------------------- MODULE SliceView --------------------------------
(* slice_view of a bidirectional range (view/slice.hpp): counted_iterators    *)
(* from a cached begin, which may be counted from the end of the base.        *)
EXTENDS Integers

Counted == INSTANCE TakeView

NotCached == -1
\* views::slice: the ends given from the front or, negative, from the back
Made(len, from, to) ==
  [len |-> len, from |-> from, to |-> to, begin |-> NotCached,
   count |-> IF from >= 0 /\ to < 0 THEN len + to - from ELSE to - from]
Place(v, i, back) == IF i < 0 \/ back THEN v.len + i ELSE i
\* from end - j, to may be the end itself, which is 0
FromFront(n) == { v \in { Made(n, lo, hi) : lo \in 0 .. n, hi \in 0 .. n } : v.from =< v.to }
FrontToBack(n) == { v \in { Made(n, lo, -hi) : lo \in 0 .. n, hi \in 1 .. n } : v.from =< n + v.to }
FromBack(n) == { v \in { Made(n, -lo, -hi) : lo \in 1 .. n, hi \in 0 .. n } : v.from =< v.to }
Fresh(max) == UNION { FromFront(n) \cup FrontToBack(n) \cup FromBack(n) : n \in 0 .. max }

\* detail::pos_at_
PosAt(v) == Place(v, v.from, FALSE)
AfterBegin(v) == IF v.begin = NotCached THEN [v EXCEPT !.begin = PosAt(v)] ELSE v
Begin(v) == [it |-> AfterBegin(v).begin, cnt |-> v.count]
NextExpects(v, c) == Counted!NextExpects(v, c)
Next(v, c) == Counted!Next(v, c)
Prev(v, c) == Counted!Prev(v, c)
Equal(c, d) == Counted!Equal(c, d)
AtEnd(v, c) == c.cnt = 0
Read(v, c) == c.it
ReadExpects(v, c) == c.it \in 0 .. v.len - 1

\* the elements from the first to the last place the caller gave
Size(v) == Place(v, v.to, v.from < 0) - Place(v, v.from, FALSE)
Element(v, k) == Place(v, v.from, FALSE) + k
=============================================================================
