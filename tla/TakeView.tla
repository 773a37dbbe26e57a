-------------------------------- MODULE TakeView --------------------------------
(* take_view of a base that is not both sized and random access (view/        *)
(* take.hpp), walked by counted_iterators (iterator/counted_iterator.hpp):    *)
(* cnt is what is left.  An unsized base may end before the count does.       *)
EXTENDS Integers, Stepping

Fresh(max) == [len : 0 .. max, count : 0 .. max, sized : BOOLEAN]

\* size()
Size(v) == Lesser(v.len, v.count)

Begin(v) == [it |-> 0, cnt |-> IF v.sized THEN Size(v) ELSE v.count]

NextExpects(v, c) == c.cnt > 0
Next(v, c) == [it |-> c.it + 1, cnt |-> c.cnt - 1]
Prev(v, c) == [it |-> c.it - 1, cnt |-> c.cnt + 1]
AdvanceExpects(v, c, n) == c.cnt >= n
Advance(v, c, n) == [it |-> c.it + n, cnt |-> c.cnt - n]
Distance(v, c, d) == c.cnt - d.cnt
Equal(c, d) == c.cnt = d.cnt
\* default_sentinel for a sized base, take_view::sentinel for another
AtEnd(v, c) == c.cnt = 0 \/ (~v.sized /\ c.it = v.len)
ReadExpects(v, c) == c.cnt > 0
Read(v, c) == c.it

\* doc/index.md: the first count elements, or all if there are fewer
Element(v, k) == k
=============================================================================
