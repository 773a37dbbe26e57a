--------------------------- MODULE AdjacentFilterView ---------------------------
(* adjacent_filter_view (view/adjacent_filter.hpp): the first element, and    *)
(* every element for which pred holds of the one before it and of itself.     *)
EXTENDS Integers, Sequences, FiniteSetsExt, SequencesExt

\* pred[i]: pred of the elements i - 1 and i, counted from zero
Fresh(max) == UNION { [len : {n}, pred : [1 .. n - 1 -> BOOLEAN]] : n \in 0 .. max }

Begin(v) == [it |-> 0]
End(v) == [it |-> v.len]

NextExpects(v, c) == c.it # v.len
Next(v, c) == [it |-> Min({ i \in c.it + 1 .. v.len - 1 : v.pred[i] } \cup {v.len})]
PrevExpects(v, c) == c.it # 0
Prev(v, c) == [it |-> Max({ i \in 1 .. c.it - 1 : v.pred[i] } \cup {0})]

Equal(c, d) == c.it = d.it
AtEnd(v, c) == c.it = v.len
Read(v, c) == c.it
ReadExpects(v, c) == c.it < v.len

Elements(v) == SelectSeq([i \in 1 .. v.len |-> i - 1], LAMBDA i : i = 0 \/ v.pred[i])
Size(v) == Len(Elements(v))
Element(v, k) == Elements(v)[k + 1]
=============================================================================
