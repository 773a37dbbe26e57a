-------------------------------- MODULE ScanView --------------------------------
(* partial_sum_view (view/partial_sum.hpp) and exclusive_scan_view (view/     *)
(* exclusive_scan.hpp): the iterator carries the sum so far, here the indices *)
(* of the elements that went into it, in order.                               *)
EXTENDS Integers, Sequences

Fresh(max) == [len : 0 .. max, exclusive : BOOLEAN]

Begin(v) == [it |-> 0, sum |-> IF v.exclusive \/ v.len = 0 THEN <<>> ELSE <<0>>]
\* of an exclusive scan of a common range
End(v) == [it |-> v.len, sum |-> <<>>]

NextExpects(v, c) == c.it # v.len
Next(v, c) ==
  [it |-> c.it + 1,
   sum |-> IF v.exclusive THEN Append(c.sum, c.it)
           ELSE IF c.it + 1 # v.len THEN Append(c.sum, c.it + 1) ELSE c.sum]

\* the adaptor of a constant exclusive scan is built with a sum_ of its own
Unset == <<-1>>
ToConst(v, c) == {IF v.exclusive THEN [c EXCEPT !.sum = Unset] ELSE c}

Equal(c, d) == c.it = d.it
AtEnd(v, c) == c.it = v.len
Read(v, c) == c.sum
ReadExpects(v, c) == c.it # v.len

\* doc/index.md: the results of applying fun to the previous result and the
\* next element, with or without that element
Size(v) == v.len
Element(v, k) == [i \in 1 .. (IF v.exclusive THEN k ELSE k + 1) |-> i - 1]
=============================================================================
