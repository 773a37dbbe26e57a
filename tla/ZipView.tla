-------------------------------- MODULE ZipView --------------------------------
(* iter_zip_with_view of common ranges (view/zip_with.hpp): one iterator for  *)
(* each range.  Two cursors are equal as soon as one pair of iterators is, so *)
(* that the shortest range ends the walk; the end cursor is made of the ends  *)
(* of all ranges, which lie at different distances if the lengths differ.     *)
EXTENDS Integers, FiniteSetsExt, Stepping

Zipped == 2
Fresh(max) == [lens : [1 .. Zipped -> 0 .. max]]

Begin(v) == [k \in 1 .. Zipped |-> 0]
End(v) == v.lens
Ragged(v, c) == c[1] # c[2]

Next(v, c) == [k \in 1 .. Zipped |-> c[k] + 1]
Prev(v, c) == [k \in 1 .. Zipped |-> c[k] - 1]
Advance(v, c, n) == [k \in 1 .. Zipped |-> c[k] + n]

\* distance_to: the smallest distance in magnitude
Distance(v, c, d) ==
  LET distances == { d[k] - c[k] : k \in 1 .. Zipped }
  IN IF d[1] = c[1] THEN 0 ELSE IF d[1] > c[1] THEN Min(distances) ELSE Max(distances)

Equal(c, d) == \E k \in 1 .. Zipped : c[k] = d[k]
Read(v, c) == c
ReadExpects(v, c) == \A k \in 1 .. Zipped : c[k] \in 0 .. v.lens[k] - 1

\* doc/index.md: "return a new range where Mth element is the result of calling
\* make_tuple on the Mth elements of all N ranges"
Size(v) == Min({ v.lens[k] : k \in 1 .. Zipped })
Element(v, i) == [k \in 1 .. Zipped |-> i]
=============================================================================
