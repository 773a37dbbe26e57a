------------------------------- MODULE Cache1View -------------------------------
(* cache1_view (view/cache1.hpp): the view keeps the element read last, so    *)
(* that reading it again does not compute it again.  dirty_ says that the     *)
(* iterator has moved on since; it is copied with the view, the cache is not. *)
EXTENDS Integers

Empty == -1
\* computed counts the times the base was read at the place of the iterator
Fresh(max) == [len : 0 .. max, dirty : {TRUE}, cache : {Empty}, computed : {0}]

Begin(v) == [it |-> 0]
AfterBegin(v) == [v EXCEPT !.dirty = TRUE, !.computed = 0]

Next(v, c) == [it |-> c.it + 1]
AfterNext(v, c) == [v EXCEPT !.dirty = TRUE, !.computed = 0]

\* read(): update_ if dirty_
Read(v, c) == IF v.dirty THEN c.it ELSE v.cache
AfterRead_StaysDirty(v, c) ==
  IF v.dirty THEN [v EXCEPT !.cache = c.it, !.computed = @ + 1] ELSE v
AfterRead(v, c) ==
  IF v.dirty THEN [v EXCEPT !.dirty = FALSE, !.cache = c.it, !.computed = @ + 1] ELSE v
ReadExpects(v, c) == c.it < v.len /\ (~v.dirty => v.cache # Empty)

Distance(v, c, d) == d.it - c.it
AtEnd(v, c) == c.it = v.len
Size(v) == v.len
\* doc/index.md: the elements of the base
Element(v, k) == k
=============================================================================
