------------------------------ MODULE SlidingView ------------------------------
(* sliding_view (view/sliding.hpp): windows of n elements.  Which end of a    *)
(* window the iterator is at, and what is cached, depends on the base:        *)
(*   "none"     random access and sized: the iterator is at the front         *)
(*   "last"     bidirectional and common: the same, and the end is cached     *)
(*   "trailing" neither: the iterator is at the back, begin is cached, and a  *)
(*              second iterator trails at the front                           *)
(*   "first"    the same over an unsized random-access base: the front is     *)
(*              computed from the back                                        *)
EXTENDS Integers, Stepping

Modes == {"none", "last", "trailing", "first"}
NotCached == -1
Fresh(max) == [len : 0 .. max, n : 1 .. max, mode : Modes, cache : {NotCached}]

\* the bases of which the last window runs off the front
RunsOff(v) == v.mode = "last" /\ v.len = 0 /\ v.n > 1
AtBack(v) == v.mode \in {"trailing", "first"}

\* get_first and get_last
FirstEnd(v) == IF v.cache = NotCached THEN Stop(0, v.n - 1, v.len) ELSE v.cache
Last(v) == IF v.cache = NotCached THEN StopBack(v.len, -(v.n - 1), 0) ELSE v.cache

Begin(v) == [it |-> IF AtBack(v) THEN FirstEnd(v) ELSE 0, trail |-> 0]
AfterBegin(v) == IF AtBack(v) THEN [v EXCEPT !.cache = FirstEnd(v)] ELSE v
\* end() is an iterator only where the front moves
EndOffset(v) == Lesser(v.n - 1, v.len)
End(v) == [it |-> IF v.mode = "last" THEN Last(v) ELSE v.len - EndOffset(v), trail |-> 0]
AfterEnd(v) == IF v.mode = "last" THEN [v EXCEPT !.cache = Last(v)] ELSE v

Trails(v) == v.mode = "trailing"
Next(v, c) == [it |-> c.it + 1, trail |-> IF Trails(v) THEN c.trail + 1 ELSE c.trail]
Prev(v, c) == [it |-> c.it - 1, trail |-> IF Trails(v) THEN c.trail - 1 ELSE c.trail]
Advance(v, c, n) == [c EXCEPT !.it = @ + n]
Distance(v, c, d) == d.it - c.it
Equal(c, d) == c.it = d.it
AtEnd(v, c) == c.it = IF AtBack(v) THEN v.len ELSE End(v).it

\* counted(front, n_)
Front(v, c) ==
  CASE v.mode = "trailing" -> c.trail
    [] v.mode = "first" -> c.it - (v.n - 1)
    [] OTHER -> c.it
Read(v, c) == <<Front(v, c), v.n>>
ReadExpects(v, c) == 0 =< Front(v, c) /\ Front(v, c) + v.n =< v.len

\* size(); doc/index.md: a window over the first n elements, then slid by one
Size(v) == IF v.len < v.n THEN 0 ELSE v.len - v.n + 1
Element(v, k) == <<k, v.n>>
=============================================================================
