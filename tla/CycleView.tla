------------------------------- MODULE CycleView -------------------------------
(* cycled_view (view/cycle.hpp): the base again and again.  A cursor is an    *)
(* iterator into the base and n_, the laps behind it; over a base that is not *)
(* a common_range the view caches the end of the base when it first meets it. *)
EXTENDS Integers, Stepping

NotCached == -1
Fresh(max) ==
  [len : 1 .. max, common : BOOLEAN, end : {NotCached}]

Begin(v) == [it |-> 0, n |-> 0]

\* get_end_<true> and set_end_
WithEnd(v) == IF v.common THEN v ELSE [v EXCEPT !.end = v.len]
End(v) == IF v.common THEN v.len ELSE v.end

NextExpects(v, c) == c.it # v.len
Next(v, c) ==
  IF c.it + 1 = v.len THEN [it |-> 0, n |-> c.n + 1] ELSE [c EXCEPT !.it = @ + 1]
AfterNext_Forgets(v, c) == v
AfterNext(v, c) == IF c.it + 1 = v.len THEN WithEnd(v) ELSE v

PrevExpects(v, c) == c.it = 0 => c.n > 0 /\ End(v) # NotCached
Prev(v, c) ==
  IF c.it = 0 THEN [it |-> End(v) - 1, n |-> c.n - 1] ELSE [c EXCEPT !.it = @ - 1]

\* advance: the laps come from a division that rounds towards zero
Advance(v, c, n) ==
  LET off == Mod(c.it + n, v.len)
  IN [it |-> IF off < 0 THEN off + v.len ELSE off, n |-> c.n + Div(c.it + n, v.len)]
AdvanceExpects(v, c, n) == c.n + Div(c.it + n, v.len) >= 0
\* the moves back for which that division is right
StaysAligned(v, c, n) == c.it + n >= 0 \/ Mod(c.it + n, v.len) = 0

\* the constructor of a constant cursor from another leaves n_ at zero
ToConst(v, c) == {[c EXCEPT !.n = 0]}

Distance(v, c, d) == (d.n - c.n) * v.len + (d.it - c.it)
Equal(c, d) == c.n = d.n /\ c.it = d.it
Read(v, c) == c.it

\* doc/index.md: "Returns an infinite range that endlessly repeats the source"
Element(v, k) == k % v.len
=============================================================================
