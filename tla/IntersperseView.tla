---------------------------- MODULE IntersperseView ----------------------------
(* intersperse_view (view/intersperse.hpp): a value between the elements.  An *)
(* iterator is one of the base and toggle_, whether it is at an element or at *)
(* the value in front of it.                                                  *)
EXTENDS Integers, Stepping

Val == -1
Fresh(max) == [len : 0 .. max]
Bit(b) == IF b THEN 1 ELSE 0

Begin(v) == [it |-> 0, toggle |-> v.len # 0]
End(v) == [it |-> v.len, toggle |-> FALSE]

Next(v, c) == [it |-> c.it + Bit(c.toggle), toggle |-> ~c.toggle]
Prev(v, c) == [it |-> c.it - Bit(~c.toggle), toggle |-> ~c.toggle]
Advance(v, c, n) ==
  [it |-> c.it + Div(IF n >= 0 THEN n + Bit(c.toggle) ELSE n - Bit(~c.toggle), 2),
   toggle |-> IF Mod(n, 2) # 0 THEN ~c.toggle ELSE c.toggle]

Distance(v, c, d) == (d.it - c.it) * 2 + (Bit(d.toggle) - Bit(c.toggle))
Equal(c, d) == c = d
AtEnd(v, c) == c.it = v.len
Read(v, c) == IF c.toggle THEN c.it ELSE Val
ReadExpects(v, c) == c.toggle => c.it < v.len

\* doc/index.md: the value inserted between contiguous elements
Size(v) == IF v.len > 0 THEN v.len * 2 - 1 ELSE 0
Element(v, k) == IF k % 2 = 0 THEN k \div 2 ELSE Val
=============================================================================
