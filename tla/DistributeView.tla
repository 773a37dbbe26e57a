------------------------------ MODULE DistributeView ------------------------------
(* linear_distribute_view (view/linear_distribute.hpp): n values from from to *)
(* to.  The view is its own cursor.  The distances here are whole numbers.    *)
EXTENDS Integers

Made(from, step, n) ==
  [from |-> from, n |-> n, to |-> from + step * (IF n > 1 THEN n - 1 ELSE 1),
   delta |-> IF n > 1 THEN step ELSE 0]
Fresh(max) == { Made(from, step, n) : from \in 0 .. 1, step \in 0 .. 2, n \in 1 .. max }
\* a single value of an interval that has more
Single(v) == v.n = 1 /\ v.from # v.to

Begin(v) == [from |-> v.from, n |-> v.n]
NextExpects(v, c) == c.n > 0
Next(v, c) ==
  [n |-> c.n - 1, from |-> IF c.n = 1 THEN v.to ELSE v.to - v.delta * (c.n - 2)]
Equal(c, d) == c.n = d.n
AtEnd(v, c) == c.n = 0
Read(v, c) == c.from

\* doc/index.md: "(the end points are always included). If `from == to`,
\* returns `n`-times `to`, and if `n == 1` it returns `to`."
Size(v) == v.n
Element(v, k) == IF v.n = 1 THEN v.to ELSE v.from + v.delta * k
=============================================================================
