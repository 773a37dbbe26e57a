-------------------------------- MODULE JoinView --------------------------------
(* join_view (view/join.hpp).  The inner ranges are either                     *)
(* there to refer to (pass_thru_inner_) or made anew by each dereference of   *)
(* the outer iterator; then the view stores the last one (store_inner_), the  *)
(* inner iterator points into it, and the view is single-pass.                *)
EXTENDS Integers, Sequences, FiniteSetsExt, SequencesExt

Outer == 3
NoInner == 0
Fresh(max) ==
  [lens : UNION { [1 .. n -> 0 .. max] : n \in 0 .. Outer },
   stored : BOOLEAN, inner : {NoInner}]

OuterLen(v) == Len(v.lens)
\* update_inner_: what becomes of the stored inner range; get_inner_: which is it
Updated(v, i) == IF v.stored THEN [v EXCEPT !.inner = i] ELSE v
Inner(v, i) == IF v.stored THEN v.inner ELSE i
InnerLen(v, i) == IF Inner(v, i) \in 1 .. OuterLen(v) THEN v.lens[Inner(v, i)] ELSE 0

\* satisfy(): the first outer element from i on with a non-empty inner range
NonEmpty(v, i) == Min({ j \in i .. OuterLen(v) : v.lens[j] > 0 } \cup {OuterLen(v) + 1})
Satisfied(v, i) == [outer |-> NonEmpty(v, i), it |-> 0]
AfterSatisfied(v, i) ==
  IF i > OuterLen(v) THEN v ELSE Updated(v, IF NonEmpty(v, i) > OuterLen(v) THEN OuterLen(v) ELSE NonEmpty(v, i))

Begin(v) == Satisfied(v, 1)
AfterBegin(v) == AfterSatisfied(v, 1)
End(v) == [outer |-> OuterLen(v) + 1, it |-> 0]

\* the inner range asked about must be the one the iterator is in
NextExpects(v, c) == Inner(v, c.outer) = c.outer /\ c.it < v.lens[c.outer]
Leaves(v, c) == c.it + 1 = InnerLen(v, c.outer)
Next(v, c) ==
  IF Leaves(v, c) THEN Satisfied(v, c.outer + 1) ELSE [c EXCEPT !.it = @ + 1]
AfterNext(v, c) == IF Leaves(v, c) THEN AfterSatisfied(v, c.outer + 1) ELSE v

\* prev, over ranges that are not stored: back over the empty ones
Prev(v, c) ==
  IF c.it > 0 /\ c.outer =< OuterLen(v) THEN [c EXCEPT !.it = @ - 1]
  ELSE LET j == Max({ k \in 1 .. c.outer - 1 : v.lens[k] > 0 }) IN [outer |-> j, it |-> v.lens[j] - 1]
PrevExpects(v, c) ==
  c.outer > OuterLen(v) \/ c.it = 0 => \E k \in 1 .. c.outer - 1 : v.lens[k] > 0

Equal(c, d) == c = d
AtEnd(v, c) == c.outer = OuterLen(v) + 1
\* inner_it_ points into the inner range the view has
Read(v, c) == <<Inner(v, c.outer), c.it>>

\* doc/index.md: "join them into a flattened sequence of elements"
Elements(v) == FlattenSeq([j \in 1 .. OuterLen(v) |-> [i \in 1 .. v.lens[j] |-> <<j, i - 1>>]])
Size(v) == Len(Elements(v))
Element(v, k) == Elements(v)[k + 1]
=============================================================================
