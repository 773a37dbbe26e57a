------------------------------ MODULE JoinWithView ------------------------------
(* join_with_view (view/join.hpp): the inner ranges with a separator between  *)
(* them.  cur_ is a variant of an iterator into the separator and one into    *)
(* the inner range; the view is always single-pass, and it may store the      *)
(* inner range its outer iterator gave last, as join_view does.               *)
EXTENDS Integers, Sequences, SequencesExt

Outer == 3
NoInner == 0
Fresh(max) ==
  [lens : UNION { [1 .. n -> 0 .. max - 1] : n \in 0 .. Outer },
   val : 0 .. max - 1, stored : BOOLEAN, inner : {NoInner}]

OuterLen(v) == Len(v.lens)
Inner(v, c) == IF v.stored THEN v.inner ELSE c.outer
Updated(v, c) == IF v.stored THEN [v EXCEPT !.inner = c.outer] ELSE v

\* satisfy(): at the end of the separator on to the inner range, at the end of
\* that on to the next outer element, if any, and the separator before it
Settled(view, cursor) ==
  LET go[v \in [lens : {view.lens}, val : {view.val}, stored : {view.stored}, inner : Nat],
         c \in [outer : Nat, val : BOOLEAN, it : Nat]] ==
        IF c.val THEN IF c.it # v.val THEN <<v, c>>
                      ELSE go[Updated(v, c), [c EXCEPT !.val = FALSE, !.it = 0]]
        ELSE IF c.it # v.lens[Inner(v, c)] THEN <<v, c>>
        ELSE IF c.outer = OuterLen(v) THEN <<v, [c EXCEPT !.outer = @ + 1]>>
        ELSE go[v, [outer |-> c.outer + 1, val |-> TRUE, it |-> 0]]
  IN go[view, cursor]

AtFront == [outer |-> 1, val |-> FALSE, it |-> 0]
Started(v) == IF OuterLen(v) = 0 THEN <<v, AtFront>> ELSE Settled(Updated(v, AtFront), AtFront)
Begin(v) == Started(v)[2]
AfterBegin(v) == Started(v)[1]

NextExpects(v, c) ==
  IF c.val THEN c.it # v.val ELSE Inner(v, c) = c.outer /\ c.it # v.lens[c.outer]
Stepped(v, c) == Settled(v, [c EXCEPT !.it = @ + 1])
Next(v, c) == Stepped(v, c)[2]
AfterNext(v, c) == Stepped(v, c)[1]

AtEnd(v, c) == c.outer = OuterLen(v) + 1
Read(v, c) == IF c.val THEN <<0, c.it>> ELSE <<Inner(v, c), c.it>>
ReadExpects(v, c) == NextExpects(v, c)

\* doc/index.md: "Optionally, you can specify a value or a range to be inserted
\* between each source range"
Elements(v) ==
  FlattenSeq([j \in 1 .. OuterLen(v) |->
    (IF j = 1 THEN <<>> ELSE [i \in 1 .. v.val |-> <<0, i - 1>>])
      \o [i \in 1 .. v.lens[j] |-> <<j, i - 1>>]])
Size(v) == Len(Elements(v))
Element(v, k) == Elements(v)[k + 1]
=============================================================================
