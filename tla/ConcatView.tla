------------------------------- MODULE ConcatView -------------------------------
(* concat_view (view/concat.hpp): a cursor is a variant of iterators, one for *)
(* each range; which is the range it is in and at the place in that range.    *)
(* satisfy() keeps it off the end of every range but the last.                *)
EXTENDS Integers, Sequences, FiniteSetsExt, Stepping

Ranges == 3
Fresh(max) == [lens : [1 .. Ranges -> 0 .. max]]

\* satisfy: on to the first range that has an element, or the last
Satisfied(v, c) ==
  IF c.it < v.lens[c.which] \/ c.which = Ranges THEN c
  ELSE [which |-> Min({ j \in c.which + 1 .. Ranges : v.lens[j] > 0 } \cup {Ranges}), it |-> 0]

Begin(v) == Satisfied(v, [which |-> 1, it |-> 0])
End(v) == [which |-> Ranges, it |-> v.lens[Ranges]]

NextExpects(v, c) == c.it # v.lens[c.which]
Next(v, c) == Satisfied(v, [c EXCEPT !.it = @ + 1])

\* prev_fun: from the front of a range to the end of the one before, repeatedly
PrevEnd(v, c) ==
  LET j == Max({ k \in 1 .. c.which - 1 : v.lens[k] > 0 } \cup {1})
  IN [which |-> j, it |-> v.lens[j]]
Prev(v, c) ==
  LET from == IF c.it = 0 /\ c.which > 1 THEN PrevEnd(v, c) ELSE c
  IN [from EXCEPT !.it = @ - 1]
PrevExpects(v, c) == Prev(v, c).it >= 0

\* advance_fwd_fun: to the end of this range, then on with the rest
Forward(v, s) ==
  IF s.rest = 0 THEN s
  ELSE IF s.at.which = Ranges THEN [at |-> [s.at EXCEPT !.it = @ + s.rest], rest |-> 0]
  ELSE LET last == v.lens[s.at.which]
       IN [at |-> Satisfied(v, [s.at EXCEPT !.it = Stop(@, s.rest, last)]),
           rest |-> Rest(s.at.it, s.rest, last)]
AdvanceForward(v, c, n) ==
  LET call[k \in 0 .. Ranges] ==
        IF k = 0 THEN [at |-> c, rest |-> n] ELSE Forward(v, call[k - 1])
  IN call[Ranges].at

\* advance_rev_fun, which in the first range tests no bound
Backward(v, s) ==
  IF s.rest = 0 THEN s
  ELSE IF s.at.which = 1 THEN [at |-> [s.at EXCEPT !.it = @ + s.rest], rest |-> 0]
  ELSE IF s.at.it = 0
       THEN [at |-> [which |-> s.at.which - 1, it |-> v.lens[s.at.which - 1]], rest |-> s.rest]
       ELSE [at |-> [s.at EXCEPT !.it = Stop(@, s.rest, 0)], rest |-> Rest(s.at.it, s.rest, 0)]
AdvanceBack_OneRange(v, from, steps) ==
  IF from.it = 0 /\ from.which > 1 THEN [PrevEnd(v, from) EXCEPT !.it = @ + steps]
  ELSE [from EXCEPT !.it = @ + steps]
AdvanceBack(v, c, n) ==
  LET call[k \in 0 .. 2 * Ranges] ==
        IF k = 0 THEN [at |-> c, rest |-> n] ELSE Backward(v, call[k - 1])
  IN call[2 * Ranges].at

Advance(v, c, n) == IF n > 0 THEN AdvanceForward(v, c, n)
                    ELSE IF n < 0 THEN AdvanceBack(v, c, n) ELSE c

\* distance_to_ from the cursor in the earlier range
Ahead(v, c, d) ==
  LET to[j \in 1 .. Ranges] == IF j >= d.which THEN d.it ELSE v.lens[j] + to[j + 1]
  IN IF c.which = d.which THEN d.it - c.it ELSE v.lens[c.which] - c.it + to[c.which + 1]
Distance(v, c, d) == IF c.which =< d.which THEN Ahead(v, c, d) ELSE -Ahead(v, d, c)
Equal(c, d) == c = d
Read(v, c) == <<c.which, c.it>>
ReadExpects(v, c) == c.it < v.lens[c.which]

\* doc/index.md: the concatenation of all of them
Part(v, j) == [i \in 1 .. v.lens[j] |-> <<j, i - 1>>]
Elements(v) == Part(v, 1) \o Part(v, 2) \o Part(v, 3)
Size(v) == Len(Elements(v))
Element(v, k) == Elements(v)[k + 1]
=============================================================================
