------------------------------ MODULE CartesianView ------------------------------
(* cartesian_product_view (view/cartesian_product.hpp): one iterator for each *)
(* factor, the last of which moves fastest.  At the end the first iterator is *)
(* at its end and the others at their beginnings, which a begin over an empty *)
(* factor must look like, too.                                                *)
EXTENDS Integers, FiniteSetsExt, Stepping

Factors == 3
\* common: the first factor's end() is an iterator
Fresh(max) == [lens : [1 .. Factors -> 0 .. max], common : BOOLEAN]

AtFront == [k \in 1 .. Factors |-> 0]
\* check_at_end_
Checked(v, c) ==
  IF \E k \in 1 .. Factors : c[k] = v.lens[k] THEN [c EXCEPT ![1] = v.lens[1]] ELSE c

Begin_NotChecked(v) == AtFront
Begin(v) == Checked(v, AtFront)
\* where the first factor has no iterator for its end, its size is added to
\* what begin made of it
End(v) == [Begin(v) EXCEPT ![1] = IF v.common THEN v.lens[1] ELSE @ + v.lens[1]]
EndRunsOff(v) ==
  ~v.common /\ v.lens[1] > 0 /\ \E k \in 2 .. Factors : v.lens[k] = 0

\* next_: the last factor that can move does, and those behind it start again
Moving(v, c) == Max({ k \in 2 .. Factors : c[k] + 1 < v.lens[k] } \cup {1})
NextExpects(v, c) == \A k \in Moving(v, c) .. Factors : c[k] # v.lens[k]
Next(v, c) ==
  LET m == Moving(v, c)
  IN [k \in 1 .. Factors |-> IF k < m THEN c[k] ELSE IF k = m THEN c[k] + 1 ELSE 0]

\* prev_: those at their beginning go to their end on the way
Borrowing(c) == Max({ k \in 1 .. Factors : c[k] > 0 } \cup {0})
PrevExpects(v, c) == Borrowing(c) > 0
Prev(v, c) ==
  LET m == Borrowing(c)
  IN [k \in 1 .. Factors |-> IF k < m THEN c[k] ELSE IF k = m THEN c[k] - 1 ELSE v.lens[k] - 1]

\* advance_: what is left over for factor k, from the last factor down; all but
\* the first correct the division for negative numbers
Carried(v, c, n) ==
  LET carry[k \in 1 .. Factors] ==
        IF k = Factors THEN n
        ELSE IF carry[k + 1] = 0 THEN 0 ELSE (carry[k + 1] + c[k + 1]) \div v.lens[k + 1]
  IN carry
Advance(v, c, n) ==
  LET carry == Carried(v, c, n)
  IN [k \in 1 .. Factors |->
        IF carry[k] = 0 THEN c[k]
        ELSE IF k = 1 THEN IF Div(carry[1] + c[1], v.lens[1]) > 0 THEN v.lens[1]
                           ELSE Mod(carry[1] + c[1], v.lens[1])
        ELSE (carry[k] + c[k]) % v.lens[k]]
AdvanceExpects(v, c, n) ==
  LET carry == Carried(v, c, n)
  IN \A k \in 1 .. Factors :
       carry[k] # 0 =>
         /\ c[k] < v.lens[k] \/ (k = 1 /\ c[1] = v.lens[1] /\ carry[1] < 0)
         /\ k = 1 => LET quotient == Div(carry[1] + c[1], v.lens[1])
                         remainder == Mod(carry[1] + c[1], v.lens[1])
                     IN remainder >= 0 /\ (quotient = 0 \/ (quotient = 1 /\ remainder = 0))

\* distance_
Distance(v, c, d) ==
  LET dist[k \in 1 .. Factors] ==
        IF k = 1 THEN d[1] - c[1] ELSE dist[k - 1] * v.lens[k] + (d[k] - c[k])
  IN dist[Factors]
Equal(c, d) == c = d
AtEnd(v, c) == c[1] = v.lens[1]
Read(v, c) == c
ReadExpects(v, c) == \A k \in 1 .. Factors : c[k] < v.lens[k]

\* doc/index.md: all tuples of elements; the last factor varies fastest
Size(v) == v.lens[1] * v.lens[2] * v.lens[3]
Element(v, i) ==
  [k \in 1 .. Factors |->
     (i \div (IF k = 3 THEN 1 ELSE IF k = 2 THEN v.lens[3] ELSE v.lens[2] * v.lens[3])) % v.lens[k]]
=============================================================================
