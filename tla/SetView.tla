-------------------------------- MODULE SetView --------------------------------
(* The set views over two sorted ranges (view/set_algorithm.hpp).  A cursor   *)
(* is an iterator into each, and satisfy() leaves both where the next element *)
(* of the result is; set_union and set_symmetric_difference also note which.  *)
EXTENDS Integers, Sequences, SequencesExt

Ops == {"difference", "intersection", "union", "symmetric"}
Keys == 0 .. 2
Sorted(max) == { s \in UNION { [1 .. n -> Keys] : n \in 0 .. max } :
                   \A i \in 1 .. Len(s) - 1 : s[i] =< s[i + 1] }
Fresh(max) == [op : Ops, a : Sorted(max), b : Sorted(max)]

End1(v, i) == i > Len(v.a)
End2(v, j) == j > Len(v.b)
Places(v) == (1 .. Len(v.a) + 1) \X (1 .. Len(v.b) + 1)

\* satisfy() of set_difference_cursor
Difference(v, from) ==
  LET go[p \in Places(v)] ==
        LET i == p[1]  j == p[2]
        IN IF End1(v, i) \/ End2(v, j) THEN p
           ELSE IF v.a[i] < v.b[j] THEN p
           ELSE go[IF v.b[j] < v.a[i] THEN i ELSE i + 1, j + 1]
  IN go[from]
\* satisfy() of set_intersection_cursor
Intersection(v, from) ==
  LET go[p \in Places(v)] ==
        LET i == p[1]  j == p[2]
        IN IF End1(v, i) \/ End2(v, j) THEN p
           ELSE IF v.a[i] < v.b[j] THEN go[i + 1, j]
           ELSE IF v.b[j] < v.a[i] THEN go[i, j + 1]
           ELSE p
  IN go[from]
\* satisfy() of set_union_cursor: of two equivalent elements the second goes
UnionSecond(v, p) == End1(v, p[1]) \/ (~End2(v, p[2]) /\ v.b[p[2]] < v.a[p[1]])
UnionPlace(v, p) ==
  IF ~End1(v, p[1]) /\ ~End2(v, p[2]) /\ v.a[p[1]] = v.b[p[2]] THEN <<p[1], p[2] + 1>> ELSE p
\* satisfy() of set_symmetric_difference_cursor: equivalent elements go together
Symmetric(v, from) ==
  LET go[p \in Places(v)] ==
        LET i == p[1]  j == p[2]
        IN IF End1(v, i) \/ End2(v, j) THEN p
           ELSE IF v.a[i] = v.b[j] THEN go[i + 1, j + 1] ELSE p
  IN go[from]
SymmetricState(v, p) ==
  IF End1(v, p[1]) THEN "only_second" ELSE IF End2(v, p[2]) THEN "only_first"
  ELSE IF v.a[p[1]] < v.b[p[2]] THEN "first" ELSE "second"

Satisfied(v, p) ==
  CASE v.op = "difference" -> [at |-> Difference(v, p), state |-> "first"]
    [] v.op = "intersection" -> [at |-> Intersection(v, p), state |-> "first"]
    [] v.op = "union" ->
         [at |-> UnionPlace(v, p), state |-> IF UnionSecond(v, p) THEN "second" ELSE "first"]
    [] v.op = "symmetric" ->
         LET there == Symmetric(v, p) IN [at |-> there, state |-> SymmetricState(v, there)]

Begin(v) == Satisfied(v, <<1, 1>>)

FromSecond(c) == c.state \in {"second", "only_second"}
Stepped(v, c) ==
  <<IF FromSecond(c) THEN c.at[1] ELSE c.at[1] + 1,
    IF FromSecond(c) \/ v.op = "intersection" THEN c.at[2] + 1 ELSE c.at[2]>>
\* with one range left, a symmetric difference just walks it
Next(v, c) ==
  IF c.state \in {"only_first", "only_second"} THEN [c EXCEPT !.at = Stepped(v, c)]
  ELSE Satisfied(v, Stepped(v, c))

\* the constructor of a constant cursor copies the state of a symmetric
\* difference, and leaves that of a union uninitialized
ToConst(v, c) ==
  IF v.op = "union" THEN {[c EXCEPT !.state = s] : s \in {"first", "second"}} ELSE {c}

Both(v) == v.op \in {"union", "symmetric"}
Equal(v, c, d) == IF Both(v) THEN c.at = d.at ELSE c.at[1] = d.at[1]
AtEnd(v, c) ==
  CASE v.op = "difference" -> End1(v, c.at[1])
    [] v.op = "intersection" -> End1(v, c.at[1]) \/ End2(v, c.at[2])
    [] OTHER -> End1(v, c.at[1]) /\ End2(v, c.at[2])
Read(v, c) == IF FromSecond(c) THEN v.b[c.at[2]] ELSE v.a[c.at[1]]
ReadExpects(v, c) == IF FromSecond(c) THEN ~End2(v, c.at[2]) ELSE ~End1(v, c.at[1])

\* an element as often as the operation on the two numbers of occurrences says
Count(s, k) == Len(SelectSeq(s, LAMBDA x : x = k))
Often(v, k) ==
  LET m == Count(v.a, k)  n == Count(v.b, k)
  IN CASE v.op = "difference" -> IF m > n THEN m - n ELSE 0
       [] v.op = "intersection" -> IF m < n THEN m ELSE n
       [] v.op = "union" -> IF m > n THEN m ELSE n
       [] v.op = "symmetric" -> IF m > n THEN m - n ELSE n - m
Elements(v) == FlattenSeq([k \in 1 .. 3 |-> [i \in 1 .. Often(v, k - 1) |-> k - 1]])
Size(v) == Len(Elements(v))
Element(v, k) == Elements(v)[k + 1]
=============================================================================
