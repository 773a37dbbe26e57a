------------------------------ MODULE SplitWhenView ------------------------------
(* split_when_view (view/split_when.hpp): a function says of each place of    *)
(* the base whether a delimiter begins there, and how long it is.  It may be  *)
(* empty: zero tells the place before such a delimiter from the one behind it.*)
EXTENDS Integers, Sequences, FiniteSetsExt

NoMatch == -1
Last(v) == v.len + 1
\* fun[i]: the length of the delimiter at place i
Fresh(max) ==
  UNION { { v \in [len : {n}, fun : [1 .. n + 1 -> {NoMatch} \cup 0 .. 2]] :
              \A i \in 1 .. n + 1 : i + v.fun[i] =< n + 1 } : n \in 0 .. max }
\* a delimiter with an empty one right behind it: the empty piece between them
\* and the piece after it begin at one place
Doubled(v) == \E i \in 1 .. v.len : v.fun[i] > 0 /\ v.fun[i + v.fun[i]] = 0

Begin(v) == [it |-> 1, zero |-> v.fun[1] = 0]

NextExpects(v, c) == c.it # Last(v)
Next(v, c) ==
  LET from == IF c.zero THEN c.it + 1 ELSE c.it
      found == { j \in from .. v.len : v.fun[j] # NoMatch }
  IN IF found = {} THEN [it |-> Last(v), zero |-> FALSE]
     ELSE [it |-> Min(found) + v.fun[Min(found)], zero |-> v.fun[Min(found)] = 0]

Equal(c, d) == c.it = d.it
AtEnd(v, c) == c.it = Last(v)
\* search_pred, and the take_while over it
Belongs(v, c, i) == (c.zero /\ i = c.it) \/ (i # Last(v) /\ v.fun[i] = NoMatch)
Read(v, c) ==
  LET stop == Min({ i \in c.it .. Last(v) : ~Belongs(v, c, i) })
  IN [k \in 1 .. stop - c.it |-> c.it + k - 1]

\* doc/index.md: the pieces between the boundaries, without the delimiters; an
\* empty delimiter at the first place delimits nothing
Pieces(v) ==
  LET rest[i \in 1 .. Last(v), skip \in BOOLEAN] ==
        LET found == { j \in i .. v.len : v.fun[j] # NoMatch /\ (skip => j # i) }
            stop == IF found = {} THEN Last(v) ELSE Min(found)
        IN IF i = Last(v) THEN <<>>
           ELSE <<[k \in 1 .. stop - i |-> i + k - 1]>> \o
                (IF found = {} THEN <<>> ELSE rest[stop + v.fun[stop], v.fun[stop] = 0])
  IN rest[1, v.fun[1] = 0]
Size(v) == Len(Pieces(v))
Element(v, k) == Pieces(v)[k + 1]
=============================================================================
