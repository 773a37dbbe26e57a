----------------------------- MODULE ClosedIotaView -----------------------------
(* closed_iota_view (view/iota.hpp) of the unsigned type of 64 bits: from_ up *)
(* to and with to_, which may be the greatest value there is, so that the end *)
(* is not a value but the flag done_, and whose distances only diffmax_t can  *)
(* tell.  What ++, += and - of iterators reach is proved in PositionsProofs.  *)
EXTENDS Integers

CONSTANT Values  \* 2^w of the type
Diff == INSTANCE DiffMax WITH Modulus <- Values

\* a view of all values has one element more than a distance can tell
Overfull(v) == v.from = 0 /\ v.to = Values - 1
Fresh(max) == { v \in [from : 0 .. Values - 1, to : 0 .. Values - 1] :
                  v.from =< v.to /\ (v.to - v.from < max \/ Overfull(v)) }
Bit(b) == Diff!Of(IF b THEN 1 ELSE 0)

\* i0 is the greater in a distance backwards
IotaDistance(i0, i1) == IF i0 > i1 THEN Diff!Negative(Diff!Of(i0 - i1)) ELSE Diff!Of(i1 - i0)
IotaAdvance(i, n) ==
  (IF Diff!Less(n, Diff!Of(0)) THEN i - Diff!ToUnsigned(Diff!Negative(n)) ELSE i + Diff!ToUnsigned(n))
    % Values

Begin(v) == [from |-> v.from, done |-> FALSE]
End(v) == [from |-> v.to, done |-> TRUE]

NextExpects(v, c) == ~c.done
Next(v, c) == IF c.from = v.to THEN [c EXCEPT !.done = TRUE]
              ELSE [c EXCEPT !.from = (@ + 1) % Values]
Prev(v, c) == IF c.done THEN [c EXCEPT !.done = FALSE]
              ELSE [c EXCEPT !.from = (@ - 1) % Values]

\* done_ is assigned while n is computed from it
Finishes(v, c, n) == Diff!AtMost(IotaDistance(c.from, v.to), Diff!Minus(n, Bit(~c.done)))
Forwards(n) == Diff!Less(Diff!Of(0), n)
AdvanceExpects(v, c, i) ==
  LET n == Diff!Of(i) IN
  Forwards(n) => Diff!AtMost(Diff!Minus(n, Bit(~c.done)), IotaDistance(c.from, v.to))
Advance(v, c, i) ==
  LET n == Diff!Of(i) IN
  IF Forwards(n)
  THEN [from |-> IotaAdvance(c.from, Diff!Minus(n, Bit(Finishes(v, c, n)))), done |-> Finishes(v, c, n)]
  ELSE IF Diff!Less(n, Diff!Of(0))
  THEN [from |-> IotaAdvance(c.from, Diff!Plus(n, Bit(c.done))), done |-> FALSE]
  ELSE c

\* the client reads the difference as a number
Distance(v, c, d) ==
  Diff!Value(Diff!Plus(IotaDistance(c.from, d.from), Diff!Minus(Bit(d.done), Bit(c.done))))
Equal(c, d) == c.from = d.from /\ c.done = d.done
AtEnd(v, c) == c.done
Read(v, c) == c.from
ReadExpects(v, c) == ~c.done

\* distance_to(default_sentinel_t) from begin(); doc/index.md: the closed range
Size(v) == v.to - v.from + 1
Element(v, k) == v.from + k

\* the views of which every distance can be told
Ranges == {v \in [from : 0 .. Values - 1, to : 0 .. Values - 1] : v.from =< v.to /\ ~Overfull(v)}

\* the iterator at place p
At(v, p) == IF p = Size(v) THEN End(v) ELSE [from |-> v.from + p, done |-> FALSE]
==============================================================================
