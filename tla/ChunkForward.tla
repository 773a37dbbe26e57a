------------------------------ MODULE ChunkForward ------------------------------
(* chunk_view of a forward base (view/chunk.hpp): the adaptor of an iterator  *)
(* keeps offset, what the last chunk lacks once the iterator is at the end.   *)
EXTENDS Integers, Stepping

Fresh(max) == [len : 0 .. max, n : 1 .. max]

Begin(v) == [it |-> 0, offset |-> 0]

\* offset() checks itself wherever it is used
OffsetExpects(v, c) == 0 =< c.offset /\ c.offset < v.n
ReadExpects(v, c) == c.it # v.len /\ OffsetExpects(v, c) /\ c.offset = 0

NextExpects(v, c) == ReadExpects(v, c)
Next(v, c) == [it |-> Stop(c.it, v.n, v.len), offset |-> Rest(c.it, v.n, v.len)]

Prev(v, c) == [it |-> c.it - v.n + c.offset, offset |-> 0]

AdvanceExpects(v, c, n) == OffsetExpects(v, c) /\ (n > 0 => c.offset = 0)
Advance(v, c, n) ==
  IF n > 0 THEN [it |-> Stop(c.it, n * v.n, v.len), offset |-> Mod(Rest(c.it, n * v.n, v.len), v.n)]
  ELSE IF n < 0 THEN [it |-> c.it + n * v.n + c.offset, offset |-> 0]
  ELSE c

Delta(c, d) == (d.it - c.it) + (d.offset - c.offset)
DistanceExpects(v, c, d) ==
  OffsetExpects(v, c) /\ OffsetExpects(v, d) /\ Mod(Delta(c, d), v.n) = 0
Distance(v, c, d) == Div(Delta(c, d), v.n)
Equal(c, d) == c.it = d.it
AtEnd(v, c) == c.it = v.len
\* take(make_subrange(it, end_), n_)
Read(v, c) == <<c.it, Lesser(v.n, v.len - c.it)>>

\* size_(); doc/index.md: chunks of n elements, the last may have fewer
Size(v) == v.len \div v.n + (IF v.len % v.n # 0 THEN 1 ELSE 0)
Element(v, k) == <<k * v.n, IF k + 1 < Size(v) THEN v.n ELSE v.len - k * v.n>>
=============================================================================
