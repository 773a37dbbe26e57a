------------------------------- MODULE StrideView -------------------------------
(* stride_view of a bidirectional base (view/stride.hpp).  The last stride    *)
(* may be short by offset_; stepping back from the end needs it.  It is       *)
(* computed with the view if the base is sized, and otherwise learnt by the   *)
(* first iterator to reach the end.                                           *)
EXTENDS Integers, Stepping

Unknown == -1
\* calc_offset
Offset_NoZero(len, stride) == stride - (len % stride)
Offset(len, stride) == IF len % stride = 0 THEN 0 ELSE stride - (len % stride)
Fresh(max) ==
  { v \in [len : 0 .. max, stride : 1 .. max, sized : BOOLEAN, offset : Unknown .. max - 1] :
      v.offset = IF v.sized THEN Offset(v.len, v.stride) ELSE Unknown }

\* set_offset: learn the offset, or meet the known one
SetExpects(v, delta) == /\ 0 =< delta /\ delta < v.stride
                        /\ v.offset >= 0 => v.offset = delta
WithOffset(v, delta) == IF v.offset < 0 THEN [v EXCEPT !.offset = delta] ELSE v

Begin(v) == [it |-> 0]
\* can_bound: end() is an iterator only over a sized base
End(v) == [it |-> v.len]

NextExpects(v, c) ==
  /\ c.it # v.len
  /\ Stop(c.it, v.stride, v.len) = v.len => SetExpects(v, Rest(c.it, v.stride, v.len))
Next(v, c) == [it |-> Stop(c.it, v.stride, v.len)]
AfterNext(v, c) ==
  IF Next(v, c).it = v.len THEN WithOffset(v, Rest(c.it, v.stride, v.len)) ELSE v

PrevExpects(v, c) == c.it # 0 /\ (c.it = v.len => v.offset >= 0)
Prev(v, c) == [it |-> c.it - v.stride + (IF c.it = v.len THEN v.offset ELSE 0)]

\* n strides in steps of the base, from the end less the short one
Steps(v, c, n) == n * v.stride + (IF c.it = v.len THEN v.offset ELSE 0)
Advance(v, c, n) ==
  IF n = 0 THEN c
  ELSE IF Steps(v, c, n) > 0 THEN [it |-> Stop(c.it, Steps(v, c, n), v.len)]
  ELSE [it |-> c.it + Steps(v, c, n)]
AfterAdvance(v, c, n) ==
  IF n > 0 /\ Advance(v, c, n).it = v.len
  THEN WithOffset(v, Mod(Rest(c.it, Steps(v, c, n), v.len), v.stride)) ELSE v
AdvanceExpects(v, c, n) ==
  n # 0 =>
    /\ c.it = v.len => n < 0 /\ v.offset >= 0
    /\ n > 0 /\ Advance(v, c, n).it = v.len =>
         SetExpects(v, Mod(Rest(c.it, Steps(v, c, n), v.len), v.stride))
    /\ n < 0 => c.it + Steps(v, c, n) >= 0

\* distance_to: rounded away from zero
Distance_RoundedDown(v, c, d) == Div(d.it - c.it, v.stride)
Distance(v, c, d) ==
  LET delta == d.it - c.it
  IN Div(IF delta < 0 THEN delta - (v.stride - 1) ELSE delta + (v.stride - 1), v.stride)
Equal(c, d) == c.it = d.it
AtEnd(v, c) == c.it = v.len
Read(v, c) == c.it

\* size(); doc/index.md: every Nth element, starting with the first
Size(v) == (v.len + v.stride - 1) \div v.stride
Element(v, k) == k * v.stride
=============================================================================
