-------------------------------- MODULE SampleView --------------------------------
(* sample_view (view/sample.hpp): how many are still to be taken is kept in   *)
(* the view; how many are left of the base is counted by the cursor, or, from *)
(* a sized sentinel, computed.  The random numbers are any there may be.      *)
EXTENDS Integers, Stepping

\* size: the member size_; count: what the caller asked for
Fresh(max) ==
  UNION { [len : 0 .. max, size : {k}, count : {k}, tracked : BOOLEAN] : k \in 0 .. max + 1 }
Untouched(v) == v.size \in {v.count, v.len}

\* pop_size()
Pop(v, c) == IF v.tracked THEN c.left ELSE v.len - c.it
Step(c) == [it |-> c.it + 1, left |-> c.left - 1]
\* advance(): where it may stop; an element may be left out while more than
\* size_ are left
Landings(v, c) ==
  IF v.size =< 0 THEN {c}
  ELSE { d \in { [it |-> c.it + k, left |-> c.left - k] : k \in 0 .. v.len } :
           Pop(v, d) > 0 /\ (d = c \/ Pop(v, d) >= v.size) }

AfterBegin(v) == [v EXCEPT !.size = Lesser(@, v.len)]
Begins(v) == Landings(AfterBegin(v), [it |-> 0, left |-> v.len])
AfterNext(v, c) == [v EXCEPT !.size = @ - 1]
Nexts(v, c) == Landings(AfterNext(v, c), Step(c))
\* the assertions of next() and of advance()
NextExpects(v, c) == v.size > 0 /\ c.it # v.len /\ (v.size > 1 => Pop(v, Step(c)) > 0)
AtEnd(v, c) == v.size =< 0

\* enough is left for what is still to be taken
ReadExpects(v, c) == c.it < v.len /\ Pop(v, c) >= v.size
Read(v, c) == c.it

\* doc/index.md: a sample of the size asked for, or the whole range
Size(v) == Lesser(v.count, v.len)
=============================================================================
