------------------------------- MODULE GenerateView -------------------------------
(* generate_n_view (view/generate_n.hpp): the elements are the results of     *)
(* calling a function, which may be called once for each, read or not.        *)
EXTENDS Integers

Empty == -1
\* n: what is left; val: the cached result; calls: those made of the function
Fresh(max) == UNION { [len : {k}, n : {k}, val : {Empty}, calls : {0}] : k \in 0 .. max }
Untouched(v) == v.n = v.len /\ v.calls = 0

Begin(v) == [view |-> TRUE]
NextExpects(v, c) == v.n # 0
Next(v, c) == c
AfterNext(v, c) ==
  [v EXCEPT !.n = @ - 1, !.val = Empty, !.calls = IF v.val = Empty THEN @ + 1 ELSE @]
AtEnd(v, c) == v.n = 0

AfterRead(v, c) == IF v.val = Empty THEN [v EXCEPT !.val = v.calls, !.calls = @ + 1] ELSE v
Read(v, c) == AfterRead(v, c).val

\* doc/index.md: "generates the requested number of elements by calling the
\* function"
Size(v) == v.len
Element(v, k) == k
=============================================================================
